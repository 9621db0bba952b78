----------------------------- MODULE MCKeyboard -----------------------------
(* The two by two matrix of the sample's board.                            *)
EXTENDS Keyboard

MCKey == {"VolDn", "VolUp", "K1", "K2"}
MCConsumer == {"VolDn", "VolUp"}
MCRowOf == [k \in MCKey |-> IF k \in {"VolDn", "K1"} THEN "S0" ELSE "S1"]
=============================================================================
