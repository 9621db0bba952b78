----------------------------- MODULE MCDebugLog -----------------------------
(* The debug log with four slots and pointers that wrap at 8.              *)
EXTENDS DebugLog

MCBoth == {"UART", "GSUART"}
MCOneUser == {{"printf"}, {"irq"}}
MCBothKinds == {"short", "full"}
MCShort == {"short"}
=============================================================================
