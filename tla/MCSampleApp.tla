----------------------------- MODULE MCSampleApp -----------------------------
(* The sample application on a chip of 1 MByte that boots from 512 KByte:   *)
(* the firmware asks for the whole chip.  Another block stands for every   *)
(* protection but the wanted one.  The sectors of the stack begin at       *)
(* 0xF4000.                                                                *)
EXTENDS SampleApp

MCBlock == {256, 960, 1024}
=============================================================================
