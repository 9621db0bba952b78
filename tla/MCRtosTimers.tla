---------------------------- MODULE MCRtosTimers ----------------------------
(* Two timers, one of which starts again, for TLC.                         *)
EXTENDS RtosTimers
=============================================================================
