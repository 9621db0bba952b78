---------------------------- MODULE MCSoftTimer -----------------------------
(* A short system timer that wraps many times, three timers.               *)
EXTENDS SoftTimer

CONSTANTS f, g

MCCallback == {f, g}
=============================================================================
