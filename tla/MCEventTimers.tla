---------------------------- MODULE MCEventTimers ----------------------------
(* A periodic and a plain callback timer and an application's event timer   *)
(* on a clock of eight ticks.                                               *)
EXTENDS EventTimers
ShortAndLong == {1, 2}
=============================================================================
