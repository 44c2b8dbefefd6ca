------------------------------- MODULE MCNetRx -------------------------------
(* The receive ring for TLC: two slots, and counters that wrap after four   *)
(* frames, so that seven frames fill the ring and wrap both counters.       *)
EXTENDS NetRx
=============================================================================
