------------------------------- MODULE MCNetTx -------------------------------
(* The transmit ring for TLC: two cores, two slots, counters that wrap      *)
(* after four frames; frame lengths below, just below and at the MTU, and   *)
(* the empty frame.                                                         *)
EXTENDS NetTx
=============================================================================
