---------------------------- MODULE MCStopTheWorld ----------------------------
(* A checkpoint and a migration at the same time, for TLC. *)
EXTENDS StopTheWorld
=============================================================================
