----------------------------- MODULE MCCheckpoint -----------------------------
(* Checkpoints for TLC: one page of each kind unless the configuration says  *)
(* otherwise.                                                                *)
EXTENDS Checkpoint
=============================================================================
