---------------------------- MODULE MCMemMappings ----------------------------
(* The conversion of free lists for TLC. *)
EXTENDS MemMappings
=============================================================================
