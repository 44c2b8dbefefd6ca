-------------------------- MODULE MCGdbBreakpoints --------------------------
(* Breakpoints for TLC. *)
EXTENDS GdbBreakpoints
=============================================================================
