----------------------------- MODULE MCLifecycle -----------------------------
(* Boot and shutdown for TLC. *)
EXTENDS Lifecycle
=============================================================================
