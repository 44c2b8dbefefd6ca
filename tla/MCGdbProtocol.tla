---------------------------- MODULE MCGdbProtocol ----------------------------
(* The GDB stub's protocol for TLC. *)
EXTENDS GdbProtocol
=============================================================================
