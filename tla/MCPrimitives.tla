---------------------------- MODULE MCPrimitives ----------------------------
(* Every sequence of up to four drives: MCPrimitives.cfg. *)
EXTENDS HebsPrimitives

=============================================================================
