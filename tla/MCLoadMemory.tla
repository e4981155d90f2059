---------------------------- MODULE MCLoadMemory ----------------------------
(* Every allocation may fail at every point of a load: MCLoadMemory.cfg.    *)
EXTENDS HebsLoadMemory

=============================================================================
