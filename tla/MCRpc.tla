-------------------------------- MODULE MCRpc --------------------------------
(* Two tasks that one auditor won, for TLC. *)
EXTENDS Rpc

CONSTANTS t1, t2
=============================================================================
