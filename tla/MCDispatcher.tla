---------------------------- MODULE MCDispatcher -----------------------------
(* A small table of task definitions, for TLC. *)
EXTENDS Dispatcher

CONSTANTS d1, d2
=============================================================================
