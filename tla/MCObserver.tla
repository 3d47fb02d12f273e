----------------------------- MODULE MCObserver ------------------------------
(* One auditor's list and an observer of it, for TLC. *)
EXTENDS Observer

CONSTANTS p1, f1, f2, f3
=============================================================================
