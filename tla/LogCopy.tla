------------------------------- MODULE LogCopy -------------------------------
(***************************************************************************)
(* What publishing validation results and observing them amounts to: a log *)
(* that only grows, and a copy of it that is made one entry at a time, in  *)
(* order.  Module Observer shows how far the code of store/w3store.go and  *)
(* role/observer implements it.                                            *)
(***************************************************************************)
EXTENDS Naturals, Sequences

CONSTANT Entries   \* what is logged

VARIABLES log, copy

vars == <<log, copy>>

Init == log = <<>> /\ copy = <<>>

Extend ==
    /\ \E e \in Entries : log' = Append(log, e)
    /\ UNCHANGED copy

Copy ==
    /\ Len(copy) < Len(log)
    /\ copy' = Append(copy, log[Len(copy) + 1])
    /\ UNCHANGED log

Next == Extend \/ Copy

Spec == Init /\ [][Next]_vars
=============================================================================
