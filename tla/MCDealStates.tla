---------------------------- MODULE MCDealStates -----------------------------
(* Two deals of two clients, for TLC. *)
EXTENDS DealStates

CONSTANTS d1, d2, c1, c2

ClientsOfDeals == [d \in Deals |-> IF d = d1 THEN c1 ELSE c2]
=============================================================================
