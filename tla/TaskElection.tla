---------------------------- MODULE TaskElection ----------------------------
(***************************************************************************)
(* What the bidding of the auditors promises for one broadcast task: every *)
(* auditor that wants the task names a number once, and may give the task  *)
(* up only when somebody else named a higher one.  Nothing is said about   *)
(* messages, maps or goroutines: module Auditor shows how the code of      *)
(* role/auditor keeps the promise.                                         *)
(***************************************************************************)
EXTENDS Naturals

CONSTANTS
    Auditors,   \* the peers that run role/auditor
    Tasks,      \* the task identifiers that are ever broadcast
    Bids,       \* the natural numbers that can be bid
    NoBid       \* the value of "has not bid", not a number

VARIABLES
    bid,        \* bid[a][t]: what a bid for t, or NoBid
    outcome     \* outcome[a][t]: what a decided to do about t

vars == <<bid, outcome>>

Outcomes == {"undecided", "won", "lost", "abandoned"}

TypeOK ==
    /\ bid \in [Auditors -> [Tasks -> Bids \cup {NoBid}]]
    /\ outcome \in [Auditors -> [Tasks -> Outcomes]]

Init ==
    /\ bid = [a \in Auditors |-> [t \in Tasks |-> NoBid]]
    /\ outcome = [a \in Auditors |-> [t \in Tasks |-> "undecided"]]

Outbids(p, a, t) ==
    /\ bid[p][t] \in Nat
    /\ bid[a][t] \in Nat
    /\ bid[p][t] > bid[a][t]

Bid(a, t) ==
    /\ bid[a][t] = NoBid
    /\ outcome[a][t] = "undecided"
    /\ \E v \in Bids : bid' = [bid EXCEPT ![a][t] = v]
    /\ UNCHANGED outcome

Win(a, t) ==
    /\ bid[a][t] # NoBid
    /\ outcome[a][t] = "undecided"
    /\ outcome' = [outcome EXCEPT ![a][t] = "won"]
    /\ UNCHANGED bid

Lose(a, t) ==
    /\ outcome[a][t] = "undecided"
    /\ \E p \in Auditors : Outbids(p, a, t)
    /\ outcome' = [outcome EXCEPT ![a][t] = "lost"]
    /\ UNCHANGED bid

\* The process of a dies, taking with it whichever tasks were unfinished.
Abandon(a, T) ==
    /\ \A t \in T : bid[a][t] # NoBid /\ outcome[a][t] # "lost"
    /\ outcome' = [outcome EXCEPT ![a] =
          [t \in Tasks |-> IF t \in T THEN "abandoned" ELSE outcome[a][t]]]
    /\ UNCHANGED bid

Next ==
    \E a \in Auditors :
        \/ \E t \in Tasks : Bid(a, t) \/ Win(a, t) \/ Lose(a, t)
        \/ \E T \in SUBSET Tasks : Abandon(a, T)

Spec == Init /\ [][Next]_vars

-----------------------------------------------------------------------------
(* An auditor drops a task only when a peer really bid more for it.        *)
LoserIsOutbid ==
    \A a \in Auditors, t \in Tasks :
        outcome[a][t] = "lost" => \E p \in Auditors : Outbids(p, a, t)

(* A task is never dropped by everybody: once every bidder has decided and *)
(* none of them died, one of them took it.                                 *)
SomebodyWins ==
    \A t \in Tasks :
        LET Bidders == {a \in Auditors : bid[a][t] # NoBid} IN
        (/\ Bidders # {}
         /\ \A a \in Bidders : outcome[a][t] \in {"won", "lost"})
        => \E a \in Bidders : outcome[a][t] = "won"
=============================================================================
