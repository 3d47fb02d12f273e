---------------------------- MODULE TrustManager -----------------------------
(***************************************************************************)
(* Manager of role/trust/trust.go: the goroutine that reads the lists of   *)
(* all trustors in turn and then replaces the set that IsTrusted and       *)
(* Trustees answer from.  The lists change meanwhile (module TrustList),   *)
(* and reading one may fail.                                               *)
(***************************************************************************)
EXTENDS Naturals

CONSTANTS
    Trustors,    \* m.Trustors
    Peers,       \* the peers that lists name
    MaxChanges   \* bound: how often a list changes

ASSUME TrustManagerAssumption == MaxChanges \in Nat

VARIABLES
    list,        \* list[t]: what trustor t has published
    changes,     \* how often a list has changed
    toRead,      \* the trustors this round has still to read
    newTrustees, \* newTrustees of this round
    trustees,    \* *m.trustees
    listedSince, \* history: the peers some list named in this round
    without      \* history: the pairs <<t, x>> for which this round could do
                 \* without x: the list of t did not name it at some time,
                 \* or could not be read

vars == <<list, changes, toRead, newTrustees, trustees, listedSince, without>>

TypeOK ==
    /\ list \in [Trustors -> SUBSET Peers]
    /\ changes \in 0 .. MaxChanges
    /\ toRead \subseteq Trustors
    /\ newTrustees \subseteq Peers
    /\ trustees \subseteq Peers
    /\ listedSince \subseteq Peers
    /\ without \subseteq Trustors \X Peers

Named == UNION {list[t] : t \in Trustors}
Missing == {tx \in Trustors \X Peers : tx[2] \notin list[tx[1]]}

Init ==
    /\ list \in [Trustors -> SUBSET Peers]
    /\ changes = 0
    /\ toRead = Trustors
    /\ newTrustees = {}
    /\ trustees = {}
    /\ listedSince = Named
    /\ without = Missing

\* ModifyPeers replaces the list of a trustor.
ChangeList(t) ==
    /\ changes < MaxChanges
    /\ changes' = changes + 1
    /\ \E peers \in SUBSET Peers : list' = [list EXCEPT ![t] = peers]
    /\ listedSince' = listedSince \cup Named'
    /\ without' = without \cup Missing'
    /\ UNCHANGED <<toRead, newTrustees, trustees>>

\* ListPeers of the next trustor.
ReadList(t) ==
    /\ t \in toRead
    /\ toRead' = toRead \ {t}
    /\ newTrustees' = newTrustees \cup list[t]
    /\ UNCHANGED <<list, changes, trustees, listedSince, without>>

\* ListPeers fails: after retryInterval the loop continues with the next.
ReadListFails(t) ==
    /\ t \in toRead
    /\ toRead' = toRead \ {t}
    /\ without' = without \cup {t} \X Peers
    /\ UNCHANGED <<list, changes, newTrustees, trustees, listedSince>>

\* Mutants of ReplaceTrustees: lists are still unread; newTrustees is not
\* emptied; the next round reads nothing.
ReplaceUnread ==
    /\ trustees' = newTrustees
    /\ newTrustees' = {}
    /\ toRead' = Trustors
    /\ listedSince' = Named
    /\ without' = Missing
    /\ UNCHANGED <<list, changes>>
ReplaceAndKeep ==
    /\ toRead = {}
    /\ trustees' = newTrustees
    /\ toRead' = Trustors
    /\ listedSince' = Named
    /\ without' = Missing
    /\ UNCHANGED <<list, changes, newTrustees>>
ReplaceAndStop ==
    /\ toRead = {}
    /\ trustees' = newTrustees
    /\ newTrustees' = {}
    /\ listedSince' = Named
    /\ without' = Missing
    /\ UNCHANGED <<list, changes, toRead>>

\* The end of the round, and after pollInterval the start of the next.
ReplaceTrustees ==
    /\ toRead = {}
    /\ trustees' = newTrustees
    /\ newTrustees' = {}
    /\ toRead' = Trustors
    /\ listedSince' = Named
    /\ without' = Missing
    /\ UNCHANGED <<list, changes>>

Round ==
    \/ \E t \in Trustors : ReadList(t) \/ ReadListFails(t)
    \/ ReplaceTrustees

Next == Round \/ \E t \in Trustors : ChangeList(t)

Spec == Init /\ [][Next]_vars

-----------------------------------------------------------------------------
(* Only a peer that some trustor listed while the round lasted becomes     *)
(* trusted, although the lists are read at different times.                *)
OnlyListedBecomeTrusted ==
    [][trustees' # trustees => trustees' \subseteq listedSince]_vars

(* A peer loses its trust only when the round could do without it on every *)
(* list, each at some time: reading one list late, or not at all, never    *)
(* costs a peer that another list names all along.                         *)
ListedPeersAreKept ==
    [][\A x \in trustees \ trustees', t \in Trustors :
          <<t, x>> \in without]_vars
=============================================================================
