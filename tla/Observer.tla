------------------------------ MODULE Observer -------------------------------
(***************************************************************************)
(* role/observer/observer.go and the subscribing half of store/w3store.go, *)
(* on top of the list that one auditor publishes (module W3Store).         *)
(*                                                                         *)
(* The loop of Start compares the trustees of this second with those of    *)
(* the last one and starts a goroutine per new peer.  That goroutine asks  *)
(* the database for the last CID it stored, subscribes from there, and     *)
(* stores what the subscription hands it over an unbuffered channel; the   *)
(* subscription is a goroutine of its own that polls the name record and   *)
(* walks the blocks back.  A Feed is such a pair of goroutines.  Feeds of  *)
(* different peers share nothing, so one peer is enough.                   *)
(***************************************************************************)
EXTENDS W3Store

CONSTANTS
    Feeds,         \* bound: the pairs of goroutines that are ever started
    StoringFails,  \* TRUE: storeResult may return an error
    MaxTrustFlips, \* bound: how often the peer's trust changes
    MaxCrashes     \* bound: how often the observer's process ends

ASSUME ObserverAssumption ==
    /\ StoringFails \in BOOLEAN
    /\ MaxTrustFlips \in Nat
    /\ MaxCrashes \in Nat

VARIABLES
    trusted,  \* trustManager.IsTrusted of the peer
    flips,    \* how often trusted has changed
    crashes,  \* how often the observer has ended
    tracked,  \* the peer is in currentTrustees of Start
    rows,     \* the CIDs in validation_results, in order of the primary key
    skipped,  \* history: the CIDs of results that could not be stored
    consumer, \* consumer[f]: where downloadEntriesForAuditorPeer is
    received, \* received[f]: the entry it took from the channel
    polling,  \* polling[f]: the goroutine of Subscribe exists
    last,     \* last[f]: its last CID
    todo      \* todo[f]: downloaded entries it has still to send

feedVars == <<consumer, received, polling, last, todo>>
observerVars == <<trusted, flips, crashes, tracked, rows, skipped, feedVars>>
vars == <<storeVars, observerVars>>

TypeOK ==
    /\ StoreTypeOK
    /\ trusted \in BOOLEAN
    /\ flips \in 0 .. MaxTrustFlips
    /\ crashes \in 0 .. MaxCrashes
    /\ tracked \in BOOLEAN
    /\ rows \in Seq(Chains)
    /\ skipped \subseteq Chains
    /\ consumer \in [Feeds -> {"unused", "starting", "checking", "selecting",
                               "storing", "returned"}]
    /\ received \in [Feeds -> Chains]
    /\ polling \in [Feeds -> BOOLEAN]
    /\ last \in [Feeds -> Chains]
    /\ todo \in [Feeds -> Seq(Chains)]

Init ==
    /\ StoreInit
    /\ trusted = TRUE
    /\ flips = 0
    /\ crashes = 0
    /\ tracked = FALSE
    /\ rows = <<>>
    /\ skipped = {}
    /\ consumer = [f \in Feeds |-> "unused"]
    /\ received = [f \in Feeds |-> <<>>]
    /\ polling = [f \in Feeds |-> FALSE]
    /\ last = [f \in Feeds |-> <<>>]
    /\ todo = [f \in Feeds |-> <<>>]

-----------------------------------------------------------------------------
\* Mutant of ChainedEntries: the entries are not put in the order of the list.
NewestFirst(fromExclusive, to) ==
    LET met == IF fromExclusive # <<>> /\ IsPrefix(fromExclusive, to)
               THEN Len(fromExclusive) ELSE 0
    IN  [n \in 1 .. Len(to) - met |-> SubSeq(to, 1, Len(to) + 1 - n)]

(* downloadChainedEntries from the entry to back to fromExclusive, or, when *)
(* that is not met, to the first entry; the result is oldest first, as     *)
(* Subscribe sends it.  The n-th entry of a chain is its prefix of length n.*)
ChainedEntries(fromExclusive, to) ==
    LET met == IF fromExclusive # <<>> /\ IsPrefix(fromExclusive, to)
               THEN Len(fromExclusive) ELSE 0
    IN  [n \in 1 .. Len(to) - met |-> SubSeq(to, 1, met + n)]

\* The last row by primary key; no row is the nil CID.
LastCidFromDB == IF rows = <<>> THEN <<>> ELSE rows[Len(rows)]

-----------------------------------------------------------------------------
(* The trust manager (module Trust) changes its mind about the peer.       *)
FlipTrust ==
    /\ flips < MaxTrustFlips
    /\ flips' = flips + 1
    /\ trusted' = ~trusted
    /\ UNCHANGED <<storeVars, skipped, crashes, tracked, rows, feedVars>>

\* One round of the loop in Start.
TrackTrustees ==
    /\ tracked # trusted
    /\ tracked' = trusted
    /\ IF trusted
       THEN \E f \in Feeds :
               /\ consumer[f] = "unused"
               /\ consumer' = [consumer EXCEPT ![f] = "starting"]
       ELSE UNCHANGED consumer
    /\ UNCHANGED <<storeVars, skipped, trusted, flips, crashes, rows, received,
                   polling, last, todo>>

\* lastCidFromDB and Subscribe.
StartFeed(f) ==
    /\ consumer[f] = "starting"
    /\ consumer' = [consumer EXCEPT ![f] = "checking"]
    /\ last' = [last EXCEPT ![f] = LastCidFromDB]
    /\ polling' = [polling EXCEPT ![f] = TRUE]
    /\ UNCHANGED <<storeVars, skipped, trusted, flips, crashes, tracked, rows,
                   received, todo>>

\* lastCidFromDB fails: the goroutine returns, and no other is started while
\* the peer stays trusted.
StartFeedFails(f) ==
    /\ StoringFails
    /\ consumer[f] = "starting"
    /\ consumer' = [consumer EXCEPT ![f] = "returned"]
    /\ UNCHANGED <<storeVars, skipped, trusted, flips, crashes, tracked, rows,
                   received, polling, last, todo>>

CheckTrust(f) ==
    /\ consumer[f] = "checking"
    /\ consumer' = [consumer EXCEPT ![f] =
          IF trusted THEN "selecting" ELSE "returned"]
    /\ UNCHANGED <<storeVars, skipped, trusted, flips, crashes, tracked, rows,
                   received, polling, last, todo>>

\* Mutant of Poll: the goroutine ends after the first entries.
PollOnce(f) ==
    /\ polling[f]
    /\ todo[f] = <<>>
    /\ record # NoRecord
    /\ \A n \in 1 .. Len(LatestCid) : SubSeq(LatestCid, 1, n) \in blocks
    /\ todo' = [todo EXCEPT ![f] = ChainedEntries(last[f], LatestCid)]
    /\ polling' = [polling EXCEPT ![f] = FALSE]
    /\ UNCHANGED <<storeVars, skipped, trusted, flips, crashes, tracked, rows,
                   consumer, received, last>>

\* Subscribe: poll the name and download everything after last.  A poll or
\* a download that fails is tried again and changes nothing.
Poll(f) ==
    /\ polling[f]
    /\ todo[f] = <<>>
    /\ record # NoRecord
    /\ \A n \in 1 .. Len(LatestCid) : SubSeq(LatestCid, 1, n) \in blocks
    /\ todo' = [todo EXCEPT ![f] = ChainedEntries(last[f], LatestCid)]
    /\ UNCHANGED <<storeVars, skipped, trusted, flips, crashes, tracked, rows,
                   consumer, received, polling, last>>

\* The two goroutines meet on the channel; the subscription moves on at once.
HandOver(f) ==
    /\ todo[f] # <<>>
    /\ consumer[f] = "selecting"
    /\ received' = [received EXCEPT ![f] = todo[f][1]]
    /\ last' = [last EXCEPT ![f] = todo[f][1]]
    /\ todo' = [todo EXCEPT ![f] = Tail(@)]
    /\ consumer' = [consumer EXCEPT ![f] = "storing"]
    /\ UNCHANGED <<storeVars, skipped, trusted, flips, crashes, tracked, rows,
                   polling>>

StoreResult(f) ==
    /\ consumer[f] = "storing"
    /\ rows' = Append(rows, received[f])
    /\ consumer' = [consumer EXCEPT ![f] = "checking"]
    /\ received' = [received EXCEPT ![f] = <<>>]
    /\ UNCHANGED <<storeVars, skipped, trusted, flips, crashes, tracked,
                   polling, last, todo>>

\* storeResult returns an error (the payload, or the database): it is logged.
StoreResultFails(f) ==
    /\ StoringFails
    /\ consumer[f] = "storing"
    /\ consumer' = [consumer EXCEPT ![f] = "checking"]
    /\ skipped' = skipped \cup {received[f]}
    /\ received' = [received EXCEPT ![f] = <<>>]
    /\ UNCHANGED <<storeVars, trusted, flips, crashes, tracked, rows, polling,
                   last, todo>>

\* The observer's process ends and is started again; only the rows remain.
CrashObserver ==
    /\ crashes < MaxCrashes
    /\ crashes' = crashes + 1
    /\ tracked' = FALSE
    /\ consumer' = [f \in Feeds |-> "unused"]
    /\ received' = [f \in Feeds |-> <<>>]
    /\ polling' = [f \in Feeds |-> FALSE]
    /\ last' = [f \in Feeds |-> <<>>]
    /\ todo' = [f \in Feeds |-> <<>>]
    /\ UNCHANGED <<storeVars, skipped, trusted, flips, rows>>

Feed(f) ==
    \/ StartFeed(f)
    \/ StartFeedFails(f)
    \/ CheckTrust(f)
    \/ Poll(f)
    \/ HandOver(f)
    \/ StoreResult(f)
    \/ StoreResultFails(f)

Next ==
    \/ StoreNext /\ UNCHANGED observerVars
    \/ FlipTrust
    \/ TrackTrustees
    \/ CrashObserver
    \/ \E f \in Feeds : Feed(f)

Spec == Init /\ [][Next]_vars

\* The goroutines of the observer run, and its polls succeed in the end.
FairSpec ==
    /\ Spec
    /\ WF_vars(TrackTrustees)
    /\ \A f \in Feeds : WF_vars(Feed(f))

-----------------------------------------------------------------------------
Stored == ToSet(rows)

(* Nothing is left out but what could not be stored: the entry before a    *)
(* stored entry was stored or tried, whatever restarts, and however often  *)
(* the peer's trust changes.                                               *)
NoGaps ==
    \A cid \in Stored :
        Len(cid) > 1 => SubSeq(cid, 1, Len(cid) - 1) \in Stored \cup skipped

(* No entry is stored twice.                                               *)
NoDuplicates ==
    \A i, j \in 1 .. Len(rows) : i # j => rows[i] # rows[j]

Replica == INSTANCE LogCopy WITH
    Entries <- Payloads,
    log <- LatestCid,
    copy <- [n \in 1 .. Len(rows) |-> Last(rows[n])]

(* The observer replicates the auditor's list into the database: in order, *)
(* one entry at a time, nothing twice, through crashes of either side.     *)
ReplicatesTheList == Replica!Spec

(* What is in the list reaches the database in the end.                    *)
ListIsCopied ==
    \A n \in Payloads :
        (n \in acked) ~> (\E cid \in Stored : n = Last(cid))
=============================================================================
