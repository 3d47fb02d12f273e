------------------------------- MODULE W3Store -------------------------------
(***************************************************************************)
(* The publishing half of store/w3store.go and the two services behind it. *)
(*                                                                         *)
(* W3StorePublisher keeps a linked list: an entry is a block that holds a  *)
(* payload and the CID of the entry before it, and a name record of the    *)
(* peer (IPNS) points at the newest one.  Publish uploads the block, then  *)
(* replaces the name record, and only when both calls were answered well   *)
(* does it remember the new CID and sequence number.                       *)
(*                                                                         *)
(* A CID is a hash of the payload and of the CID before it, so it stands   *)
(* for the whole chain: here it IS the chain, the sequence of payloads up  *)
(* to the entry, and <<>> is the nil CID.  The payload of the n-th call of *)
(* Publish is the number n.                                                *)
(***************************************************************************)
EXTENDS Naturals, Sequences, SequencesExt

CONSTANTS
    Publishers,     \* processes that hold the private key of the peer
    MaxPublishes,   \* bound: calls of Publish
    MaxRestarts,    \* bound: how many times a publisher process ends
    AnswersGetLost, \* TRUE: a call may fail although its effect took place
    NoRecord,       \* the name service knows nothing of the peer
    NoSequence      \* the nil lastSequence

Payloads == 1 .. MaxPublishes
Chains == UNION {[1 .. n -> Payloads] : n \in 0 .. MaxPublishes}

\* An IPNS record; entry is the number of the call that made it, which
\* orders records of one sequence number by their validity.
Records == [sequence : 0 .. MaxPublishes, entry : Payloads, value : Chains]

ASSUME W3StoreAssumption ==
    /\ MaxPublishes \in Nat
    /\ MaxRestarts \in Nat
    /\ AnswersGetLost \in BOOLEAN
    /\ NoRecord \notin Records
    /\ NoSequence \notin Nat

VARIABLES
    calls,    \* how many times Publish was called
    restarts, \* how many publisher processes have ended
    blocks,   \* the CIDs that the gateway can serve
    record,   \* the record the name service holds
    posts,    \* records on their way to the name service
    acked,    \* history: payloads whose Publish returned nil
    stage,    \* stage[p]: where publisher p is
    building, \* building[p]: the entry it is publishing
    lastCid,      \* lastCid[p]
    lastSequence  \* lastSequence[p]

publisherVars == <<stage, building, lastCid, lastSequence>>
storeVars == <<calls, restarts, blocks, record, posts, acked, publisherVars>>

StoreTypeOK ==
    /\ calls \in 0 .. MaxPublishes
    /\ restarts \in 0 .. MaxRestarts
    /\ blocks \subseteq Chains
    /\ record \in Records \cup {NoRecord}
    /\ posts \subseteq Records
    /\ acked \subseteq Payloads
    /\ stage \in [Publishers -> {"closed", "idle", "uploading", "naming",
                                 "waiting"}]
    /\ building \in [Publishers -> Chains]
    /\ lastCid \in [Publishers -> Chains]
    /\ lastSequence \in [Publishers -> 0 .. MaxPublishes \cup {NoSequence}]

StoreInit ==
    /\ calls = 0
    /\ restarts = 0
    /\ blocks = {}
    /\ record = NoRecord
    /\ posts = {}
    /\ acked = {}
    /\ stage = [p \in Publishers |-> "closed"]
    /\ building = [p \in Publishers |-> <<>>]
    /\ lastCid = [p \in Publishers |-> <<>>]
    /\ lastSequence = [p \in Publishers |-> NoSequence]

\* The CID that getLastRecord answers with.
LatestCid == IF record = NoRecord THEN <<>> ELSE record.value

-----------------------------------------------------------------------------
(* The publisher                                                           *)

\* Mutant of Open: the list on the name is not continued.
OpenAnew(p) ==
    /\ stage[p] = "closed"
    /\ stage' = [stage EXCEPT ![p] = "idle"]
    /\ lastSequence' = [lastSequence EXCEPT ![p] =
          IF record = NoRecord THEN @ ELSE record.sequence]
    /\ UNCHANGED <<calls, restarts, blocks, record, posts, acked, building,
                   lastCid>>

\* NewW3StorePublisher and initialize; without an answer it is not opened.
Open(p) ==
    /\ stage[p] = "closed"
    /\ stage' = [stage EXCEPT ![p] = "idle"]
    /\ IF record = NoRecord
       THEN UNCHANGED <<lastCid, lastSequence>>
       ELSE /\ lastCid' = [lastCid EXCEPT ![p] = record.value]
            /\ lastSequence' = [lastSequence EXCEPT ![p] = record.sequence]
    /\ UNCHANGED <<calls, restarts, blocks, record, posts, acked, building>>

\* Publish takes the mutex and builds the block on lastCid.
Publish(p) ==
    /\ stage[p] = "idle"
    /\ calls < MaxPublishes
    /\ calls' = calls + 1
    /\ building' = [building EXCEPT ![p] = Append(lastCid[p], calls')]
    /\ stage' = [stage EXCEPT ![p] = "uploading"]
    /\ UNCHANGED <<restarts, blocks, record, posts, acked, lastCid,
                   lastSequence>>

Upload(p) ==
    /\ stage[p] = "uploading"
    /\ blocks' = blocks \cup {building[p]}
    /\ stage' = [stage EXCEPT ![p] = "naming"]
    /\ UNCHANGED <<calls, restarts, record, posts, acked, building, lastCid,
                   lastSequence>>

\* Mutant of UploadFails: the error is not looked at.
UploadErrorIgnored(p) ==
    /\ stage[p] = "uploading"
    /\ stage' = [stage EXCEPT ![p] = "naming"]
    /\ UNCHANGED <<calls, restarts, blocks, record, posts, acked, building,
                   lastCid, lastSequence>>

\* The upload is answered with an error, or not at all.
UploadFails(p) ==
    /\ stage[p] = "uploading"
    /\ \/ UNCHANGED blocks
       \/ AnswersGetLost /\ blocks' = blocks \cup {building[p]}
    /\ stage' = [stage EXCEPT ![p] = "idle"]
    /\ UNCHANGED <<calls, restarts, record, posts, acked, building, lastCid,
                   lastSequence>>

\* Mutant of NextSequence: a sequence number is left out.
SkippedSequence(p) ==
    IF lastSequence[p] = NoSequence THEN 0 ELSE lastSequence[p] + 2

NextSequence(p) ==
    IF lastSequence[p] = NoSequence THEN 0 ELSE lastSequence[p] + 1

\* publishNewName signs the record and posts it.
PostName(p) ==
    /\ stage[p] = "naming"
    /\ posts' = posts \cup {[sequence |-> NextSequence(p),
                             entry |-> Last(building[p]),
                             value |-> building[p]]}
    /\ stage' = [stage EXCEPT ![p] = "waiting"]
    /\ UNCHANGED <<calls, restarts, blocks, record, acked, building, lastCid,
                   lastSequence>>

OwnPost(p, r) == stage[p] = "waiting" /\ building[p] = r.value

\* The posted record was accepted: status 202.
Acknowledged(p) ==
    /\ stage' = [stage EXCEPT ![p] = "idle"]
    /\ lastCid' = [lastCid EXCEPT ![p] = building[p]]
    /\ lastSequence' = [lastSequence EXCEPT ![p] = NextSequence(p)]
    /\ acked' = acked \cup {Last(building[p])}
    /\ UNCHANGED building

\* Publish returns an error; nothing is remembered.  A post that nobody
\* waits for any more is lost, or handled later.
GiveUp(p) ==
    /\ stage[p] = "waiting"
    /\ stage' = [stage EXCEPT ![p] = "idle"]
    /\ \/ posts' = {r \in posts : ~OwnPost(p, r)}
       \/ AnswersGetLost /\ UNCHANGED posts
    /\ UNCHANGED <<calls, restarts, blocks, record, acked, building, lastCid,
                   lastSequence>>

\* The process ends, whatever it was doing; its post may still arrive.
Close(p) ==
    /\ stage[p] # "closed"
    /\ restarts < MaxRestarts
    /\ restarts' = restarts + 1
    /\ stage' = [stage EXCEPT ![p] = "closed"]
    /\ building' = [building EXCEPT ![p] = <<>>]
    /\ lastCid' = [lastCid EXCEPT ![p] = <<>>]
    /\ lastSequence' = [lastSequence EXCEPT ![p] = NoSequence]
    /\ \/ posts' = {r \in posts : ~OwnPost(p, r)}
       \/ AnswersGetLost /\ UNCHANGED posts
    /\ UNCHANGED <<calls, blocks, record, acked>>

-----------------------------------------------------------------------------
(* The name service (external): of two records it keeps the one IPNS       *)
(* prefers, that of the higher sequence number, then of the later validity.*)

Supersedes(r) ==
    record # NoRecord =>
        \/ r.sequence > record.sequence
        \/ r.sequence = record.sequence /\ r.entry > record.entry

Accept(r) ==
    /\ Supersedes(r)
    /\ record' = r
    /\ posts' = posts \ {r}
    /\ \/ \E p \in Publishers : OwnPost(p, r) /\ Acknowledged(p)
       \/ /\ AnswersGetLost \/ \A p \in Publishers : ~OwnPost(p, r)
          /\ UNCHANGED <<acked, publisherVars>>
    /\ UNCHANGED <<calls, restarts, blocks>>

\* A late record is refused; if its publisher still waits, it gives up.
Refuse(r) ==
    /\ ~Supersedes(r)
    /\ posts' = posts \ {r}
    /\ UNCHANGED <<calls, restarts, blocks, record, acked, publisherVars>>

StoreNext ==
    \/ \E p \in Publishers :
          \/ Open(p)
          \/ Publish(p)
          \/ Upload(p)
          \/ UploadFails(p)
          \/ PostName(p)
          \/ GiveUp(p)
          \/ Close(p)
    \/ \E r \in posts : Accept(r) \/ Refuse(r)

StoreSpec == StoreInit /\ [][StoreNext]_storeVars

-----------------------------------------------------------------------------
(* What Publish acknowledged stays in the list the name points at, through *)
(* failed calls, late records and restarts of the one publisher.           *)
AckedEntriesStay == acked \subseteq ToSet(LatestCid)

(* Every entry of the list can be fetched, back to the first: a name never *)
(* points at, or past, a block that was not uploaded.                      *)
NameIsWalkable ==
    \A n \in 1 .. Len(LatestCid) : SubSeq(LatestCid, 1, n) \in blocks
=============================================================================
