------------------------- MODULE TrustedPeersProofs --------------------------
(***************************************************************************)
(* From the tool that modifies the list of a trustor to the peers that the *)
(* auditors trust, for any number of trustors, peers, processes of the     *)
(* tool, commands, calls, restarts and late answers (modules TrustManager, *)
(* TrustList and TrustedPeers).                                            *)
(***************************************************************************)
EXTENDS TrustedPeers, FiniteSetTheorems, TLAPS

-----------------------------------------------------------------------------
(* The manager, whatever the lists are                                     *)

(* What holds in the middle of a round: the histories contain the present, *)
(* what was read was listed, and whoever a list that was read did not add  *)
(* is one that this list could do without.                                 *)
HistoriesAreCurrent ==
    /\ Named \subseteq listedSince
    /\ Missing \subseteq without

ReadPeersWereListed == newTrustees \subseteq listedSince

UnreadPeersWereMissing ==
    \A t \in Trustors \ toRead, x \in Peers :
        x \in newTrustees \/ <<t, x>> \in without

RoundInv ==
    /\ TypeOK
    /\ HistoriesAreCurrent
    /\ ReadPeersWereListed
    /\ UnreadPeersWereMissing

-----------------------------------------------------------------------------
(* Facts about the two state functions of the lists.                       *)

(* The list of a trustor is part of Named, which has peers only.           *)
LEMMA NamedHasLists ==
    ASSUME list \in [Trustors -> SUBSET Peers]
    PROVE  /\ Named \subseteq Peers
           /\ \A t \in Trustors : list[t] \subseteq Named
BY DEF Named

(* Missing is what its name says: a peer that is off a list, by the pair.  *)
LEMMA MissingPairs ==
    /\ Missing \subseteq Trustors \X Peers
    /\ \A t \in Trustors, x \in Peers :
          <<t, x>> \in Missing <=> x \notin list[t]
BY DEF Missing

-----------------------------------------------------------------------------
(* The first round starts with nothing read.                               *)
LEMMA InitRound == Init => RoundInv
<1> SUFFICES ASSUME Init PROVE RoundInv
  OBVIOUS
<1>1. Named \subseteq Peers /\ Missing \subseteq Trustors \X Peers
  BY NamedHasLists, MissingPairs DEF Init
<1>2. TypeOK
  BY <1>1, TrustManagerAssumption DEF Init, TypeOK
<1>3. HistoriesAreCurrent
  BY DEF Init, HistoriesAreCurrent
<1>4. ReadPeersWereListed /\ UnreadPeersWereMissing
  BY DEF Init, ReadPeersWereListed, UnreadPeersWereMissing
<1> QED
  BY <1>2, <1>3, <1>4 DEF RoundInv

(* A list that changes is entered into both histories.                     *)
LEMMA ChangeListRound ==
    ASSUME RoundInv, NEW t \in Trustors, ChangeList(t)
    PROVE  RoundInv'
<1>1. list' \in [Trustors -> SUBSET Peers]
  BY DEF RoundInv, TypeOK, ChangeList
<1>2. Named' \subseteq Peers
  BY <1>1 DEF Named
<1>3. Missing' \subseteq Trustors \X Peers
  BY DEF Missing
<1>4. TypeOK'
  BY <1>1, <1>2, <1>3, TrustManagerAssumption DEF RoundInv, TypeOK, ChangeList
<1>5. HistoriesAreCurrent'
  BY DEF ChangeList, HistoriesAreCurrent
<1>6. ReadPeersWereListed'
  BY DEF RoundInv, ChangeList, ReadPeersWereListed
<1>7. UnreadPeersWereMissing'
  BY DEF RoundInv, ChangeList, UnreadPeersWereMissing
<1> QED
  BY <1>4, <1>5, <1>6, <1>7 DEF RoundInv

(* Reading a list adds what it names now, and leaves out what it is        *)
(* missing now.                                                            *)
LEMMA ReadListRound ==
    ASSUME RoundInv, NEW t \in Trustors, ReadList(t)
    PROVE  RoundInv'
<1>1. list[t] \subseteq Named /\ Named \subseteq Peers
  BY NamedHasLists DEF RoundInv, TypeOK
<1>2. TypeOK'
  BY <1>1 DEF RoundInv, TypeOK, ReadList
<1>3. HistoriesAreCurrent'
  BY DEF RoundInv, ReadList, HistoriesAreCurrent, Named, Missing
<1>4. ReadPeersWereListed'
  BY <1>1 DEF RoundInv, ReadList, HistoriesAreCurrent, ReadPeersWereListed
<1>5. UnreadPeersWereMissing'
  <2> SUFFICES ASSUME NEW u \in Trustors \ toRead', NEW x \in Peers
               PROVE  x \in newTrustees' \/ <<u, x>> \in without'
    BY DEF UnreadPeersWereMissing
  <2>1. CASE u = t
    BY <2>1, MissingPairs DEF RoundInv, ReadList, HistoriesAreCurrent
  <2>2. CASE u # t
    BY <2>2 DEF RoundInv, ReadList, UnreadPeersWereMissing
  <2> QED
    BY <2>1, <2>2
<1> QED
  BY <1>2, <1>3, <1>4, <1>5 DEF RoundInv

(* A list that cannot be read names nobody as far as the round can tell.   *)
LEMMA ReadListFailsRound ==
    ASSUME RoundInv, NEW t \in Trustors, ReadListFails(t)
    PROVE  RoundInv'
<1>1. TypeOK'
  BY DEF RoundInv, TypeOK, ReadListFails
<1>2. HistoriesAreCurrent'
  BY DEF RoundInv, ReadListFails, HistoriesAreCurrent, Named, Missing
<1>3. ReadPeersWereListed'
  BY DEF RoundInv, ReadListFails, ReadPeersWereListed
<1>4. UnreadPeersWereMissing'
  BY DEF RoundInv, ReadListFails, UnreadPeersWereMissing
<1> QED
  BY <1>1, <1>2, <1>3, <1>4 DEF RoundInv

(* The next round starts as the first one did.                             *)
LEMMA ReplaceTrusteesRound ==
    ASSUME RoundInv, ReplaceTrustees
    PROVE  RoundInv'
<1>1. Named \subseteq Peers /\ Missing \subseteq Trustors \X Peers
  BY NamedHasLists, MissingPairs DEF RoundInv, TypeOK
<1>2. Named' = Named /\ Missing' = Missing
  BY DEF ReplaceTrustees, Named, Missing
<1>3. TypeOK'
  BY <1>1 DEF RoundInv, TypeOK, ReplaceTrustees
<1>4. HistoriesAreCurrent'
  BY <1>2 DEF ReplaceTrustees, HistoriesAreCurrent
<1>5. ReadPeersWereListed' /\ UnreadPeersWereMissing'
  BY DEF ReplaceTrustees, ReadPeersWereListed, UnreadPeersWereMissing
<1> QED
  BY <1>3, <1>4, <1>5 DEF RoundInv

(* No step leads out of the invariant.                                     *)
LEMMA StepRound == RoundInv /\ [Next]_vars => RoundInv'
<1> SUFFICES ASSUME RoundInv, [Next]_vars PROVE RoundInv'
  OBVIOUS
<1>1. CASE \E t \in Trustors : ChangeList(t)
  BY <1>1, ChangeListRound
<1>2. CASE \E t \in Trustors : ReadList(t)
  BY <1>2, ReadListRound
<1>3. CASE \E t \in Trustors : ReadListFails(t)
  BY <1>3, ReadListFailsRound
<1>4. CASE ReplaceTrustees
  BY <1>4, ReplaceTrusteesRound
<1>5. CASE UNCHANGED vars
  BY <1>5 DEF vars, RoundInv, TypeOK, HistoriesAreCurrent,
     ReadPeersWereListed, UnreadPeersWereMissing, Named, Missing
<1> QED
  BY <1>1, <1>2, <1>3, <1>4, <1>5 DEF Next, Round

(* The round invariant holds throughout.                                   *)
THEOREM RoundCorrect == Spec => []RoundInv
<1> QED
  BY InitRound, StepRound, PTL DEF Spec

(* Every variable of the manager has its type (Manager.Start keeps peers   *)
(* that lists name, and nothing else).                                     *)
THEOREM ManagerTypeCorrect == Spec => []TypeOK
<1>1. RoundInv => TypeOK
  BY DEF RoundInv
<1> QED
  BY <1>1, RoundCorrect, PTL

-----------------------------------------------------------------------------
(* Only ReplaceTrustees writes the set that IsTrusted answers from.        *)
LEMMA OnlyReplaceWrites ==
    ASSUME [Next]_vars, trustees' # trustees
    PROVE  ReplaceTrustees
BY DEF Next, Round, ReadList, ReadListFails, ChangeList, vars

(* Whoever becomes trusted was named by some list during the round.        *)
THEOREM OnlyListedBecomeTrustedAlways == Spec => OnlyListedBecomeTrusted
<1>1. RoundInv /\ [Next]_vars
        => [trustees' # trustees => trustees' \subseteq listedSince]_vars
  <2> SUFFICES ASSUME RoundInv, [Next]_vars, trustees' # trustees
               PROVE  trustees' \subseteq listedSince
    OBVIOUS
  <2>1. ReplaceTrustees
    BY OnlyReplaceWrites
  <2> QED
    BY <2>1 DEF ReplaceTrustees, RoundInv, ReadPeersWereListed
<1> QED
  BY <1>1, RoundCorrect, PTL DEF Spec, OnlyListedBecomeTrusted

(* Whoever loses trust was, for every trustor, off its list at some time   *)
(* of the round, or the list could not be read.                            *)
THEOREM ListedPeersAreKeptAlways == Spec => ListedPeersAreKept
<1>1. RoundInv /\ [Next]_vars
        => [\A x \in trustees \ trustees', t \in Trustors :
               <<t, x>> \in without]_vars
  <2> SUFFICES ASSUME RoundInv, [Next]_vars,
                      NEW x \in trustees \ trustees', NEW t \in Trustors
               PROVE  <<t, x>> \in without
    OBVIOUS
  <2>1. ReplaceTrustees
    BY OnlyReplaceWrites
  <2>2. x \in Peers /\ t \notin toRead /\ x \notin newTrustees
    BY <2>1 DEF ReplaceTrustees, RoundInv, TypeOK
  <2> QED
    BY <2>2 DEF RoundInv, UnreadPeersWereMissing
<1> QED
  BY <1>1, RoundCorrect, PTL DEF Spec, ListedPeersAreKept

-----------------------------------------------------------------------------
(* The store that the tool publishes through                               *)

\* Module ObserverProofs proves the invariants of the publishing half and of
\* its observers.  Only the first is needed here: nobody observes the list.
S == INSTANCE ObserverProofs WITH
    Feeds <- {}, StoringFails <- FALSE, MaxTrustFlips <- 0, MaxCrashes <- 0,
    trusted <- TRUE, flips <- 0, crashes <- 0, tracked <- FALSE, rows <- <<>>,
    skipped <- {}, consumer <- <<>>, received <- <<>>, polling <- <<>>,
    last <- <<>>, todo <- <<>>

(* The two instances of the store are of the same chains and records.      *)
LEMMA SameStore ==
    /\ S!Payloads = TL!Payloads
    /\ S!Chains = TL!Chains
    /\ S!Records = TL!Records
    /\ S!LatestCid = TL!LatestCid
    /\ \A c : S!Last(c) = TL!Last(c)
    /\ \A r : S!Supersedes(r) <=> TL!Supersedes(r)
    /\ S!StoreTypeOK <=> TL!StoreTypeOK
BY DEF S!Payloads, TL!Payloads, S!Chains, TL!Chains, S!Records, TL!Records,
       S!LatestCid, TL!LatestCid, S!Last, TL!Last, S!Supersedes,
       TL!Supersedes, S!StoreTypeOK, TL!StoreTypeOK

(* The constants of the store are as its lemmas assume.                    *)
LEMMA StoreConstants ==
    /\ MaxPublishes \in Nat
    /\ MaxRestarts \in Nat
    /\ AnswersGetLost \in BOOLEAN
    /\ NoRecord \notin S!Records
    /\ NoSequence \notin Nat
    /\ FALSE \in BOOLEAN /\ 0 \in Nat
BY TrustedPeersAssumption, SameStore

(* Publisher p is inside of Publish.                                       *)
Working(p) == stage[p] \in {"uploading", "naming", "waiting"}

(* What the invariant of the store says of a record.                       *)
RecordOK(r) ==
    /\ r \in TL!Records
    /\ r.value \in TL!Chains
    /\ Len(r.value) \in Nat
    /\ r.sequence \in Nat
    /\ Len(r.value) = r.sequence + 1
    /\ r.entry \in 1 .. calls
    /\ r.entry = TL!Last(r.value)

(* The facts about the store that the proofs below need.                   *)
LEMMA StoreFacts ==
    ASSUME S!StoreInv
    PROVE  /\ TL!StoreTypeOK
           /\ calls \in Nat /\ calls <= MaxPublishes
           /\ 1 .. calls \subseteq TL!Payloads
           /\ \A r \in posts : RecordOK(r)
           /\ record # NoRecord => RecordOK(record)
           /\ TL!LatestCid \in TL!Chains
           /\ Len(TL!LatestCid) \in Nat
           /\ \A p \in Publishers :
                 /\ lastCid[p] \in TL!Chains
                 /\ Len(lastCid[p]) \in Nat
                 /\ stage[p] = "closed" => lastCid[p] = <<>>
<1>1. S!StoreTypeOK /\ S!RecordsInv
  BY DEF S!StoreInv
<1>2. TL!StoreTypeOK
  BY <1>1, SameStore
<1>3. calls \in Nat /\ calls <= MaxPublishes
  BY <1>2, StoreConstants DEF TL!StoreTypeOK
<1>4. 1 .. calls \subseteq TL!Payloads
  BY <1>3, StoreConstants DEF TL!Payloads
<1>5. ASSUME NEW r \in TL!Records, S!WellMade(r, calls, blocks)
      PROVE  RecordOK(r)
  <2>1. r.value \in TL!Chains /\ r.sequence \in Nat /\ r.entry \in TL!Payloads
    BY StoreConstants DEF TL!Records
  <2>2. Len(r.value) \in Nat
    BY <2>1, SameStore, StoreConstants, S!ChainIsSeq
  <2>3. /\ r.sequence + 1 = Len(r.value)
        /\ r.entry = TL!Last(r.value)
        /\ r.entry <= calls
    BY <1>5, SameStore DEF S!WellMade
  <2>4. r.entry \in 1 .. calls
    BY <1>3, <2>1, <2>3, StoreConstants DEF TL!Payloads
  <2> QED
    BY <2>1, <2>2, <2>3, <2>4 DEF RecordOK
<1>6. \A r \in posts : RecordOK(r)
  BY <1>1, <1>2, <1>5 DEF S!RecordsInv, TL!StoreTypeOK
<1>7. record # NoRecord => RecordOK(record)
  BY <1>1, <1>2, <1>5 DEF S!RecordsInv, TL!StoreTypeOK
<1>8. TL!LatestCid \in TL!Chains /\ Len(TL!LatestCid) \in Nat
  BY SameStore, StoreConstants, S!LatestCidIsAChain
<1>9. ASSUME NEW p \in Publishers
      PROVE  /\ lastCid[p] \in TL!Chains
             /\ Len(lastCid[p]) \in Nat
             /\ stage[p] = "closed" => lastCid[p] = <<>>
  <2>1. lastCid[p] \in TL!Chains
    BY <1>2 DEF TL!StoreTypeOK
  <2>2. Len(lastCid[p]) \in Nat
    BY <2>1, SameStore, StoreConstants, S!ChainIsSeq
  <2> QED
    BY <2>1, <2>2 DEF S!StoreInv, S!PublisherOK
<1> QED
  BY <1>2, <1>3, <1>4, <1>6, <1>7, <1>8, <1>9

(* What Publish builds is one entry longer than what the publisher         *)
(* remembers.                                                              *)
LEMMA BuiltEntry ==
    ASSUME S!StoreInv, NEW p \in Publishers, Working(p)
    PROVE  /\ building[p] # <<>>
           /\ Len(building[p]) = Len(lastCid[p]) + 1
           /\ TL!OwnEntry(p) \in 1 .. calls
<1>1. S!Working(p)
  BY DEF Working, S!Working
<1>2. /\ building[p] # <<>>
      /\ Len(building[p]) = Len(lastCid[p]) + 1
      /\ S!Last(building[p]) \in 1 .. calls
  BY <1>1, StoreConstants, S!WhatIsBuilt
<1> QED
  BY <1>2, SameStore DEF TL!OwnEntry

(* A list with one more entry ends in that entry.                          *)
LEMMA NewEntryIsLast ==
    ASSUME S!StoreInv, NEW p \in Publishers, calls < MaxPublishes
    PROVE  /\ TL!Last(Append(lastCid[p], calls + 1)) = calls + 1
           /\ Append(lastCid[p], calls + 1) # <<>>
<1>1. lastCid[p] \in S!Chains /\ calls + 1 \in S!Payloads
  BY StoreFacts, StoreConstants, SameStore DEF TL!Payloads
<1>2. Len(lastCid[p]) < MaxPublishes
  BY StoreFacts, StoreConstants DEF S!StoreInv, S!PublisherOK
<1>3. /\ S!Last(Append(lastCid[p], calls + 1)) = calls + 1
      /\ Len(Append(lastCid[p], calls + 1)) = Len(lastCid[p]) + 1
  BY <1>1, <1>2, StoreConstants, S!Appended
<1>4. Append(lastCid[p], calls + 1) # <<>>
  <2>1. Len(lastCid[p]) \in Nat
    BY StoreFacts
  <2>2. Len(<<>>) = 0
    BY StoreConstants, S!NilIsAChain
  <2>3. Len(lastCid[p]) + 1 # 0
    BY <2>1
  <2> QED
    BY <1>3, <2>2, <2>3, Zenon
<1> QED
  BY <1>3, <1>4, SameStore

(* Every step of the tool keeps the invariant of the store it uses.        *)
LEMMA StoreInvOfTool ==
    ASSUME S!StoreInv, TL!Next PROVE S!StoreInv'
<1> USE StoreConstants
<1>1. ASSUME NEW p \in Publishers, NEW c \in Commands, TL!StartCommand(p, c)
      PROVE  S!StoreInv'
  <2>1. S!Open(p)
    BY <1>1 DEF TL!StartCommand, TL!Open, S!Open
  <2> QED
    BY <2>1, S!StoreInvOpen
<1>2. ASSUME NEW p \in Publishers, TL!FirstList(p) \/ TL!Conflict(p)
      PROVE  S!StoreInv'
  <2>1. UNCHANGED S!storeVars
    BY <1>2 DEF TL!FirstList, TL!Conflict, TL!storeVars, TL!publisherVars,
                S!storeVars, S!publisherVars
  <2> QED
    BY <2>1, S!StoreInvStutter
<1>3. ASSUME NEW p \in Publishers, TL!PublishList(p)
      PROVE  S!StoreInv'
  <2>1. S!Publish(p)
    BY <1>3 DEF TL!PublishList, TL!Publish, S!Publish
  <2> QED
    BY <2>1, S!StoreInvPublish
<1>4. ASSUME NEW p \in Publishers, TL!Abort(p)
      PROVE  S!StoreInv'
  <2>1. S!Close(p)
    BY <1>4 DEF TL!Abort, TL!Close, S!Close, TL!OwnPost, S!OwnPost
  <2> QED
    BY <2>1, S!StoreInvClose
<1>5. ASSUME NEW p \in Publishers, TL!Succeed(p)
      PROVE  S!StoreInv'
  <2>1. /\ S!StoreTypeOK
        /\ calls \in Nat
        /\ stage' = [stage EXCEPT ![p] = "closed"]
        /\ building' = [building EXCEPT ![p] = <<>>]
        /\ lastCid' = [lastCid EXCEPT ![p] = <<>>]
        /\ lastSequence' = [lastSequence EXCEPT ![p] = NoSequence]
        /\ UNCHANGED <<calls, restarts, blocks, record, posts, acked>>
    BY <1>5, StoreFacts DEF TL!Succeed, S!StoreInv
  <2>2. <<>> \in S!Chains /\ Len(<<>>) = 0
    BY S!NilIsAChain
  <2>3. S!StoreTypeOK'
    BY <2>1, <2>2 DEF S!StoreTypeOK
  <2>4. S!RecordsInv'
    BY <2>1, S!RecordsStay
  <2>5. ASSUME NEW q \in Publishers, q # p
        PROVE  S!PublisherOK(q)'
    BY <2>1, <2>5, S!StaysAsItWas DEF S!StoreTypeOK
  <2>6. /\ stage'[p] = "closed" /\ lastCid'[p] = <<>>
        /\ lastSequence'[p] = NoSequence
    BY <2>1 DEF S!StoreTypeOK
  <2>7. S!PublisherOK(p)'
    BY <2>1, <2>2, <2>6 DEF S!PublisherOK, S!Working, S!Walkable
  <2> QED
    BY <2>3, <2>4, <2>5, <2>7 DEF S!StoreInv
<1>6. CASE TL!StoreStep
  <2>1. ASSUME NEW p \in Publishers, TL!Upload(p) \/ TL!UploadFails(p)
        PROVE  S!StoreInv'
    <3>1. S!Upload(p) \/ S!UploadFails(p)
      BY <2>1 DEF TL!Upload, S!Upload, TL!UploadFails, S!UploadFails
    <3> QED
      BY <3>1, S!StoreInvUpload
  <2>2. ASSUME NEW p \in Publishers, TL!PostName(p)
        PROVE  S!StoreInv'
    <3>1. S!PostName(p)
      BY <2>2 DEF TL!PostName, S!PostName, TL!NextSequence, S!NextSequence,
                  TL!Last, S!Last
    <3> QED
      BY <3>1, S!StoreInvPostName
  <2>3. ASSUME NEW p \in Publishers, TL!GiveUp(p)
        PROVE  S!StoreInv'
    <3>1. S!GiveUp(p)
      BY <2>3 DEF TL!GiveUp, S!GiveUp, TL!OwnPost, S!OwnPost
    <3> QED
      BY <3>1, S!StoreInvGiveUp
  <2>4. ASSUME NEW r \in posts, TL!Accept(r)
        PROVE  S!StoreInv'
    <3>1. S!Accept(r)
      BY <2>4, SameStore
         DEF TL!Accept, S!Accept, TL!OwnPost, S!OwnPost, TL!Acknowledged,
             S!Acknowledged, TL!NextSequence, S!NextSequence,
             TL!publisherVars, S!publisherVars
    <3> QED
      BY <3>1, S!StoreInvAccept
  <2>5. ASSUME NEW r \in posts, TL!Refuse(r)
        PROVE  S!StoreInv'
    <3>1. S!Refuse(r)
      BY <2>5, SameStore
         DEF TL!Refuse, S!Refuse, TL!publisherVars, S!publisherVars
    <3> QED
      BY <3>1, S!StoreInvRefuse
  <2> QED
    BY <1>6, <2>1, <2>2, <2>3, <2>4, <2>5 DEF TL!StoreStep
<1> QED
  BY <1>1, <1>2, <1>3, <1>4, <1>5, <1>6 DEF TL!Next

-----------------------------------------------------------------------------
(* The tool: what it reports stays so                                      *)

\* Where process p is, and what it is publishing.
StepOK(p) ==
    /\ step[p] = "none" <=> stage[p] = "closed"
    /\ step[p] \in {"listing", "ready"} => stage[p] = "idle"
    /\ step[p] # "none" => command[p] \in Commands
    /\ step[p] = "publishing" =>
          building[p] # <<>> /\ TL!OwnEntry(p) \in 1 .. calls

\* No process remembers a longer list than the name points at, and no record
\* on its way names one that is longer by more than an entry.
LateInv ==
    /\ acked \subseteq 1 .. calls
    /\ \A r \in posts : Len(r.value) <= Len(TL!LatestCid) + 1
    /\ \A p \in Publishers : Len(lastCid[p]) <= Len(TL!LatestCid)

\* While process p is the only one, no record of an earlier process can
\* replace the list that p publishes.
AloneOK(p) ==
    alone[p] /\ step[p] # "none" =>
        /\ \A q \in Publishers : q # p => step[q] = "none"
        /\ \A r \in posts : Len(r.value) <= Len(lastCid[p]) + 1
        /\ step[p] = "publishing" =>
              /\ TL!OwnEntry(p) = calls
              /\ Working(p) => calls \notin acked
              /\ stage[p] = "idle" /\ calls \in acked =>
                    /\ record # NoRecord
                    /\ record.entry = calls
                    /\ \A r \in posts : ~TL!Supersedes(r)

\* A list that has x on it, or not, as was said of x.
Agrees(said, x, peers) ==
    /\ said = "listed" => x \in peers
    /\ said = "unlisted" => x \notin peers

\* Process p does nothing about x, and has read and published what was said.
ProcessAgrees(p, x) ==
    /\ step[p] # "none" => x \notin TL!Concerns(command[p])
    /\ step[p] \in {"ready", "publishing"} => Agrees(promise[x], x, known[p])
    /\ step[p] = "publishing" =>
          Agrees(promise[x], x, content[TL!OwnEntry(p)])

\* What was said of x holds of the list, of every list that can still replace
\* it, and of what every process makes of it.
PromiseOK(x) ==
    promise[x] # "none" =>
        /\ Agrees(promise[x], x, TL!Listed)
        /\ \A r \in posts :
              TL!Supersedes(r) => Agrees(promise[x], x, content[r.entry])
        /\ \A p \in Publishers : ProcessAgrees(p, x)

(* The inductive invariant behind SuccessSticks.                           *)
ListInv ==
    /\ S!StoreInv
    /\ TL!TypeOK
    /\ LateInv
    /\ \A p \in Publishers : StepOK(p)
    /\ \A p \in Publishers : AloneOK(p)
    /\ \A x \in Peers : PromiseOK(x)

(* At first there is no list and no process.                               *)
LEMMA ListInvInit == TL!Init => ListInv
<1> SUFFICES ASSUME TL!Init PROVE ListInv
  OBVIOUS
<1> USE StoreConstants
<1>1. S!StoreInit
  BY DEF TL!Init, TL!StoreInit, S!StoreInit
<1>2. S!StoreInv
  BY <1>1, S!StoreInvInit
<1>3. TL!TypeOK
  BY <1>2, StoreFacts DEF TL!Init, TL!TypeOK
<1>4. <<>> \in S!Chains /\ Len(<<>>) = 0
  BY S!NilIsAChain
<1>5. LateInv
  BY <1>4 DEF TL!Init, TL!StoreInit, LateInv, TL!LatestCid
<1>6. \A p \in Publishers : StepOK(p) /\ AloneOK(p)
  BY DEF TL!Init, TL!StoreInit, StepOK, AloneOK
<1>7. \A x \in Peers : PromiseOK(x)
  BY DEF TL!Init, PromiseOK
<1> QED
  BY <1>2, <1>3, <1>5, <1>6, <1>7 DEF ListInv

-----------------------------------------------------------------------------
(* The list of the newest record names peers.                              *)
LEMMA ListedIs ==
    ASSUME ListInv
    PROVE  /\ TL!Listed \in SUBSET Peers
           /\ record # NoRecord =>
                 /\ TL!Listed = content[record.entry]
                 /\ TL!Last(TL!LatestCid) = record.entry
<1>1. /\ content \in [TL!Payloads -> SUBSET Peers]
      /\ 1 .. calls \subseteq TL!Payloads
      /\ record # NoRecord => RecordOK(record)
  BY StoreFacts DEF ListInv, TL!TypeOK
<1>2. record # NoRecord => TL!Last(TL!LatestCid) = record.entry
  BY <1>1 DEF RecordOK, TL!LatestCid
<1> QED
  BY <1>1, <1>2 DEF TL!Listed, RecordOK

(* The list that a command makes of another differs from it only in the    *)
(* peers that the command concerns.                                        *)
LEMMA NewStateIs ==
    ASSUME ListInv, NEW p \in Publishers, step[p] # "none"
    PROVE  /\ TL!NewState(p) \in SUBSET Peers
           /\ \A x \in Peers : x \notin TL!Concerns(command[p]) =>
                 (x \in TL!NewState(p) <=> x \in known[p])
<1> DEFINE c == command[p]
<1>1. c \in [type : {"create", "revoke", "reset"}, peers : SUBSET Peers]
  BY TrustedPeersAssumption DEF ListInv, StepOK
<1>2. known[p] \in SUBSET Peers
  BY DEF ListInv, TL!TypeOK
<1> HIDE DEF c
<1>3. CASE c.type = "reset"
  BY <1>1, <1>3 DEF TL!NewState, TL!Concerns, c
<1>4. CASE c.type = "create"
  BY <1>1, <1>2, <1>4 DEF TL!NewState, TL!Concerns, c
<1>5. CASE c.type = "revoke"
  BY <1>1, <1>2, <1>5 DEF TL!NewState, TL!Concerns, c
<1> QED
  BY <1>1, <1>3, <1>4, <1>5

\* Process q takes no step.
SameProcess(q) ==
    /\ stage'[q] = stage[q]
    /\ building'[q] = building[q]
    /\ lastCid'[q] = lastCid[q]
    /\ step'[q] = step[q]
    /\ command'[q] = command[q]
    /\ known'[q] = known[q]

\* What was published stays as it was published.
SameContent == \A n \in 1 .. calls : content'[n] = content[n]

(* A process that takes no step is where it was.                           *)
LEMMA StepStays ==
    ASSUME NEW p \in Publishers, StepOK(p), SameProcess(p), calls \in Nat,
           calls' \in Nat, calls <= calls'
    PROVE  StepOK(p)'
BY DEF StepOK, SameProcess, TL!OwnEntry

(* It agrees with what was said as long as nothing else is said.           *)
LEMMA ProcessStillAgrees ==
    ASSUME NEW p \in Publishers, NEW x \in Peers, StepOK(p), SameProcess(p),
           SameContent, promise'[x] = promise[x], ProcessAgrees(p, x)
    PROVE  ProcessAgrees(p, x)'
<1>1. TL!OwnEntry(p)' = TL!OwnEntry(p)
  BY DEF SameProcess, TL!OwnEntry
<1>2. step[p] = "publishing" =>
         content'[TL!OwnEntry(p)] = content[TL!OwnEntry(p)]
  BY DEF StepOK, SameContent
<1>3. TL!Concerns(command[p])' = TL!Concerns(command[p])
  BY DEF SameProcess, TL!Concerns
<1> QED
  BY <1>1, <1>2, <1>3 DEF ProcessAgrees, SameProcess

(* A process does not stay alone while another takes steps.                *)
LEMMA NotAlone ==
    ASSUME NEW p \in Publishers, NEW q \in Publishers, q # p, AloneOK(q),
           step[p] # "none", alone'[q] = alone[q], step'[q] = step[q]
    PROVE  AloneOK(q)'
BY DEF AloneOK

(* A step that posts no record and leaves the name as it is keeps what was *)
(* said if the processes keep to it.                                       *)
LEMMA QuietStep ==
    ASSUME ListInv, S!StoreInv', TL!TypeOK', record' = record,
           posts' \subseteq posts, acked' = acked, calls' \in Nat,
           calls <= calls', promise' = promise, SameContent,
           \A q \in Publishers :
               /\ StepOK(q)' /\ AloneOK(q)'
               /\ Len(lastCid'[q]) <= Len(TL!LatestCid)
               /\ \A x \in Peers : promise[x] # "none" => ProcessAgrees(q, x)'
    PROVE  ListInv'
<1>1. /\ TL!LatestCid' = TL!LatestCid
      /\ \A r : TL!Supersedes(r)' <=> TL!Supersedes(r)
  BY DEF TL!LatestCid, TL!Supersedes
<1>2. calls \in Nat
  BY StoreFacts DEF ListInv
<1>3. LateInv'
  BY <1>1, <1>2 DEF ListInv, LateInv
<1>4. TL!Listed' = TL!Listed
  <2>1. CASE record = NoRecord
    BY <2>1 DEF TL!Listed
  <2>2. CASE record # NoRecord
    <3>1. TL!Last(TL!LatestCid) \in 1 .. calls
      BY <2>2, ListedIs, StoreFacts DEF ListInv, RecordOK
    <3>2. TL!Last(TL!LatestCid)' = TL!Last(TL!LatestCid)
      BY <1>1
    <3> QED
      BY <2>2, <3>1, <3>2 DEF TL!Listed, SameContent
  <2> QED
    BY <2>1, <2>2
<1>5. ASSUME NEW x \in Peers PROVE PromiseOK(x)'
  <2>1. \A r \in posts' : r.entry \in 1 .. calls
    BY StoreFacts DEF ListInv, RecordOK
  <2> QED
    BY <1>1, <1>4, <2>1 DEF ListInv, PromiseOK, SameContent
<1> QED
  BY <1>3, <1>5 DEF ListInv

(* The same for a step of one process.                                     *)
LEMMA ProcessStep ==
    ASSUME ListInv, S!StoreInv', TL!TypeOK', record' = record,
           posts' \subseteq posts, acked' = acked, calls' \in Nat,
           calls <= calls', promise' = promise, SameContent, alone' = alone,
           NEW p \in Publishers, step[p] # "none",
           \A q \in Publishers : q # p => SameProcess(q),
           StepOK(p)', AloneOK(p)',
           lastCid'[p] = lastCid[p] \/ lastCid'[p] = <<>>,
           \A x \in Peers : promise[x] # "none" => ProcessAgrees(p, x)'
    PROVE  ListInv'
<1>1. calls \in Nat /\ Len(TL!LatestCid) \in Nat
  BY StoreFacts DEF ListInv
<1>2. Len(<<>>) = 0
  BY StoreConstants, S!NilIsAChain
<1>3. ASSUME NEW q \in Publishers
      PROVE  Len(lastCid'[q]) <= Len(TL!LatestCid)
  <2>1. Len(lastCid[q]) <= Len(TL!LatestCid)
    BY DEF ListInv, LateInv
  <2> QED
    BY <1>1, <1>2, <2>1 DEF SameProcess
<1>4. ASSUME NEW q \in Publishers, q # p
      PROVE  /\ StepOK(q)' /\ AloneOK(q)'
             /\ \A x \in Peers : promise[x] # "none" => ProcessAgrees(q, x)'
  <2>1. StepOK(q) /\ AloneOK(q) /\ SameProcess(q)
    BY <1>4 DEF ListInv
  <2>2. StepOK(q)'
    BY <1>1, <2>1, StepStays
  <2>3. AloneOK(q)'
    BY <1>4, <2>1, NotAlone DEF SameProcess
  <2>4. ASSUME NEW x \in Peers, promise[x] # "none"
        PROVE  ProcessAgrees(q, x)'
    <3>1. ProcessAgrees(q, x)
      BY <2>4 DEF ListInv, PromiseOK
    <3> QED
      BY <2>1, <3>1, ProcessStillAgrees
  <2> QED
    BY <2>2, <2>3, <2>4
<1> QED
  BY <1>3, <1>4, QuietStep

(* What every step of the tool starts from, and what it is known to reach. *)
ToolGoesOn ==
    /\ ListInv
    /\ S!StoreInv'
    /\ TL!TypeOK'

(* The variables keep their types.                                         *)
LEMMA TypeOfTool ==
    ASSUME ListInv, TL!Next PROVE TL!TypeOK'
<1>1. S!StoreInv'
  BY StoreInvOfTool DEF ListInv
<1>2. S!StoreTypeOK'
  BY <1>1 DEF S!StoreInv
<1>3. TL!StoreTypeOK'
  BY <1>2 DEF S!Payloads, TL!Payloads, S!Chains, TL!Chains, S!Records,
              TL!Records, S!StoreTypeOK, TL!StoreTypeOK
<1>4. TL!TypeOK
  BY DEF ListInv
<1>5. ASSUME NEW p \in Publishers, NEW c \in Commands, TL!StartCommand(p, c)
      PROVE  TL!TypeOK'
  <2>1. promise' \in [Peers -> {"none", "listed", "unlisted"}]
    BY <1>4, <1>5 DEF TL!StartCommand, TL!TypeOK
  <2>2. alone' \in [Publishers -> BOOLEAN]
    BY <1>5, Zenon DEF TL!StartCommand
  <2>3. /\ command' \in [Publishers -> Commands \cup {NoCommand}]
        /\ step' \in [Publishers -> {"none", "listing", "ready", "publishing"}]
        /\ known' \in [Publishers -> SUBSET Peers]
        /\ content' \in [TL!Payloads -> SUBSET Peers]
    BY <1>4, <1>5 DEF TL!StartCommand, TL!TypeOK
  <2> QED
    BY <1>3, <2>1, <2>2, <2>3 DEF TL!TypeOK, TL!Payloads
<1>6. ASSUME NEW p \in Publishers, TL!FirstList(p) \/ TL!Conflict(p)
      PROVE  TL!TypeOK'
  <2>1. TL!Listed \in SUBSET Peers
    BY ListedIs
  <2> QED
    BY <1>3, <1>4, <1>6, <2>1
       DEF TL!FirstList, TL!Conflict, TL!TypeOK, TL!Payloads
<1>7. ASSUME NEW p \in Publishers, TL!PublishList(p)
      PROVE  TL!TypeOK'
  <2>1. TL!NewState(p) \in SUBSET Peers
    BY <1>7, NewStateIs DEF TL!PublishList
  <2> QED
    BY <1>3, <1>4, <1>7, <2>1 DEF TL!PublishList, TL!TypeOK, TL!Payloads
<1>8. ASSUME NEW p \in Publishers, TL!Succeed(p)
      PROVE  TL!TypeOK'
  <2>1. promise' \in [Peers -> {"none", "listed", "unlisted"}]
    <3> DEFINE said(x) ==
          IF alone[p] /\ x \in TL!Concerns(command[p])
          THEN IF x \in content[TL!OwnEntry(p)] THEN "listed" ELSE "unlisted"
          ELSE promise[x]
    <3>1. promise' = [x \in Peers |-> said(x)]
      BY <1>8 DEF TL!Succeed
    <3>2. \A x \in Peers : said(x) \in {"none", "listed", "unlisted"}
      BY <1>4, Zenon DEF TL!TypeOK
    <3> HIDE DEF said
    <3> QED
      BY <3>1, <3>2
  <2>2. /\ command' \in [Publishers -> Commands \cup {NoCommand}]
        /\ step' \in [Publishers -> {"none", "listing", "ready", "publishing"}]
        /\ known' \in [Publishers -> SUBSET Peers]
        /\ content' \in [TL!Payloads -> SUBSET Peers]
        /\ alone' \in [Publishers -> BOOLEAN]
    BY <1>4, <1>8 DEF TL!Succeed, TL!TypeOK
  <2> QED
    BY <1>3, <2>1, <2>2 DEF TL!TypeOK, TL!Payloads
<1>9. ASSUME NEW p \in Publishers, TL!Abort(p)
      PROVE  TL!TypeOK'
  BY <1>3, <1>4, <1>9 DEF TL!Abort, TL!TypeOK, TL!Payloads
<1>10. CASE TL!StoreStep
  BY <1>3, <1>4, <1>10 DEF TL!StoreStep, TL!listVars, TL!TypeOK, TL!Payloads
<1> QED
  BY <1>5, <1>6, <1>7, <1>8, <1>9, <1>10 DEF TL!Next

(* A process that is started reads the name, and says something new.       *)
LEMMA ListInvStartCommand ==
    ASSUME ToolGoesOn, NEW p \in Publishers, NEW c \in Commands,
           TL!StartCommand(p, c)
    PROVE  ListInv'
<1>1. /\ ListInv /\ TL!TypeOK /\ TL!StoreTypeOK
      /\ calls \in Nat
      /\ Len(TL!LatestCid) \in Nat
      /\ lastCid[p] = <<>>
  BY StoreFacts DEF ToolGoesOn, ListInv, TL!StartCommand, TL!Open
<1>2. /\ UNCHANGED <<calls, record, posts, acked, content>>
      /\ \A q \in Publishers : q # p => SameProcess(q)
      /\ step'[p] = "listing" /\ stage'[p] = "idle" /\ command'[p] = c
  BY <1>1 DEF TL!StartCommand, TL!Open, TL!TypeOK, TL!StoreTypeOK, SameProcess
<1>3. lastCid'[p] = TL!LatestCid
  BY <1>1 DEF TL!StartCommand, TL!Open, TL!StoreTypeOK, TL!LatestCid
<1>4. /\ TL!LatestCid' = TL!LatestCid
      /\ TL!Listed' = TL!Listed
      /\ SameContent
      /\ \A r : TL!Supersedes(r)' <=> TL!Supersedes(r)
  BY <1>2 DEF TL!LatestCid, TL!Listed, TL!Supersedes, SameContent
<1>5. LateInv'
  BY <1>1, <1>2, <1>3, <1>4 DEF ListInv, LateInv, SameProcess
<1>6. ASSUME NEW q \in Publishers PROVE StepOK(q)'
  <2>1. CASE q = p
    BY <1>2, <2>1 DEF StepOK
  <2>2. CASE q # p
    BY <1>1, <1>2, <2>2, StepStays DEF ListInv
  <2> QED
    BY <2>1, <2>2
<1>7. ASSUME NEW q \in Publishers, alone'[q]
      PROVE  q = p /\ \A r \in Publishers : step[r] = "none"
  BY <1>7, Zenon DEF TL!StartCommand
<1>8. ASSUME NEW q \in Publishers PROVE AloneOK(q)'
  <2>1. SUFFICES ASSUME alone'[q] PROVE AloneOK(q)'
    BY DEF AloneOK
  <2>2. q = p /\ \A r \in Publishers : step[r] = "none"
    BY <1>7, <2>1
  <2>3. \A r \in Publishers : r # p => step'[r] = "none"
    BY <1>2, <2>2 DEF SameProcess
  <2>4. \A r \in posts' : Len(r.value) <= Len(lastCid'[p]) + 1
    BY <1>1, <1>2, <1>3 DEF ListInv, LateInv
  <2> QED
    BY <1>2, <2>2, <2>3, <2>4 DEF AloneOK
<1>9. ASSUME NEW x \in Peers, promise'[x] # "none"
      PROVE  x \notin TL!Concerns(c) /\ promise'[x] = promise[x]
  BY <1>9 DEF TL!StartCommand
<1>10. ASSUME NEW x \in Peers PROVE PromiseOK(x)'
  <2>1. SUFFICES ASSUME promise'[x] # "none" PROVE PromiseOK(x)'
    BY DEF PromiseOK
  <2>2. promise'[x] = promise[x] /\ PromiseOK(x)
    BY <1>1, <1>9, <2>1 DEF ListInv
  <2>3. ASSUME NEW q \in Publishers PROVE ProcessAgrees(q, x)'
    <3>1. CASE q = p
      <4>1. TL!Concerns(command[p])' = TL!Concerns(c)
        BY <1>2 DEF TL!Concerns
      <4> QED
        BY <1>2, <1>9, <2>1, <3>1, <4>1 DEF ProcessAgrees
    <3>2. CASE q # p
      <4>1. StepOK(q) /\ SameProcess(q) /\ ProcessAgrees(q, x)
        BY <1>1, <1>2, <2>1, <2>2, <3>2 DEF ListInv, PromiseOK
      <4> QED
        BY <1>4, <2>2, <4>1, ProcessStillAgrees
    <3> QED
      BY <3>1, <3>2
  <2> QED
    BY <1>2, <1>4, <2>1, <2>2, <2>3 DEF PromiseOK
<1> QED
  BY <1>5, <1>6, <1>8, <1>10 DEF ToolGoesOn, ListInv

(* Reading the list gives what was said of it, the first time and after a  *)
(* conflict.                                                               *)
LEMMA ListInvRead ==
    ASSUME ToolGoesOn, NEW p \in Publishers, TL!FirstList(p) \/ TL!Conflict(p)
    PROVE  ListInv'
<1>1. /\ ListInv /\ TL!TypeOK /\ calls \in Nat
      /\ StepOK(p) /\ AloneOK(p)
  BY StoreFacts DEF ToolGoesOn, ListInv
<1>2. /\ UNCHANGED <<calls, record, posts, acked, content, promise, alone>>
      /\ UNCHANGED <<stage, building, lastCid, command>>
      /\ step[p] # "none" /\ stage[p] = "idle"
  BY <1>1 DEF TL!FirstList, TL!Conflict, TL!ReadsBack, TL!storeVars,
              TL!publisherVars, StepOK
<1>3. /\ step' = [step EXCEPT ![p] = "ready"]
      /\ known' = [known EXCEPT ![p] = TL!Listed]
  BY DEF TL!FirstList, TL!Conflict
<1>4. step'[p] = "ready" /\ known'[p] = TL!Listed
  BY <1>1, <1>3 DEF TL!TypeOK
<1>5. \A q \in Publishers : q # p => SameProcess(q)
  BY <1>1, <1>2, <1>3 DEF TL!TypeOK, SameProcess
<1>6. StepOK(p)'
  BY <1>1, <1>2, <1>4 DEF StepOK
<1>7. AloneOK(p)'
  BY <1>1, <1>2, <1>4, <1>5 DEF AloneOK, SameProcess
<1>8. ASSUME NEW x \in Peers, promise[x] # "none" PROVE ProcessAgrees(p, x)'
  <2>1. Agrees(promise[x], x, TL!Listed) /\ ProcessAgrees(p, x)
    BY <1>1, <1>8 DEF ListInv, PromiseOK
  <2>2. TL!Concerns(command[p])' = TL!Concerns(command[p])
    BY <1>2 DEF TL!Concerns
  <2> QED
    BY <1>2, <1>4, <2>1, <2>2 DEF ProcessAgrees, Agrees
<1>9. SameContent /\ calls <= calls' /\ calls' \in Nat
  BY <1>1, <1>2 DEF SameContent
<1> QED
  BY <1>1, <1>2, <1>5, <1>6, <1>7, <1>8, <1>9, ProcessStep DEF ToolGoesOn

(* The list that is published next is the one that was read, changed in    *)
(* what the command concerns.                                              *)
LEMMA ListInvPublishList ==
    ASSUME ToolGoesOn, NEW p \in Publishers, TL!PublishList(p)
    PROVE  ListInv'
<1>1. /\ ListInv /\ TL!TypeOK /\ TL!StoreTypeOK
      /\ calls \in Nat /\ calls < MaxPublishes
      /\ StepOK(p) /\ AloneOK(p)
      /\ acked \subseteq 1 .. calls
  BY StoreFacts DEF ToolGoesOn, ListInv, LateInv, TL!PublishList, TL!Publish
<1>2. /\ UNCHANGED <<record, posts, acked, promise, alone, command, known>>
      /\ UNCHANGED lastCid
      /\ calls' = calls + 1 /\ calls + 1 \in TL!Payloads
      /\ step[p] = "ready"
  BY <1>1, StoreConstants DEF TL!PublishList, TL!Publish, TL!Payloads
<1>3. /\ step' = [step EXCEPT ![p] = "publishing"]
      /\ stage' = [stage EXCEPT ![p] = "uploading"]
      /\ building' = [building EXCEPT ![p] = Append(lastCid[p], calls + 1)]
      /\ content' = [content EXCEPT ![calls + 1] = TL!NewState(p)]
  BY <1>2 DEF TL!PublishList, TL!Publish
<1>4. /\ step'[p] = "publishing" /\ stage'[p] = "uploading"
      /\ building'[p] = Append(lastCid[p], calls + 1)
      /\ content'[calls + 1] = TL!NewState(p)
  BY <1>1, <1>2, <1>3 DEF TL!TypeOK, TL!StoreTypeOK
<1>5. \A q \in Publishers : q # p => SameProcess(q)
  BY <1>1, <1>2, <1>3 DEF TL!TypeOK, TL!StoreTypeOK, SameProcess
<1>6. SameContent
  BY <1>1, <1>2, <1>3 DEF TL!TypeOK, SameContent
<1>7. TL!OwnEntry(p)' = calls + 1 /\ building'[p] # <<>>
  <2>1. TL!OwnEntry(p)' = TL!Last(building'[p])
    BY DEF TL!OwnEntry, TL!Last
  <2> QED
    BY <1>1, <1>4, <2>1, NewEntryIsLast DEF ListInv
<1>8. StepOK(p)'
  BY <1>1, <1>2, <1>4, <1>7 DEF StepOK
<1>9. AloneOK(p)'
  <2>1. calls + 1 \notin acked
    BY <1>1
  <2> QED
    BY <1>1, <1>2, <1>4, <1>5, <1>7, <2>1 DEF AloneOK, SameProcess
<1>10. ASSUME NEW x \in Peers, promise[x] # "none" PROVE ProcessAgrees(p, x)'
  <2>1. ProcessAgrees(p, x)
    BY <1>1, <1>10 DEF ListInv, PromiseOK
  <2>2. /\ x \notin TL!Concerns(command[p])
        /\ Agrees(promise[x], x, known[p])
    BY <1>2, <2>1 DEF ProcessAgrees
  <2>3. Agrees(promise[x], x, TL!NewState(p))
    BY <1>1, <1>2, <2>2, NewStateIs DEF Agrees
  <2>4. TL!Concerns(command[p])' = TL!Concerns(command[p])
    BY <1>2 DEF TL!Concerns
  <2> QED
    BY <1>2, <1>4, <1>7, <2>2, <2>3, <2>4 DEF ProcessAgrees
<1>11. calls <= calls' /\ calls' \in Nat
  BY <1>1, <1>2
<1> QED
  BY <1>1, <1>2, <1>5, <1>6, <1>8, <1>9, <1>10, <1>11, ProcessStep
     DEF ToolGoesOn

(* A process that ends leaves at most its record behind.                   *)
LEMMA ListInvAbort ==
    ASSUME ToolGoesOn, NEW p \in Publishers, TL!Abort(p)
    PROVE  ListInv'
<1>1. /\ ListInv /\ TL!TypeOK /\ TL!StoreTypeOK
      /\ calls \in Nat
  BY StoreFacts DEF ToolGoesOn, ListInv
<1>2. /\ UNCHANGED <<calls, record, acked, content, promise, alone>>
      /\ posts' \subseteq posts
      /\ step[p] # "none"
  BY DEF TL!Abort, TL!Close
<1>3. /\ step'[p] = "none" /\ stage'[p] = "closed" /\ lastCid'[p] = <<>>
      /\ \A q \in Publishers : q # p => SameProcess(q)
  BY <1>1 DEF TL!Abort, TL!Close, TL!TypeOK, TL!StoreTypeOK, SameProcess
<1>4. StepOK(p)' /\ AloneOK(p)'
  BY <1>3 DEF StepOK, AloneOK
<1>5. \A x \in Peers : ProcessAgrees(p, x)'
  BY <1>3 DEF ProcessAgrees
<1>6. SameContent /\ calls <= calls' /\ calls' \in Nat
  BY <1>1, <1>2 DEF SameContent
<1> QED
  BY <1>1, <1>2, <1>3, <1>4, <1>5, <1>6, ProcessStep DEF ToolGoesOn

(* The calls that Publish makes, but for the one that posts the record.    *)
LEMMA ListInvCall ==
    ASSUME ToolGoesOn, NEW p \in Publishers,
           TL!Upload(p) \/ TL!UploadFails(p) \/ TL!GiveUp(p),
           UNCHANGED TL!listVars
    PROVE  ListInv'
<1>1. /\ ListInv /\ TL!TypeOK /\ TL!StoreTypeOK
      /\ calls \in Nat
      /\ StepOK(p) /\ AloneOK(p)
  BY StoreFacts DEF ToolGoesOn, ListInv
<1>2. /\ UNCHANGED <<command, step, known, content, alone, promise>>
      /\ UNCHANGED <<calls, record, acked, building, lastCid>>
      /\ posts' \subseteq posts
  BY DEF TL!Upload, TL!UploadFails, TL!GiveUp, TL!listVars
<1>3. /\ stage[p] \in {"uploading", "waiting"}
      /\ stage'[p] \in {"naming", "idle"}
      /\ \A q \in Publishers : q # p => stage'[q] = stage[q]
  BY <1>1 DEF TL!Upload, TL!UploadFails, TL!GiveUp, TL!StoreTypeOK
<1>4. \A q \in Publishers : q # p => SameProcess(q)
  BY <1>2, <1>3 DEF SameProcess
<1>5. step[p] = "publishing"
  BY <1>1, <1>3 DEF TL!TypeOK, StepOK
<1>6. TL!OwnEntry(p)' = TL!OwnEntry(p)
  BY <1>2 DEF TL!OwnEntry
<1>7. StepOK(p)'
  BY <1>1, <1>2, <1>3, <1>5, <1>6 DEF StepOK
<1>8. AloneOK(p)'
  BY <1>1, <1>2, <1>3, <1>5, <1>6 DEF AloneOK, Working
<1>9. ASSUME NEW x \in Peers, promise[x] # "none" PROVE ProcessAgrees(p, x)'
  <2>1. ProcessAgrees(p, x)
    BY <1>1, <1>9 DEF ListInv, PromiseOK
  <2>2. TL!Concerns(command[p])' = TL!Concerns(command[p])
    BY <1>2 DEF TL!Concerns
  <2> QED
    BY <1>2, <1>6, <2>1, <2>2 DEF ProcessAgrees
<1>10. SameContent /\ calls <= calls' /\ calls' \in Nat
  BY <1>1, <1>2 DEF SameContent
<1> QED
  BY <1>1, <1>2, <1>4, <1>5, <1>7, <1>8, <1>9, <1>10, ProcessStep
     DEF ToolGoesOn

(* A record on its way names a list that keeps what was said.              *)
LEMMA ListInvPostName ==
    ASSUME ToolGoesOn, NEW p \in Publishers, TL!PostName(p),
           UNCHANGED TL!listVars
    PROVE  ListInv'
<1> DEFINE r == [sequence |-> TL!NextSequence(p),
                 entry |-> TL!Last(building[p]),
                 value |-> building[p]]
<1>1. /\ ListInv /\ TL!TypeOK /\ TL!StoreTypeOK
      /\ calls \in Nat
      /\ StepOK(p) /\ AloneOK(p)
      /\ Len(lastCid[p]) \in Nat /\ Len(TL!LatestCid) \in Nat
  BY StoreFacts DEF ToolGoesOn, ListInv
<1>2. /\ UNCHANGED <<command, step, known, content, alone, promise>>
      /\ UNCHANGED <<calls, record, acked, building, lastCid>>
      /\ posts' = posts \cup {r}
      /\ stage[p] = "naming"
  BY DEF TL!PostName, TL!listVars
<1>3. /\ stage'[p] = "waiting"
      /\ \A q \in Publishers : q # p => stage'[q] = stage[q]
  BY <1>1 DEF TL!PostName, TL!StoreTypeOK
<1>4. \A q \in Publishers : q # p => SameProcess(q)
  BY <1>2, <1>3 DEF SameProcess
<1>5. step[p] = "publishing"
  BY <1>1, <1>2 DEF TL!TypeOK, StepOK
<1>6. /\ r.value = building[p]
      /\ r.entry = TL!OwnEntry(p)
      /\ Len(r.value) = Len(lastCid[p]) + 1
  BY <1>1, <1>2, BuiltEntry DEF ListInv, Working, TL!OwnEntry
<1> HIDE DEF r
<1>7. /\ TL!LatestCid' = TL!LatestCid
      /\ TL!Listed' = TL!Listed
      /\ \A s : TL!Supersedes(s)' <=> TL!Supersedes(s)
      /\ TL!OwnEntry(p)' = TL!OwnEntry(p)
      /\ SameContent
  BY <1>2 DEF TL!LatestCid, TL!Listed, TL!Supersedes, TL!OwnEntry, SameContent
<1>8. LateInv'
  <2>1. Len(r.value) <= Len(TL!LatestCid) + 1
    BY <1>1, <1>6 DEF ListInv, LateInv
  <2>2. \A s \in posts' : Len(s.value) <= Len(TL!LatestCid) + 1
    BY <1>1, <1>2, <2>1 DEF ListInv, LateInv
  <2> QED
    BY <1>1, <1>2, <1>7, <2>2 DEF ListInv, LateInv
<1>9. ASSUME NEW q \in Publishers PROVE StepOK(q)' /\ AloneOK(q)'
  <2>1. CASE q = p
    <3>1. StepOK(p)'
      BY <1>1, <1>2, <1>3, <1>5, <1>7 DEF StepOK
    <3>2. alone[p] =>
             \A s \in posts' : Len(s.value) <= Len(lastCid[p]) + 1
      BY <1>1, <1>2, <1>5, <1>6 DEF AloneOK
    <3>3. AloneOK(p)'
      BY <1>1, <1>2, <1>3, <1>5, <1>7, <3>2 DEF AloneOK, Working
    <3> QED
      BY <2>1, <3>1, <3>3
  <2>2. CASE q # p
    <3>1. StepOK(q) /\ AloneOK(q) /\ SameProcess(q)
      BY <1>1, <1>4, <2>2 DEF ListInv
    <3>2. StepOK(q)'
      BY <1>1, <1>2, <3>1, StepStays
    <3>3. AloneOK(q)'
      BY <1>2, <1>5, <2>2, <3>1, NotAlone
    <3> QED
      BY <3>2, <3>3
  <2> QED
    BY <2>1, <2>2
<1>10. ASSUME NEW x \in Peers PROVE PromiseOK(x)'
  <2>1. SUFFICES ASSUME promise[x] # "none" PROVE PromiseOK(x)'
    BY <1>2 DEF PromiseOK
  <2>2. PromiseOK(x)
    BY <1>1 DEF ListInv
  <2>3. \A q \in Publishers : ProcessAgrees(q, x)
    BY <2>1, <2>2 DEF PromiseOK
  <2>4. Agrees(promise[x], x, content[r.entry])
    BY <1>5, <1>6, <2>3 DEF ProcessAgrees
  <2>5. \A q \in Publishers : ProcessAgrees(q, x)'
    <3>1. \A q \in Publishers : TL!OwnEntry(q)' = TL!OwnEntry(q)
      BY <1>2 DEF TL!OwnEntry
    <3>2. \A q \in Publishers :
             TL!Concerns(command[q])' = TL!Concerns(command[q])
      BY <1>2 DEF TL!Concerns
    <3> QED
      BY <1>2, <2>3, <3>1, <3>2 DEF ProcessAgrees
  <2> QED
    BY <1>2, <1>7, <2>1, <2>2, <2>4, <2>5 DEF PromiseOK
<1> QED
  BY <1>8, <1>9, <1>10 DEF ToolGoesOn, ListInv

(* A record that is refused says nothing.                                  *)
LEMMA ListInvRefuse ==
    ASSUME ToolGoesOn, NEW r \in posts, TL!Refuse(r), UNCHANGED TL!listVars
    PROVE  ListInv'
<1>1. /\ ListInv /\ calls \in Nat
  BY StoreFacts DEF ToolGoesOn, ListInv
<1>2. /\ UNCHANGED <<command, step, known, content, alone, promise>>
      /\ UNCHANGED <<calls, record, acked, stage, building, lastCid>>
      /\ posts' \subseteq posts
  BY DEF TL!Refuse, TL!listVars, TL!publisherVars
<1>3. /\ \A s : TL!Supersedes(s)' <=> TL!Supersedes(s)
      /\ SameContent /\ calls <= calls' /\ calls' \in Nat
      /\ \A q \in Publishers : SameProcess(q)
  BY <1>1, <1>2 DEF TL!Supersedes, SameContent, SameProcess
<1>4. ASSUME NEW q \in Publishers
      PROVE  /\ StepOK(q)' /\ AloneOK(q)'
             /\ Len(lastCid'[q]) <= Len(TL!LatestCid)
             /\ \A x \in Peers : promise[x] # "none" => ProcessAgrees(q, x)'
  <2>1. StepOK(q) /\ AloneOK(q) /\ Len(lastCid[q]) <= Len(TL!LatestCid)
    BY <1>1 DEF ListInv, LateInv
  <2>2. StepOK(q)'
    BY <1>1, <1>3, <2>1, StepStays
  <2>3. TL!OwnEntry(q)' = TL!OwnEntry(q)
    BY <1>2 DEF TL!OwnEntry
  <2>4. AloneOK(q)'
    BY <1>2, <1>3, <2>1, <2>3 DEF AloneOK, Working
  <2>5. ASSUME NEW x \in Peers, promise[x] # "none"
        PROVE  ProcessAgrees(q, x)'
    <3>1. ProcessAgrees(q, x)
      BY <1>1, <2>5 DEF ListInv, PromiseOK
    <3> QED
      BY <1>2, <1>3, <2>1, <3>1, ProcessStillAgrees
  <2> QED
    BY <1>2, <2>1, <2>2, <2>4, <2>5
<1> QED
  BY <1>1, <1>2, <1>3, <1>4, QuietStep DEF ToolGoesOn

(* A process that was alone says what the list is, and no record on its    *)
(* way can still change that.                                              *)
LEMMA ListInvSucceed ==
    ASSUME ToolGoesOn, NEW p \in Publishers, TL!Succeed(p)
    PROVE  ListInv'
<1>1. /\ ListInv /\ TL!TypeOK /\ TL!StoreTypeOK
      /\ calls \in Nat /\ Len(TL!LatestCid) \in Nat
      /\ StepOK(p) /\ AloneOK(p)
  BY StoreFacts DEF ToolGoesOn, ListInv
<1>2. /\ UNCHANGED <<calls, record, posts, acked, content, alone>>
      /\ step[p] = "publishing" /\ stage[p] = "idle"
      /\ TL!OwnEntry(p) \in acked
      /\ TL!Listed = content[TL!OwnEntry(p)]
  BY DEF TL!Succeed, TL!ReadsBack
<1>3. /\ step'[p] = "none" /\ stage'[p] = "closed" /\ lastCid'[p] = <<>>
      /\ \A q \in Publishers : q # p => SameProcess(q)
  BY <1>1 DEF TL!Succeed, TL!TypeOK, TL!StoreTypeOK, SameProcess
<1>4. /\ TL!LatestCid' = TL!LatestCid
      /\ TL!Listed' = TL!Listed
      /\ \A s : TL!Supersedes(s)' <=> TL!Supersedes(s)
      /\ SameContent
  BY <1>2 DEF TL!LatestCid, TL!Listed, TL!Supersedes, SameContent
<1>5. LateInv'
  <2>1. Len(<<>>) = 0
    BY StoreConstants, S!NilIsAChain
  <2> QED
    BY <1>1, <1>2, <1>3, <1>4, <2>1 DEF ListInv, LateInv, SameProcess
<1>6. ASSUME NEW q \in Publishers PROVE StepOK(q)' /\ AloneOK(q)'
  <2>1. CASE q = p
    BY <1>3, <2>1 DEF StepOK, AloneOK
  <2>2. CASE q # p
    <3>1. StepOK(q) /\ AloneOK(q) /\ SameProcess(q)
      BY <1>1, <1>3, <2>2 DEF ListInv
    <3>2. StepOK(q)'
      BY <1>1, <1>2, <3>1, StepStays
    <3>3. step'[q] = step[q] /\ alone'[q] = alone[q]
      BY <1>2, <3>1 DEF SameProcess
    <3>4. AloneOK(q)'
      BY <1>2, <2>2, <3>1, <3>3, NotAlone
    <3> QED
      BY <3>2, <3>4
  <2> QED
    BY <2>1, <2>2
<1>7. \A x \in Peers :
         IF alone[p] /\ x \in TL!Concerns(command[p])
         THEN promise'[x] = IF x \in content[TL!OwnEntry(p)]
                            THEN "listed" ELSE "unlisted"
         ELSE promise'[x] = promise[x]
  BY Zenon DEF TL!Succeed
<1>8. ASSUME NEW x \in Peers, promise'[x] # "none" PROVE PromiseOK(x)'
  <2>1. CASE alone[p] /\ x \in TL!Concerns(command[p])
    <3>1. Agrees(promise'[x], x, TL!Listed)
      <4>1. CASE x \in content[TL!OwnEntry(p)]
        <5>1. promise'[x] = "listed"
          BY <1>7, <2>1, <4>1
        <5> QED
          BY <1>2, <4>1, <5>1 DEF Agrees
      <4>2. CASE x \notin content[TL!OwnEntry(p)]
        <5>1. promise'[x] = "unlisted"
          BY <1>7, <2>1, <4>2
        <5> QED
          BY <1>2, <4>2, <5>1 DEF Agrees
      <4> QED
        BY <4>1, <4>2
    <3>2. \A s \in posts : ~TL!Supersedes(s)
      BY <1>1, <1>2, <2>1 DEF AloneOK
    <3>3. \A q \in Publishers : step'[q] = "none"
      BY <1>1, <1>2, <1>3, <2>1 DEF AloneOK, SameProcess
    <3> QED
      BY <1>2, <1>4, <3>1, <3>2, <3>3 DEF PromiseOK, ProcessAgrees
  <2>2. CASE ~(alone[p] /\ x \in TL!Concerns(command[p]))
    <3>1. promise'[x] = promise[x]
      BY <1>7, <2>2
    <3>2. PromiseOK(x) /\ promise[x] # "none"
      BY <1>1, <1>8, <3>1 DEF ListInv
    <3>3. ASSUME NEW q \in Publishers PROVE ProcessAgrees(q, x)'
      <4>1. CASE q = p
        BY <1>3, <4>1 DEF ProcessAgrees
      <4>2. CASE q # p
        <5>1. StepOK(q) /\ SameProcess(q) /\ ProcessAgrees(q, x)
          BY <1>1, <1>3, <3>2, <4>2 DEF ListInv, PromiseOK
        <5> QED
          BY <1>4, <3>1, <5>1, ProcessStillAgrees
      <4> QED
        BY <4>1, <4>2
    <3> QED
      BY <1>2, <1>4, <3>1, <3>2, <3>3 DEF PromiseOK
  <2> QED
    BY <2>1, <2>2
<1>9. \A x \in Peers : PromiseOK(x)'
  BY <1>8 DEF PromiseOK
<1> QED
  BY <1>5, <1>6, <1>9 DEF ToolGoesOn, ListInv

(* The name service prefers what it accepts to all that it would refuse.   *)
LEMMA AcceptedIsPreferred ==
    ASSUME S!StoreInv, NEW r \in posts, TL!Supersedes(r), record' = r
    PROVE  /\ \A s \in posts : TL!Supersedes(s)' => TL!Supersedes(s)
           /\ Len(TL!LatestCid) <= Len(r.value)
           /\ TL!LatestCid' = r.value
           /\ record' # NoRecord
<1>1. RecordOK(r) /\ record # NoRecord => RecordOK(record)
  BY StoreFacts
<1>2. \A s \in posts : RecordOK(s)
  BY StoreFacts
<1>3. r # NoRecord
  BY <1>2, StoreConstants, SameStore DEF RecordOK
<1>4. calls \in Nat
  BY StoreFacts
<1>5. ASSUME NEW s \in posts, TL!Supersedes(s)' PROVE TL!Supersedes(s)
  <2>1. \/ s.sequence > r.sequence
        \/ s.sequence = r.sequence /\ s.entry > r.entry
    BY <1>3, <1>5 DEF TL!Supersedes
  <2>2. CASE record = NoRecord
    BY <2>2 DEF TL!Supersedes
  <2>3. CASE record # NoRecord
    <3>1. \/ r.sequence > record.sequence
          \/ r.sequence = record.sequence /\ r.entry > record.entry
      BY <2>3 DEF TL!Supersedes
    <3>2. /\ r.sequence \in Nat /\ r.entry \in Nat
          /\ s.sequence \in Nat /\ s.entry \in Nat
          /\ record.sequence \in Nat /\ record.entry \in Nat
      BY <1>1, <1>2, <1>4, <2>3 DEF RecordOK
    <3>3. \/ s.sequence > record.sequence
          \/ s.sequence = record.sequence /\ s.entry > record.entry
      BY <2>1, <3>1, <3>2
    <3> QED
      BY <3>3 DEF TL!Supersedes
  <2> QED
    BY <2>2, <2>3
<1>6. Len(TL!LatestCid) <= Len(r.value)
  <2>1. Len(r.value) \in Nat
    BY <1>2 DEF RecordOK
  <2>2. CASE record = NoRecord
    <3>1. Len(TL!LatestCid) = 0
      BY <2>2, StoreConstants, S!NilIsAChain DEF TL!LatestCid
    <3> QED
      BY <2>1, <3>1
  <2>3. CASE record # NoRecord
    <3>1. r.sequence >= record.sequence
      BY <1>1, <1>2, <2>3 DEF RecordOK, TL!Supersedes
    <3>2. /\ Len(r.value) = r.sequence + 1 /\ r.sequence \in Nat
          /\ Len(record.value) = record.sequence + 1
          /\ record.sequence \in Nat
      BY <1>1, <1>2, <2>3 DEF RecordOK
    <3>3. TL!LatestCid = record.value
      BY <2>3 DEF TL!LatestCid
    <3>4. Len(record.value) <= Len(r.value)
      BY <3>1, <3>2
    <3> QED
      BY <3>3, <3>4
  <2> QED
    BY <2>2, <2>3
<1>7. TL!LatestCid' = r.value /\ record' # NoRecord
  BY <1>3 DEF TL!LatestCid
<1> QED
  BY <1>5, <1>6, <1>7

(* A record that is accepted keeps what was said; if a process waits for   *)
(* the answer and is alone, none can come after it.                        *)
LEMMA ListInvAccept ==
    ASSUME ToolGoesOn, NEW r \in posts, TL!Accept(r), UNCHANGED TL!listVars
    PROVE  ListInv'
<1>1. /\ ListInv /\ S!StoreInv /\ TL!TypeOK /\ TL!StoreTypeOK
      /\ calls \in Nat /\ Len(TL!LatestCid) \in Nat
      /\ RecordOK(r)
  BY StoreFacts DEF ToolGoesOn, ListInv
<1>2. /\ UNCHANGED <<command, step, known, content, alone, promise>>
      /\ UNCHANGED <<calls, building>>
      /\ posts' = posts \ {r}
      /\ record' = r
      /\ TL!Supersedes(r)
  BY DEF TL!Accept, TL!Acknowledged, TL!listVars, TL!publisherVars
<1>3. /\ \A s \in posts : TL!Supersedes(s)' => TL!Supersedes(s)
      /\ Len(TL!LatestCid) <= Len(r.value)
      /\ TL!LatestCid' = r.value
      /\ record' # NoRecord
      /\ Len(r.value) \in Nat
  BY <1>1, <1>2, AcceptedIsPreferred DEF RecordOK
<1>4. TL!Listed' = content[r.entry]
  BY <1>1, <1>2, <1>3 DEF TL!Listed, RecordOK, TL!Last
<1>5. /\ SameContent
      /\ \A q \in Publishers : TL!OwnEntry(q)' = TL!OwnEntry(q)
      /\ \A q \in Publishers :
            TL!Concerns(command[q])' = TL!Concerns(command[q])
  BY <1>2 DEF SameContent, TL!OwnEntry, TL!Concerns
<1>6. ASSUME NEW x \in Peers PROVE PromiseOK(x)'
  <2>1. SUFFICES ASSUME promise[x] # "none" PROVE PromiseOK(x)'
    BY <1>2 DEF PromiseOK
  <2>2. PromiseOK(x)
    BY <1>1 DEF ListInv
  <2>3. Agrees(promise[x], x, TL!Listed')
    BY <1>2, <1>4, <2>1, <2>2 DEF PromiseOK
  <2>4. \A s \in posts' :
           TL!Supersedes(s)' => Agrees(promise[x], x, content[s.entry])
    BY <1>2, <1>3, <2>1, <2>2 DEF PromiseOK
  <2>5. \A q \in Publishers : ProcessAgrees(q, x)'
    BY <1>2, <1>5, <2>1, <2>2 DEF PromiseOK, ProcessAgrees
  <2> QED
    BY <1>2, <2>3, <2>4, <2>5 DEF PromiseOK
<1>7. \A s \in posts' : Len(s.value) <= Len(r.value) + 1
  <2>1. ASSUME NEW s \in posts PROVE Len(s.value) <= Len(r.value) + 1
    <3>1. Len(s.value) <= Len(TL!LatestCid) + 1 /\ Len(s.value) \in Nat
      BY <1>1, StoreFacts DEF ListInv, LateInv, RecordOK
    <3> QED
      BY <1>1, <1>3, <3>1
  <2> QED
    BY <1>2, <2>1
<1>8. ASSUME NEW q \in Publishers PROVE Len(lastCid[q]) <= Len(r.value)
  <2>1. Len(lastCid[q]) <= Len(TL!LatestCid) /\ Len(lastCid[q]) \in Nat
    BY <1>1, StoreFacts DEF ListInv, LateInv
  <2> QED
    BY <1>1, <1>3, <2>1
<1>9. CASE UNCHANGED <<acked, TL!publisherVars>>
  <2>1. UNCHANGED <<acked, stage, building, lastCid>>
    BY <1>9 DEF TL!publisherVars
  <2>2. LateInv'
    BY <1>1, <1>2, <1>3, <1>7, <1>8, <2>1 DEF ListInv, LateInv
  <2>3. ASSUME NEW q \in Publishers PROVE StepOK(q)' /\ AloneOK(q)'
    <3>1. StepOK(q) /\ AloneOK(q)
      BY <1>1 DEF ListInv
    <3>2. StepOK(q)'
      BY <1>2, <1>5, <2>1, <3>1 DEF StepOK
    <3>3. AloneOK(q)'
      BY <1>2, <1>5, <2>1, <3>1 DEF AloneOK, Working
    <3> QED
      BY <3>2, <3>3
  <2> QED
    BY <1>6, <2>2, <2>3 DEF ToolGoesOn, ListInv
<1>10. ASSUME NEW p \in Publishers, TL!OwnPost(p, r), TL!Acknowledged(p)
       PROVE  ListInv'
  <2>1. stage[p] = "waiting" /\ building[p] = r.value
    BY <1>10 DEF TL!OwnPost
  <2>2. /\ building[p] # <<>>
        /\ Len(r.value) = Len(lastCid[p]) + 1
        /\ TL!OwnEntry(p) \in 1 .. calls
        /\ Len(lastCid[p]) \in Nat
    BY <1>1, <2>1, BuiltEntry, StoreFacts DEF Working
  <2>3. TL!OwnEntry(p) = r.entry
    BY <1>1, <2>1 DEF TL!OwnEntry, RecordOK
  <2>4. /\ stage'[p] = "idle" /\ lastCid'[p] = r.value
        /\ acked' = acked \cup {r.entry}
    BY <1>1, <1>10, <2>1, <2>3
       DEF TL!Acknowledged, TL!StoreTypeOK, TL!OwnEntry
  <2>5. \A q \in Publishers : q # p => SameProcess(q)
    BY <1>1, <1>2, <1>10 DEF TL!Acknowledged, TL!StoreTypeOK, SameProcess
  <2>6. step[p] = "publishing" /\ StepOK(p) /\ AloneOK(p)
    BY <1>1, <2>1 DEF ListInv, TL!TypeOK, StepOK
  <2>7. LateInv'
    <3>1. acked' \subseteq 1 .. calls
      BY <1>1, <2>2, <2>3, <2>4 DEF ListInv, LateInv
    <3>2. ASSUME NEW q \in Publishers PROVE Len(lastCid'[q]) <= Len(r.value)
      BY <1>3, <1>8, <2>4, <2>5 DEF SameProcess
    <3> QED
      BY <1>2, <1>3, <1>7, <3>1, <3>2 DEF LateInv
  <2>8. ASSUME NEW q \in Publishers PROVE StepOK(q)'
    <3>1. CASE q = p
      BY <1>2, <1>5, <2>4, <2>6, <3>1 DEF StepOK
    <3>2. CASE q # p
      <4>1. StepOK(q) /\ SameProcess(q)
        BY <1>1, <2>5, <3>2 DEF ListInv
      <4> QED
        BY <1>1, <1>2, <4>1, StepStays
    <3> QED
      BY <3>1, <3>2
  <2>9. ASSUME alone[p] PROVE \A s \in posts' : ~TL!Supersedes(s)'
    <3>1. ASSUME NEW s \in posts PROVE ~TL!Supersedes(s)'
      <4>1. RecordOK(s) /\ Len(s.value) <= Len(lastCid[p]) + 1
        BY <1>1, <2>6, <2>9, StoreFacts DEF AloneOK
      <4>2. /\ s.sequence \in Nat /\ Len(s.value) = s.sequence + 1
            /\ s.entry \in 1 .. calls
            /\ r.sequence \in Nat /\ Len(r.value) = r.sequence + 1
            /\ r.entry \in 1 .. calls
        BY <1>1, <4>1 DEF RecordOK
      <4>3. s.sequence <= r.sequence
        BY <2>2, <4>1, <4>2
      <4>4. r.entry = calls
        BY <2>3, <2>6, <2>9 DEF AloneOK
      <4>5. s.entry <= r.entry
        BY <1>1, <4>2, <4>4
      <4> QED
        BY <1>1, <1>2, <1>3, <4>2, <4>3, <4>5 DEF TL!Supersedes
    <3> QED
      BY <1>2, <3>1
  <2>10. AloneOK(p)'
    <3>1. SUFFICES ASSUME alone[p] PROVE AloneOK(p)'
      BY <1>2 DEF AloneOK
    <3>2. \A q \in Publishers : q # p => step'[q] = "none"
      BY <1>2, <2>6, <3>1 DEF AloneOK
    <3>3. TL!OwnEntry(p)' = calls /\ r.entry = calls
      BY <1>5, <2>3, <2>6, <3>1 DEF AloneOK
    <3>4. \A s \in posts' : Len(s.value) <= Len(lastCid'[p]) + 1
      BY <1>7, <2>4
    <3> QED
      BY <1>2, <1>3, <2>4, <2>9, <3>1, <3>2, <3>3, <3>4 DEF AloneOK, Working
  <2>11. ASSUME NEW q \in Publishers, q # p PROVE AloneOK(q)'
    <3>1. AloneOK(q) /\ SameProcess(q)
      BY <1>1, <2>5, <2>11 DEF ListInv
    <3>2. step'[q] = step[q] /\ alone'[q] = alone[q] /\ step[p] # "none"
      BY <1>2, <2>6
    <3> QED
      BY <2>11, <3>1, <3>2, NotAlone
  <2> QED
    BY <1>6, <2>7, <2>8, <2>10, <2>11 DEF ToolGoesOn, ListInv
<1> QED
  BY <1>9, <1>10 DEF TL!Accept

(* No step of the tool, its publisher or the name service breaks it.       *)
LEMMA ListInvStep == ListInv /\ TL!Next => ListInv'
<1> SUFFICES ASSUME ListInv, TL!Next PROVE ListInv'
  OBVIOUS
<1>1. ToolGoesOn
  BY StoreInvOfTool, TypeOfTool DEF ToolGoesOn, ListInv
<1>2. CASE TL!StoreStep
  <2>1. UNCHANGED TL!listVars
    BY <1>2 DEF TL!StoreStep
  <2> QED
    BY <1>1, <1>2, <2>1, ListInvCall, ListInvPostName, ListInvAccept,
       ListInvRefuse DEF TL!StoreStep
<1> QED
  BY <1>1, <1>2, ListInvStartCommand, ListInvRead, ListInvPublishList,
     ListInvSucceed, ListInvAbort DEF TL!Next

(* Nor does a step of the manager.                                         *)
LEMMA ListInvStutter == ListInv /\ UNCHANGED toolVars => ListInv'
<1> SUFFICES ASSUME ListInv, UNCHANGED toolVars PROVE ListInv'
  OBVIOUS
<1>1. UNCHANGED <<calls, restarts, blocks, record, posts, acked>>
  BY DEF toolVars
<1>2. UNCHANGED <<stage, building, lastCid, lastSequence>>
  BY DEF toolVars
<1>3. UNCHANGED <<command, step, known, content, alone, promise>>
  BY DEF toolVars
<1>4. S!StoreInv'
  <2>1. UNCHANGED S!storeVars
    BY <1>1, <1>2 DEF S!storeVars, S!publisherVars
  <2> QED
    BY <2>1, StoreConstants, S!StoreInvStutter DEF ListInv
<1>5. TL!TypeOK'
  BY <1>1, <1>2, <1>3 DEF ListInv, TL!TypeOK, TL!StoreTypeOK
<1>6. LateInv'
  BY <1>1, <1>2 DEF ListInv, LateInv, TL!LatestCid
<1>7. \A q \in Publishers : StepOK(q)' /\ AloneOK(q)'
  BY <1>1, <1>2, <1>3 DEF ListInv, StepOK, AloneOK, Working, TL!OwnEntry,
                          TL!Supersedes
<1>8. ASSUME NEW x \in Peers PROVE PromiseOK(x)'
  <2>1. /\ TL!Listed' = TL!Listed
        /\ \A r : TL!Supersedes(r)' <=> TL!Supersedes(r)
        /\ \A p \in Publishers : TL!OwnEntry(p)' = TL!OwnEntry(p)
        /\ \A p \in Publishers :
              TL!Concerns(command[p])' = TL!Concerns(command[p])
    BY <1>1, <1>2, <1>3
       DEF TL!Listed, TL!LatestCid, TL!Supersedes, TL!OwnEntry, TL!Concerns
  <2> QED
    BY <1>1, <1>2, <1>3, <2>1 DEF ListInv, PromiseOK, ProcessAgrees
<1> QED
  BY <1>4, <1>5, <1>6, <1>7, <1>8 DEF ListInv

-----------------------------------------------------------------------------
(* How often the list can change                                           *)

\* Publisher p has built an entry and not posted its record.
Ahead(p) == stage[p] \in {"uploading", "naming"}

\* The entries that the name may still come to point at.
Pending ==
    {r.entry : r \in posts}
      \cup {TL!OwnEntry(p) : p \in {q \in Publishers : Ahead(q)}}

\* No entry is on its way twice.
PendingInv ==
    /\ \A r, s \in posts : r.entry = s.entry => r = s
    /\ \A p \in Publishers, r \in posts :
          Ahead(p) => r.entry # TL!OwnEntry(p)
    /\ \A p, q \in Publishers :
          Ahead(p) /\ Ahead(q) /\ TL!OwnEntry(p) = TL!OwnEntry(q) => p = q

(* Pending is what its name says.                                          *)
LEMMA PendingIs ==
    /\ \A r \in posts : r.entry \in Pending
    /\ \A p \in Publishers : Ahead(p) => TL!OwnEntry(p) \in Pending
    /\ \A n \in Pending :
          \/ \E r \in posts : n = r.entry
          \/ \E p \in Publishers : Ahead(p) /\ n = TL!OwnEntry(p)
BY DEF Pending

(* Most steps put no entry on its way.                                     *)
LEMMA NothingPosted ==
    ASSUME PendingInv, posts' \subseteq posts,
           \A q \in Publishers : Ahead(q)' =>
               Ahead(q) /\ building'[q] = building[q]
    PROVE  PendingInv' /\ Pending' \subseteq Pending
<1>1. \A q \in Publishers : Ahead(q)' =>
         Ahead(q) /\ TL!OwnEntry(q)' = TL!OwnEntry(q)
  BY DEF TL!OwnEntry
<1>2. PendingInv'
  BY <1>1 DEF PendingInv
<1>3. ASSUME NEW n \in Pending' PROVE n \in Pending
  <2>1. \/ \E r \in posts' : n = r.entry
        \/ \E q \in Publishers : Ahead(q)' /\ n = TL!OwnEntry(q)'
    BY <1>3 DEF Pending
  <2> QED
    BY <1>1, <2>1, PendingIs
<1> QED
  BY <1>2, <1>3

(* An entry that is done stays done: only a new one is put on its way.     *)
LEMMA PendingStep ==
    ASSUME ListInv, PendingInv, TL!Next
    PROVE  PendingInv' /\ \A n \in 1 .. calls : n \notin Pending
                                            => n \notin Pending'
<1>1. /\ TL!TypeOK /\ TL!StoreTypeOK /\ S!StoreInv
      /\ calls \in Nat
      /\ \A r \in posts : r.entry \in 1 .. calls
  BY StoreFacts DEF ListInv, RecordOK
<1>2. \A q \in Publishers : Ahead(q) => TL!OwnEntry(q) \in 1 .. calls
  BY <1>1, BuiltEntry DEF Ahead, Working
<1>3. ASSUME NEW p \in Publishers,
             \/ \E c \in Commands : TL!StartCommand(p, c)
             \/ TL!FirstList(p) \/ TL!Conflict(p) \/ TL!Succeed(p)
             \/ TL!Abort(p) \/ TL!Upload(p) \/ TL!UploadFails(p)
             \/ TL!GiveUp(p)
      PROVE  PendingInv' /\ Pending' \subseteq Pending
  <2>1. posts' \subseteq posts
    BY <1>3 DEF TL!StartCommand, TL!Open, TL!FirstList, TL!Conflict,
                TL!Succeed, TL!Abort, TL!Close, TL!Upload, TL!UploadFails,
                TL!GiveUp, TL!storeVars
  <2>2. /\ \A q \in Publishers : q # p =>
              stage'[q] = stage[q] /\ building'[q] = building[q]
        /\ Ahead(p)' => Ahead(p) /\ building'[p] = building[p]
    <3>1. CASE \E c \in Commands : TL!StartCommand(p, c)
      BY <1>1, <3>1
         DEF TL!StartCommand, TL!Open, TL!StoreTypeOK, Ahead
    <3>2. CASE TL!FirstList(p) \/ TL!Conflict(p)
      BY <3>2
         DEF TL!FirstList, TL!Conflict, TL!storeVars, TL!publisherVars, Ahead
    <3>3. CASE TL!Succeed(p) \/ TL!Abort(p)
      BY <1>1, <3>3
         DEF TL!Succeed, TL!Abort, TL!Close, TL!StoreTypeOK, Ahead
    <3>4. CASE TL!Upload(p) \/ TL!UploadFails(p) \/ TL!GiveUp(p)
      BY <1>1, <3>4 DEF TL!Upload, TL!UploadFails, TL!GiveUp, TL!StoreTypeOK,
                        Ahead
    <3> QED
      BY <1>3, <3>1, <3>2, <3>3, <3>4
  <2>3. \A q \in Publishers : Ahead(q)' =>
           Ahead(q) /\ building'[q] = building[q]
    BY <2>2 DEF Ahead
  <2> QED
    BY <2>1, <2>3, NothingPosted
<1>4. ASSUME NEW r \in posts, TL!Accept(r) \/ TL!Refuse(r)
      PROVE  PendingInv' /\ Pending' \subseteq Pending
  <2>1. posts' \subseteq posts /\ building' = building
    BY <1>4 DEF TL!Accept, TL!Refuse, TL!Acknowledged, TL!publisherVars
  <2>2. \A q \in Publishers : Ahead(q)' => Ahead(q)
    BY <1>1, <1>4 DEF TL!Accept, TL!Refuse, TL!Acknowledged, TL!publisherVars,
                      TL!StoreTypeOK, Ahead
  <2> QED
    BY <2>1, <2>2, NothingPosted
<1>5. ASSUME NEW p \in Publishers, TL!PublishList(p)
      PROVE  PendingInv' /\ \A n \in 1 .. calls : n \notin Pending
                                              => n \notin Pending'
  <2>1. /\ posts' = posts
        /\ \A q \in Publishers : q # p =>
              stage'[q] = stage[q] /\ building'[q] = building[q]
        /\ building'[p] = Append(lastCid[p], calls + 1)
        /\ calls < MaxPublishes
    BY <1>1, <1>5 DEF TL!PublishList, TL!Publish, TL!StoreTypeOK
  <2>2. TL!OwnEntry(p)' = calls + 1
    <3>1. TL!OwnEntry(p)' = TL!Last(building'[p])
      BY DEF TL!OwnEntry, TL!Last
    <3> QED
      BY <1>1, <2>1, <3>1, NewEntryIsLast
  <2>3. ASSUME NEW q \in Publishers, q # p
        PROVE  (Ahead(q)' <=> Ahead(q)) /\ TL!OwnEntry(q)' = TL!OwnEntry(q)
    BY <2>1, <2>3 DEF Ahead, TL!OwnEntry
  <2>4. \A q \in Publishers : q # p /\ Ahead(q)' =>
           TL!OwnEntry(q)' \in 1 .. calls
    BY <1>2, <2>3
  <2>5. calls + 1 \notin 1 .. calls
    BY <1>1
  <2>6. \A r, s \in posts' : r.entry = s.entry => r = s
    BY <2>1 DEF PendingInv
  <2>7. ASSUME NEW q \in Publishers, NEW r \in posts', Ahead(q)'
        PROVE  r.entry # TL!OwnEntry(q)'
    <3>1. CASE q = p
      BY <1>1, <2>1, <2>2, <2>5, <3>1
    <3>2. CASE q # p
      BY <2>1, <2>3, <2>7, <3>2 DEF PendingInv
    <3> QED
      BY <3>1, <3>2
  <2>8. ASSUME NEW q \in Publishers, NEW s \in Publishers, Ahead(q)',
               Ahead(s)', TL!OwnEntry(q)' = TL!OwnEntry(s)'
        PROVE  q = s
    <3>1. CASE q # p /\ s # p
      BY <2>3, <2>8, <3>1 DEF PendingInv
    <3>2. CASE q = p /\ s # p
      BY <2>2, <2>4, <2>5, <2>8, <3>2
    <3>3. CASE q # p /\ s = p
      BY <2>2, <2>4, <2>5, <2>8, <3>3
    <3> QED
      BY <3>1, <3>2, <3>3
  <2>9. ASSUME NEW n \in 1 .. calls, n \in Pending' PROVE n \in Pending
    <3>1. \/ \E r \in posts' : n = r.entry
          \/ \E q \in Publishers : Ahead(q)' /\ n = TL!OwnEntry(q)'
      BY <2>9 DEF Pending
    <3>2. \A q \in Publishers : Ahead(q)' /\ n = TL!OwnEntry(q)' => q # p
      BY <2>2, <2>5
    <3> QED
      BY <2>1, <2>3, <3>1, <3>2, PendingIs
  <2>10. PendingInv'
    BY <2>6, <2>7, <2>8 DEF PendingInv
  <2> QED
    BY <2>9, <2>10
<1>6. ASSUME NEW p \in Publishers, TL!PostName(p)
      PROVE  PendingInv' /\ Pending' \subseteq Pending
  <2> DEFINE r == [sequence |-> TL!NextSequence(p),
                   entry |-> TL!Last(building[p]),
                   value |-> building[p]]
  <2>1. /\ posts' = posts \cup {r}
        /\ r.entry = TL!OwnEntry(p)
        /\ building' = building
        /\ Ahead(p) /\ ~Ahead(p)'
        /\ \A q \in Publishers : q # p => stage'[q] = stage[q]
    BY <1>1, <1>6 DEF TL!PostName, TL!StoreTypeOK, TL!OwnEntry, Ahead
  <2> HIDE DEF r
  <2>2. \A q \in Publishers : TL!OwnEntry(q)' = TL!OwnEntry(q)
    BY <2>1 DEF TL!OwnEntry
  <2>3. \A q \in Publishers : Ahead(q)' => Ahead(q) /\ q # p
    BY <2>1 DEF Ahead
  <2>4. \A s \in posts : s.entry # r.entry
    BY <2>1 DEF PendingInv
  <2>5. \A s, t \in posts' : s.entry = t.entry => s = t
    BY <2>1, <2>4 DEF PendingInv
  <2>6. ASSUME NEW q \in Publishers, NEW s \in posts', Ahead(q)'
        PROVE  s.entry # TL!OwnEntry(q)'
    BY <2>1, <2>2, <2>3, <2>6 DEF PendingInv
  <2>7. \A q, s \in Publishers :
           Ahead(q)' /\ Ahead(s)' /\ TL!OwnEntry(q)' = TL!OwnEntry(s)'
             => q = s
    BY <2>2, <2>3 DEF PendingInv
  <2>8. ASSUME NEW n \in Pending' PROVE n \in Pending
    <3>1. \/ \E s \in posts' : n = s.entry
          \/ \E q \in Publishers : Ahead(q)' /\ n = TL!OwnEntry(q)'
      BY <2>8 DEF Pending
    <3> QED
      BY <2>1, <2>2, <2>3, <3>1, PendingIs
  <2> QED
    BY <2>5, <2>6, <2>7, <2>8 DEF PendingInv
<1> QED
  BY <1>3, <1>4, <1>5, <1>6 DEF TL!Next, TL!StoreStep

(* What the list says changes only when the name service accepts a record. *)
LEMMA OnlyAcceptChanges ==
    ASSUME ListInv, TL!Next, TL!Listed' # TL!Listed
    PROVE  \E r \in posts : TL!Accept(r)
<1>1. /\ TL!TypeOK /\ calls \in Nat
      /\ record # NoRecord => RecordOK(record)
  BY StoreFacts DEF ListInv
<1>2. ASSUME NEW p \in Publishers,
             \/ \E c \in Commands : TL!StartCommand(p, c)
             \/ TL!FirstList(p) \/ TL!Conflict(p) \/ TL!Succeed(p)
             \/ TL!Abort(p)
      PROVE  UNCHANGED <<record, content>>
  BY <1>2 DEF TL!StartCommand, TL!Open, TL!FirstList, TL!Conflict,
              TL!Succeed, TL!Abort, TL!Close, TL!storeVars
<1>3. ASSUME NEW p \in Publishers,
             \/ TL!Upload(p) \/ TL!UploadFails(p)
             \/ TL!PostName(p) \/ TL!GiveUp(p),
             UNCHANGED TL!listVars
      PROVE  UNCHANGED <<record, content>>
  BY <1>3 DEF TL!Upload, TL!UploadFails, TL!PostName, TL!GiveUp, TL!listVars
<1>4. ASSUME NEW r \in posts, TL!Refuse(r), UNCHANGED TL!listVars
      PROVE  UNCHANGED <<record, content>>
  BY <1>4 DEF TL!Refuse, TL!listVars
<1>5. ~UNCHANGED <<record, content>>
  BY DEF TL!Listed, TL!LatestCid
<1>6. ASSUME NEW p \in Publishers, TL!PublishList(p) PROVE FALSE
  <2>1. /\ record' = record
        /\ content' = [content EXCEPT ![calls + 1] = TL!NewState(p)]
    BY <1>6 DEF TL!PublishList, TL!Publish
  <2>2. CASE record = NoRecord
    BY <2>1, <2>2 DEF TL!Listed
  <2>3. CASE record # NoRecord
    <3>1. TL!Last(TL!LatestCid) \in 1 .. calls
      BY <1>1, <2>3, ListedIs DEF RecordOK
    <3>2. TL!Last(TL!LatestCid) # calls + 1
      BY <1>1, <3>1
    <3>3. TL!Last(TL!LatestCid)' = TL!Last(TL!LatestCid)
      BY <2>1 DEF TL!LatestCid, TL!Last
    <3>4. content'[TL!Last(TL!LatestCid)] = content[TL!Last(TL!LatestCid)]
      <4>1. TL!Last(TL!LatestCid) \in TL!Payloads
        BY <3>1, StoreFacts DEF ListInv
      <4> QED
        BY <1>1, <2>1, <3>2, <4>1 DEF TL!TypeOK
    <3> QED
      BY <2>1, <2>3, <3>3, <3>4 DEF TL!Listed
  <2> QED
    BY <2>2, <2>3
<1> QED
  BY <1>2, <1>3, <1>4, <1>5, <1>6 DEF TL!Next, TL!StoreStep

(* The entry that the name service accepts is not accepted again.          *)
LEMMA AcceptedIsDone ==
    ASSUME ListInv, PendingInv, NEW r \in posts, TL!Accept(r)
    PROVE  /\ r.entry \in 1 .. calls
           /\ r.entry \in Pending
           /\ r.entry \notin Pending'
           /\ calls' = calls
<1>1. /\ posts' = posts \ {r} /\ building' = building /\ calls' = calls
      /\ \A q \in Publishers : Ahead(q)' => Ahead(q)
  <2>1. TL!StoreTypeOK
    BY DEF ListInv, TL!TypeOK
  <2> QED
    BY <2>1 DEF TL!Accept, TL!Acknowledged, TL!publisherVars, TL!StoreTypeOK,
                Ahead
<1>2. r.entry \in 1 .. calls
  BY StoreFacts DEF ListInv, RecordOK
<1>3. ASSUME r.entry \in Pending' PROVE FALSE
  <2>1. \/ \E s \in posts' : r.entry = s.entry
        \/ \E q \in Publishers : Ahead(q)' /\ r.entry = TL!OwnEntry(q)'
    BY <1>3 DEF Pending
  <2>2. \A q \in Publishers : TL!OwnEntry(q)' = TL!OwnEntry(q)
    BY <1>1 DEF TL!OwnEntry
  <2> QED
    BY <1>1, <2>1, <2>2 DEF PendingInv
<1> QED
  BY <1>1, <1>2, <1>3, PendingIs

-----------------------------------------------------------------------------
(* The tool changes a list that the manager reads                          *)

\* The entries of the list that the name service has answered for.
Done == {n \in 1 .. calls : n \notin Pending}

(* The inductive invariant of the whole: the manager's, the tool's, and    *)
(* that the list changes no more often than Publish was called.            *)
SystemInv ==
    /\ RoundInv
    /\ ListInv
    /\ PendingInv
    /\ list[Tool] = TL!Listed
    /\ changes <= Cardinality(Done)

(* Numbers of calls are finite sets.                                       *)
LEMMA DoneIsFinite ==
    ASSUME ListInv
    PROVE  /\ IsFiniteSet(Done)
           /\ Cardinality(Done) \in Nat
           /\ Cardinality(Done) <= calls
<1>1. calls \in Nat
  BY StoreFacts DEF ListInv
<1>2. IsFiniteSet(1 .. calls) /\ Cardinality(1 .. calls) = calls
  BY <1>1, FS_Interval
<1>3. Done \subseteq 1 .. calls
  BY DEF Done
<1> QED
  BY <1>2, <1>3, FS_Subset, FS_CardinalityType

(* The manager starts with a list that is empty and those of the others.   *)
LEMMA SystemInvInit == SystemInit => SystemInv /\ Init
<1> SUFFICES ASSUME SystemInit PROVE SystemInv /\ Init
  OBVIOUS
<1>1. TL!Init
  BY DEF SystemInit
<1>2. PICK others \in [Trustors \ {Tool} -> OtherLists] :
         list = [t \in Trustors |-> IF t = Tool THEN {} ELSE others[t]]
  BY DEF SystemInit
<1>3. list \in [Trustors -> SUBSET Peers] /\ list[Tool] = {}
  BY <1>2, TrustedPeersAssumption
<1>4. Init
  BY <1>3 DEF SystemInit, Init
<1>5. ListInv
  BY <1>1, ListInvInit
<1>6. TL!Listed = {}
  BY <1>1 DEF TL!Init, TL!StoreInit, TL!Listed
<1>7. PendingInv
  BY <1>1 DEF TL!Init, TL!StoreInit, PendingInv, Ahead
<1>8. changes <= Cardinality(Done)
  BY <1>5, DoneIsFinite DEF SystemInit
<1> QED
  BY <1>3, <1>4, <1>5, <1>6, <1>7, <1>8, InitRound DEF SystemInv

(* A step of the tool that changes what the list says is one of ChangeList,*)
(* and any other is none to the manager.                                   *)
LEMMA ToolChangesItsList ==
    ASSUME SystemInv, ToolStep
    PROVE  /\ ChangeList(Tool) \/ UNCHANGED vars
           /\ ListInv' /\ PendingInv'
           /\ list'[Tool] = TL!Listed'
           /\ changes' <= Cardinality(Done')
<1>1. ListInv /\ PendingInv /\ RoundInv /\ TypeOK /\ TL!Next
  BY DEF SystemInv, RoundInv, ToolStep
<1>2. ListInv' /\ PendingInv'
  BY <1>1, ListInvStep, PendingStep
<1>3. /\ list \in [Trustors -> SUBSET Peers] /\ list[Tool] = TL!Listed
      /\ changes \in Nat /\ changes <= Cardinality(Done)
      /\ Tool \in Trustors
  BY <1>1, TrustManagerAssumption, TrustedPeersAssumption
     DEF SystemInv, TypeOK
<1>4. /\ IsFiniteSet(Done) /\ IsFiniteSet(Done')
      /\ Cardinality(Done) \in Nat /\ Cardinality(Done') \in Nat
      /\ Cardinality(Done') <= calls'
  <2>1. IsFiniteSet(Done) /\ Cardinality(Done) \in Nat
    BY <1>1, DoneIsFinite
  <2>2. /\ IsFiniteSet(Done')
        /\ Cardinality(Done') \in Nat /\ Cardinality(Done') <= calls'
    <3>1. calls' \in Nat
      BY <1>2, StoreFacts DEF ListInv, S!StoreInv, S!StoreTypeOK
    <3>2. IsFiniteSet(1 .. calls') /\ Cardinality(1 .. calls') = calls'
      BY <3>1, FS_Interval
    <3>3. Done' \subseteq 1 .. calls'
      BY DEF Done
    <3> QED
      BY <3>2, <3>3, FS_Subset, FS_CardinalityType
  <2> QED
    BY <2>1, <2>2
<1>5. calls \in Nat /\ calls' \in Nat /\ calls <= calls'
      /\ calls' <= MaxPublishes
  <2>1. calls \in Nat
    BY <1>1, StoreFacts DEF ListInv
  <2>2. calls' \in 0 .. MaxPublishes
    BY <1>2 DEF ListInv, TL!TypeOK, TL!StoreTypeOK
  <2>3. calls' = calls \/ calls' = calls + 1
    BY <1>1 DEF TL!Next, TL!StartCommand, TL!Open, TL!FirstList,
                TL!PublishList, TL!Publish, TL!Succeed, TL!Conflict,
                TL!Abort, TL!Close, TL!StoreStep, TL!Upload, TL!UploadFails,
                TL!PostName, TL!GiveUp, TL!Accept, TL!Refuse, TL!storeVars
  <2> QED
    BY <2>1, <2>2, <2>3, StoreConstants
<1>6. Done \subseteq Done'
  BY <1>1, <1>5, PendingStep DEF Done
<1>7. CASE TL!Listed' = TL!Listed
  <2>1. list' = list /\ changes' = changes
    BY <1>3, <1>7 DEF ToolStep
  <2>2. Named' = Named /\ Missing' = Missing
    BY <2>1 DEF Named, Missing
  <2>3. listedSince' = listedSince /\ without' = without
    BY <1>1, <2>2 DEF ToolStep, RoundInv, HistoriesAreCurrent
  <2>4. UNCHANGED vars
    BY <2>1, <2>3 DEF ToolStep, vars
  <2>5. Cardinality(Done) <= Cardinality(Done')
    BY <1>4, <1>6, FS_Subset
  <2> QED
    BY <1>2, <1>3, <1>4, <1>7, <2>1, <2>4, <2>5
<1>8. CASE TL!Listed' # TL!Listed
  <2>1. /\ list' = [list EXCEPT ![Tool] = TL!Listed']
        /\ changes' = changes + 1
    BY <1>8 DEF ToolStep
  <2>2. PICK r \in posts : TL!Accept(r)
    BY <1>1, <1>8, OnlyAcceptChanges
  <2>3. r.entry \notin Done /\ Done \cup {r.entry} \subseteq Done'
    BY <1>1, <1>6, <2>2, AcceptedIsDone DEF Done
  <2>4. Cardinality(Done \cup {r.entry}) = Cardinality(Done) + 1
    BY <1>4, <2>3, FS_AddElement
  <2>5. Cardinality(Done) + 1 <= Cardinality(Done')
    BY <1>4, <2>3, <2>4, FS_Subset
  <2>6. changes < MaxChanges
    BY <1>3, <1>4, <1>5, <2>5, TrustedPeersAssumption,
       TrustManagerAssumption
  <2>7. TL!Listed' \in SUBSET Peers
    <3>1. (TL!Listed \in SUBSET Peers)'
      BY <1>2, ListedIs, PTL
    <3> QED
      BY <3>1
  <2>8. ChangeList(Tool)
    BY <2>1, <2>6, <2>7 DEF ToolStep, ChangeList
  <2> QED
    BY <1>2, <1>3, <1>4, <2>1, <2>5, <2>8
<1> QED
  BY <1>7, <1>8

(* A step of the manager is none to the tool.                              *)
LEMMA ManagerLeavesTheTool ==
    ASSUME SystemInv, UNCHANGED toolVars
    PROVE  /\ ListInv' /\ PendingInv'
           /\ TL!Listed' = TL!Listed
           /\ Done' = Done
<1>1. UNCHANGED <<calls, record, posts, stage, building, content>>
  BY DEF toolVars
<1>2. ListInv'
  BY ListInvStutter DEF SystemInv
<1>3. /\ \A q \in Publishers : Ahead(q)' <=> Ahead(q)
      /\ \A q \in Publishers : TL!OwnEntry(q)' = TL!OwnEntry(q)
  BY <1>1 DEF Ahead, TL!OwnEntry
<1>4. PendingInv' /\ Pending' = Pending
  BY <1>1, <1>3 DEF SystemInv, PendingInv, Pending
<1>5. TL!Listed' = TL!Listed
  BY <1>1 DEF TL!Listed, TL!LatestCid, TL!Last
<1> QED
  BY <1>1, <1>2, <1>4, <1>5 DEF Done

(* The system makes the steps that the manager allows, and no others.      *)
LEMMA SystemStep ==
    SystemInv /\ [SystemNext]_systemVars => SystemInv' /\ [Next]_vars
<1> SUFFICES ASSUME SystemInv, [SystemNext]_systemVars
             PROVE  SystemInv' /\ [Next]_vars
  OBVIOUS
<1>1. CASE ToolStep
  <2>1. [Next]_vars
    BY <1>1, ToolChangesItsList, TrustedPeersAssumption DEF Next
  <2>2. RoundInv'
    BY <2>1, StepRound DEF SystemInv
  <2> QED
    BY <1>1, <2>1, <2>2, ToolChangesItsList DEF SystemInv
<1>2. CASE ManagerStep
  <2>1. [Next]_vars /\ UNCHANGED <<list, changes>>
    BY <1>2 DEF ManagerStep, Next, Round, ReadList, ReadListFails,
                ReplaceTrustees
  <2>2. RoundInv'
    BY <2>1, StepRound DEF SystemInv
  <2>3. UNCHANGED toolVars
    BY <1>2 DEF ManagerStep
  <2> QED
    BY <2>1, <2>2, <2>3, ManagerLeavesTheTool DEF SystemInv
<1>3. CASE UNCHANGED systemVars
  <2>1. UNCHANGED vars /\ UNCHANGED toolVars
    BY <1>3 DEF systemVars
  <2>2. [Next]_vars /\ UNCHANGED <<list, changes>>
    BY <2>1 DEF vars
  <2>3. RoundInv'
    BY <2>2, StepRound DEF SystemInv
  <2> QED
    BY <2>1, <2>2, <2>3, ManagerLeavesTheTool DEF SystemInv
<1> QED
  BY <1>1, <1>2, <1>3 DEF SystemNext

(* The invariant of the whole holds throughout.                            *)
THEOREM SystemCorrect == SystemSpec => []SystemInv
<1> QED
  BY SystemInvInit, SystemStep, PTL DEF SystemSpec

(* Every variable of the tool, its store and the manager has its type.     *)
THEOREM SystemTypeCorrect == SystemSpec => []SystemTypeOK
<1>1. SystemInv => SystemTypeOK
  BY DEF SystemInv, RoundInv, ListInv, SystemTypeOK
<1> QED
  BY <1>1, SystemCorrect, PTL

(* What ModifyPeers reported of a peer, in a process that was the only one,*)
(* stays so until a command concerns that peer: whatever processes overlap *)
(* later, whatever they find, abort or never hear the answer of, and       *)
(* whichever of their records arrive late.                                 *)
THEOREM SuccessSticksAlways == SystemSpec => []SuccessSticks
<1>1. SystemInv => SuccessSticks
  <2> SUFFICES ASSUME SystemInv, NEW x \in Peers
               PROVE  /\ promise[x] = "listed" => x \in TL!Listed
                      /\ promise[x] = "unlisted" => x \notin TL!Listed
    BY DEF SuccessSticks, TL!SuccessSticks
  <2>1. PromiseOK(x)
    BY DEF SystemInv, ListInv
  <2> QED
    BY <2>1 DEF PromiseOK, Agrees
<1> QED
  BY <1>1, SystemCorrect, PTL

(* The manager need not know how lists come about: with the tool that      *)
(* writes one of them, the name service and all, it is the manager of      *)
(* module TrustManager, whose lists just change.                           *)
THEOREM TheToolChangesLists == SystemSpec => Spec
<1>1. SystemInit => Init
  BY SystemInvInit
<1>2. SystemInv /\ [SystemNext]_systemVars => [Next]_vars
  BY SystemStep
<1> QED
  BY <1>1, <1>2, SystemCorrect, PTL DEF SystemSpec, Spec

(* Of the lists that the tool writes, too: whoever becomes trusted was     *)
(* named by some list during the round.                                    *)
THEOREM OnlyListedBecomeTrustedHere == SystemSpec => OnlyListedBecomeTrusted
BY TheToolChangesLists, OnlyListedBecomeTrustedAlways

(* And whoever loses trust was off every list at some time of the round,   *)
(* if that could be read.                                                  *)
THEOREM ListedPeersAreKeptHere == SystemSpec => ListedPeersAreKept
BY TheToolChangesLists, ListedPeersAreKeptAlways
=============================================================================
