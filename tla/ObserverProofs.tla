--------------------------- MODULE ObserverProofs ---------------------------
(***************************************************************************)
(* The list that one peer publishes, and an observer of it, for any number *)
(* of calls, restarts, late answers, feeds and changes of trust (modules   *)
(* W3Store and Observer): the invariants of the two halves, and that, when *)
(* nothing is lost, the observer implements LogCopy.                       *)
(***************************************************************************)
EXTENDS Observer, TLAPS

-----------------------------------------------------------------------------

(* A chain is a sequence of payloads, no longer than there are calls of    *)
(* Publish.                                                                *)
LEMMA ChainIsSeq ==
    ASSUME NEW c \in Chains
    PROVE  c \in Seq(Payloads) /\ Len(c) \in Nat /\ Len(c) <= MaxPublishes
  <1>1. PICK n \in 0 .. MaxPublishes : c \in [1 .. n -> Payloads]
    BY DEF Chains
  <1>2. n \in Nat
    BY <1>1, W3StoreAssumption
  <1>3. c \in Seq(Payloads) /\ Len(c) = n
    BY <1>1, <1>2
  <1> QED  BY <1>1, <1>2, <1>3

(* And such a sequence is a chain.                                         *)
LEMMA SeqIsChain ==
    ASSUME NEW c \in Seq(Payloads), Len(c) <= MaxPublishes
    PROVE  c \in Chains
  <1>1. Len(c) \in 0 .. MaxPublishes /\ c \in [1 .. Len(c) -> Payloads]
    BY W3StoreAssumption
  <1> QED  BY <1>1 DEF Chains

(* The nil CID is the chain of no entries.                                 *)
LEMMA NilIsAChain == <<>> \in Chains /\ Len(<<>>) = 0
  <1>1. <<>> \in Seq(Payloads) /\ Len(<<>>) = 0 /\ 0 <= MaxPublishes
    BY W3StoreAssumption
  <1> QED  BY <1>1, SeqIsChain, Zenon

(* The entries of a chain up to one of them are a chain; its own prefixes  *)
(* are those of the whole chain.                                           *)
LEMMA PrefixIsAChain ==
    ASSUME NEW c \in Chains, NEW n \in Nat, n <= Len(c)
    PROVE  /\ SubSeq(c, 1, n) \in Chains
           /\ Len(SubSeq(c, 1, n)) = n
           /\ \A k \in 0 .. n : SubSeq(SubSeq(c, 1, n), 1, k) = SubSeq(c, 1, k)
  <1>1. c \in Seq(Payloads) /\ Len(c) <= MaxPublishes /\ n \in Nat
    BY ChainIsSeq
  <1>2. SubSeq(c, 1, n) \in Seq(Payloads) /\ Len(SubSeq(c, 1, n)) = n
    BY <1>1
  <1>3. ASSUME NEW k \in 0 .. n
        PROVE  SubSeq(SubSeq(c, 1, n), 1, k) = SubSeq(c, 1, k)
    BY <1>1, <1>2
  <1>4. Len(SubSeq(c, 1, n)) <= MaxPublishes
    BY <1>1, <1>2, W3StoreAssumption
  <1>5. SubSeq(c, 1, n) \in Chains
    BY <1>2, <1>4, SeqIsChain, Zenon
  <1> QED  BY <1>2, <1>3, <1>5

(* A chain with one more entry has the prefixes, and holds the payloads,   *)
(* of the chain before, and that entry.                                    *)
LEMMA Appended ==
    ASSUME NEW c \in Chains, NEW n \in Payloads, Len(c) < MaxPublishes
    PROVE  /\ Append(c, n) \in Chains
           /\ Len(Append(c, n)) = Len(c) + 1
           /\ Last(Append(c, n)) = n
           /\ \A k \in 0 .. Len(c) :
                 SubSeq(Append(c, n), 1, k) = SubSeq(c, 1, k)
           /\ ToSet(Append(c, n)) = ToSet(c) \cup {n}
  <1>1. c \in Seq(Payloads) /\ Len(c) \in Nat
    BY ChainIsSeq
  <1>2. Append(c, n) \in Seq(Payloads) /\ Len(Append(c, n)) = Len(c) + 1
    BY <1>1
  <1>3. Append(c, n) \in Chains
    <2>1. Len(Append(c, n)) <= MaxPublishes
      BY <1>1, <1>2, W3StoreAssumption
    <2> QED  BY <1>2, <2>1, SeqIsChain, Zenon
  <1>4. Last(Append(c, n)) = n
    BY <1>1, <1>2 DEF Last
  <1>5. ASSUME NEW k \in 0 .. Len(c)
        PROVE  SubSeq(Append(c, n), 1, k) = SubSeq(c, 1, k)
    BY <1>1, <1>2
  <1>6. ToSet(Append(c, n)) = ToSet(c) \cup {n}
    <2>1. /\ DOMAIN c = 1 .. Len(c)
          /\ DOMAIN Append(c, n) = 1 .. Len(c) + 1
          /\ \A k \in 1 .. Len(c) : Append(c, n)[k] = c[k]
          /\ Append(c, n)[Len(c) + 1] = n
      BY <1>1, <1>2
    <2>2. 1 .. Len(c) + 1 = (1 .. Len(c)) \cup {Len(c) + 1}
      BY <1>1
    <2> HIDE DEF Payloads
    <2> QED  BY <2>1, <2>2, Zenon DEF ToSet
  <1> QED  BY <1>2, <1>3, <1>4, <1>5, <1>6

(* A chain is its own longest prefix, and has a last payload unless it is  *)
(* nil.                                                                    *)
LEMMA WholeChain ==
    ASSUME NEW c \in Chains
    PROVE  /\ SubSeq(c, 1, Len(c)) = c
           /\ Len(c) \in Nat
           /\ Len(c) = 0 <=> c = <<>>
           /\ c # <<>> => Last(c) \in Payloads /\ Last(c) \in ToSet(c)
  <1>1. c \in Seq(Payloads) /\ Len(c) \in Nat
    BY ChainIsSeq
  <1> QED  BY <1>1 DEF Last, ToSet

-----------------------------------------------------------------------------
(* The gateway serves every entry of c, back to the first.                 *)
Walkable(c, held) == \A n \in 1 .. Len(c) : SubSeq(c, 1, n) \in held

(* A record as publishNewName makes it: its sequence number counts the     *)
(* entries before the one it names, its validity is the time of that call, *)
(* and all of its list can be fetched.                                     *)
WellMade(r, made, held) ==
    /\ r.value # <<>>
    /\ r.sequence + 1 = Len(r.value)
    /\ r.entry = Last(r.value)
    /\ r.entry <= made
    /\ Len(r.value) <= made
    /\ Walkable(r.value, held)

(* Records are well made, at the name service and on their way to it.      *)
RecordsInv ==
    /\ record # NoRecord => WellMade(record, calls, blocks)
    /\ \A r \in posts : WellMade(r, calls, blocks)

(* Publisher p is inside of Publish.                                       *)
Working(p) == stage[p] \in {"uploading", "naming", "waiting"}

(* What a publisher remembers is a list that can be fetched, of as many    *)
(* entries as its sequence number says; what it builds is that list and    *)
(* one more entry, which is uploaded before it is named.                   *)
PublisherOK(p) ==
    /\ Len(lastCid[p]) <= calls
    /\ lastSequence[p] = IF lastCid[p] = <<>> THEN NoSequence
                         ELSE Len(lastCid[p]) - 1
    /\ Walkable(lastCid[p], blocks)
    /\ stage[p] = "closed" => lastCid[p] = <<>>
    /\ Working(p) =>
          /\ \E n \in 1 .. calls : building[p] = Append(lastCid[p], n)
          /\ Len(lastCid[p]) < calls
    /\ stage[p] \in {"naming", "waiting"} => building[p] \in blocks

(* The invariant of the publishing half, for any number of publishers.     *)
StoreInv ==
    /\ StoreTypeOK
    /\ RecordsInv
    /\ \A p \in Publishers : PublisherOK(p)

(* A record stays well made while calls and blocks are added.              *)
LEMMA StaysWellMade ==
    ASSUME NEW r \in Records, NEW made \in Nat, NEW more \in Nat,
           NEW held, NEW wider, WellMade(r, made, held),
           made <= more, held \subseteq wider
    PROVE  WellMade(r, more, wider)
  <1>1. /\ r.value \in Chains
        /\ r.entry \in Nat
        /\ Len(r.value) \in Nat
    BY ChainIsSeq DEF Records, Payloads
  <1> QED  BY <1>1 DEF WellMade, Walkable

(* A publisher that takes no step keeps its part of the invariant.         *)
LEMMA StaysAsItWas ==
    ASSUME StoreInv, NEW p \in Publishers, calls' \in Nat, calls <= calls',
           blocks \subseteq blocks', stage'[p] = stage[p],
           building'[p] = building[p], lastCid'[p] = lastCid[p],
           lastSequence'[p] = lastSequence[p]
    PROVE  PublisherOK(p)'
  <1>1. lastCid[p] \in Chains /\ calls \in Nat
    BY W3StoreAssumption DEF StoreInv, StoreTypeOK
  <1>2. Len(lastCid[p]) \in Nat
    BY <1>1, ChainIsSeq
  <1> QED  BY <1>1, <1>2 DEF StoreInv, PublisherOK, Working, Walkable

(* No record is made, no record is spoilt.                                 *)
LEMMA RecordsStay ==
    ASSUME StoreInv, calls' \in Nat, calls <= calls', blocks \subseteq blocks',
           record' = record, posts' \subseteq posts
    PROVE  RecordsInv'
  <1>1. /\ calls \in Nat
        /\ posts \subseteq Records
        /\ record \in Records \cup {NoRecord}
    BY W3StoreAssumption DEF StoreInv, StoreTypeOK
  <1> QED  BY <1>1, StaysWellMade DEF StoreInv, RecordsInv

(* A list and its next entry can be fetched when both are there.           *)
LEMMA AppendIsWalkable ==
    ASSUME NEW c \in Chains, NEW n \in Payloads, Len(c) < MaxPublishes,
           NEW held, Walkable(c, held), Append(c, n) \in held
    PROVE  Walkable(Append(c, n), held)
  <1>1. /\ Append(c, n) \in Chains
        /\ Len(Append(c, n)) = Len(c) + 1
        /\ Len(c) \in Nat
        /\ \A k \in 0 .. Len(c) : SubSeq(Append(c, n), 1, k) = SubSeq(c, 1, k)
    BY Appended, ChainIsSeq
  <1>2. SubSeq(Append(c, n), 1, Len(c) + 1) = Append(c, n)
    BY <1>1, WholeChain
  <1>3. ASSUME NEW k \in 1 .. Len(c) + 1
        PROVE  SubSeq(Append(c, n), 1, k) \in held
    <2>1. CASE k = Len(c) + 1
      BY <1>2, <2>1
    <2>2. CASE k \in 1 .. Len(c)
      <3>1. SubSeq(c, 1, k) \in held
        BY <2>2 DEF Walkable
      <3>2. k \in 0 .. Len(c)
        BY <1>1, <2>2
      <3> QED  BY <1>1, <3>1, <3>2, Zenon
    <2> QED  BY <1>1, <2>1, <2>2
  <1> QED  BY <1>1, <1>3 DEF Walkable

(* Nothing is published at first.                                          *)
LEMMA StoreInvInit == StoreInit => StoreInv
  <1> SUFFICES ASSUME StoreInit PROVE StoreInv
    OBVIOUS
  <1>1. StoreTypeOK
    BY NilIsAChain, W3StoreAssumption DEF StoreInit, StoreTypeOK
  <1>2. RecordsInv
    BY DEF StoreInit, RecordsInv
  <1>3. ASSUME NEW p \in Publishers
        PROVE  PublisherOK(p)
    BY NilIsAChain DEF StoreInit, PublisherOK, Working, Walkable
  <1> QED  BY <1>1, <1>2, <1>3 DEF StoreInv

(* A publisher opens with the list the name points at, or with none.       *)
LEMMA StoreInvOpen ==
    ASSUME StoreInv, NEW p \in Publishers, Open(p)
    PROVE  StoreInv'
  <1> USE DEF Open
  <1>1. /\ StoreTypeOK
        /\ PublisherOK(p)
        /\ calls \in Nat
        /\ calls' = calls /\ blocks' = blocks
    BY W3StoreAssumption DEF StoreInv, StoreTypeOK
  <1>2. RecordsInv'
    BY <1>1, RecordsStay
  <1>3. ASSUME NEW q \in Publishers, q # p
        PROVE  PublisherOK(q)'
    BY <1>1, <1>3, StaysAsItWas DEF StoreTypeOK
  <1>4. CASE record = NoRecord
    <2>1. StoreTypeOK'
      BY <1>1, <1>4 DEF StoreTypeOK
    <2>2. PublisherOK(p)'
      BY <1>1, <1>4 DEF PublisherOK, Working, StoreTypeOK
    <2> QED  BY <1>2, <1>3, <2>1, <2>2 DEF StoreInv
  <1>5. CASE record # NoRecord
    <2>1. /\ record \in Records
          /\ WellMade(record, calls, blocks)
          /\ Len(record.value) \in Nat
      BY <1>1, <1>5, ChainIsSeq DEF StoreInv, RecordsInv, StoreTypeOK, Records
    <2>2. StoreTypeOK'
      BY <1>1, <1>5, <2>1 DEF StoreTypeOK, Records
    <2>3. /\ stage'[p] = "idle"
          /\ lastCid'[p] = record.value
          /\ lastSequence'[p] = record.sequence
      BY <1>1, <1>5 DEF StoreTypeOK
    <2>4. record.sequence \in Nat
      BY <2>1 DEF Records
    <2>5. PublisherOK(p)'
      BY <1>1, <2>1, <2>3, <2>4 DEF PublisherOK, Working, WellMade
    <2> QED  BY <1>2, <1>3, <2>2, <2>5 DEF StoreInv
  <1> QED  BY <1>4, <1>5

(* Publish builds on what the publisher remembers.                         *)
LEMMA StoreInvPublish ==
    ASSUME StoreInv, NEW p \in Publishers, Publish(p)
    PROVE  StoreInv'
  <1> USE DEF Publish
  <1>1. /\ StoreTypeOK
        /\ PublisherOK(p)
        /\ calls \in Nat
        /\ calls' = calls + 1 /\ blocks' = blocks
    BY W3StoreAssumption DEF StoreInv, StoreTypeOK
  <1>2. /\ calls' \in Payloads
        /\ calls' \in Nat
        /\ calls <= calls'
    BY <1>1, W3StoreAssumption DEF Payloads
  <1>3. /\ lastCid[p] \in Chains
        /\ Len(lastCid[p]) \in Nat
        /\ Len(lastCid[p]) <= calls
        /\ Len(lastCid[p]) < MaxPublishes
    BY <1>1, ChainIsSeq, W3StoreAssumption DEF StoreTypeOK, PublisherOK
  <1>4. Append(lastCid[p], calls') \in Chains
    BY <1>2, <1>3, Appended
  <1>5. RecordsInv'
    BY <1>1, <1>2, RecordsStay
  <1>6. ASSUME NEW q \in Publishers, q # p
        PROVE  PublisherOK(q)'
    BY <1>1, <1>2, <1>6, StaysAsItWas DEF StoreTypeOK
  <1>7. StoreTypeOK'
    BY <1>1, <1>2, <1>4, W3StoreAssumption DEF StoreTypeOK, Payloads
  <1>8. PublisherOK(p)'
    <2>1. /\ stage'[p] = "uploading"
          /\ building'[p] = Append(lastCid[p], calls')
          /\ lastCid'[p] = lastCid[p]
          /\ lastSequence'[p] = lastSequence[p]
          /\ stage[p] = "idle"
      BY <1>1 DEF StoreTypeOK
    <2>2. calls' \in 1 .. calls'
      BY <1>1
    <2>3. \E n \in 1 .. calls' : building'[p] = Append(lastCid'[p], n)
      BY <2>1, <2>2
    <2> QED  BY <1>1, <1>2, <1>3, <2>1, <2>3 DEF PublisherOK, Working
  <1> QED  BY <1>5, <1>6, <1>7, <1>8 DEF StoreInv

(* Only an upload that was answered well leads to naming.                  *)
LEMMA StoreInvUpload ==
    ASSUME StoreInv, NEW p \in Publishers, Upload(p) \/ UploadFails(p)
    PROVE  StoreInv'
  <1>1. /\ StoreTypeOK
        /\ PublisherOK(p)
        /\ calls \in Nat
        /\ stage[p] = "uploading"
        /\ stage'[p] \in {"idle", "naming"}
        /\ stage'[p] = "naming" => building[p] \in blocks'
        /\ blocks \subseteq blocks'
        /\ blocks' \subseteq blocks \cup {building[p]}
        /\ stage' \in [Publishers -> {"closed", "idle", "uploading", "naming",
                                      "waiting"}]
        /\ \A q \in Publishers : q # p => stage'[q] = stage[q]
        /\ UNCHANGED <<calls, restarts, record, posts, acked, building,
                       lastCid, lastSequence>>
    BY W3StoreAssumption DEF StoreInv, StoreTypeOK, Upload, UploadFails
  <1>2. RecordsInv'
    BY <1>1, RecordsStay
  <1>3. ASSUME NEW q \in Publishers, q # p
        PROVE  PublisherOK(q)'
    BY <1>1, <1>3, StaysAsItWas
  <1>4. StoreTypeOK'
    BY <1>1 DEF StoreTypeOK
  <1>5. PublisherOK(p)'
    BY <1>1 DEF PublisherOK, Working, Walkable
  <1> QED  BY <1>2, <1>3, <1>4, <1>5 DEF StoreInv

(* What Publish builds is one entry longer than what the publisher         *)
(* remembers, and its sequence number counts the entries before it.        *)
LEMMA WhatIsBuilt ==
    ASSUME StoreInv, NEW p \in Publishers, Working(p)
    PROVE  /\ building[p] \in Chains
           /\ building[p] # <<>>
           /\ Len(building[p]) = Len(lastCid[p]) + 1
           /\ Len(building[p]) <= calls
           /\ Last(building[p]) \in 1 .. calls
           /\ Last(building[p]) \in Payloads
           /\ NextSequence(p) + 1 = Len(building[p])
           /\ NextSequence(p) \in 0 .. MaxPublishes
           /\ ToSet(building[p]) = ToSet(lastCid[p]) \cup {Last(building[p])}
           /\ stage[p] \in {"naming", "waiting"} =>
                 Walkable(building[p], blocks)
  <1>1. /\ PublisherOK(p)
        /\ lastCid[p] \in Chains
        /\ building[p] \in Chains
        /\ calls \in Nat
        /\ calls <= MaxPublishes
        /\ lastSequence[p] \in (0 .. MaxPublishes) \cup {NoSequence}
    BY W3StoreAssumption DEF StoreInv, StoreTypeOK
  <1>2. PICK n \in 1 .. calls : building[p] = Append(lastCid[p], n)
    BY <1>1 DEF PublisherOK
  <1>3. /\ n \in Payloads
        /\ Len(lastCid[p]) \in Nat
        /\ Len(lastCid[p]) < MaxPublishes
        /\ Len(lastCid[p]) < calls
    BY <1>1, ChainIsSeq, W3StoreAssumption DEF PublisherOK, Payloads
  <1>4. /\ Len(building[p]) = Len(lastCid[p]) + 1
        /\ Last(building[p]) = n
        /\ ToSet(building[p]) = ToSet(lastCid[p]) \cup {n}
    BY <1>1, <1>2, <1>3, Appended
  <1>5. building[p] # <<>>
    BY <1>3, <1>4, NilIsAChain
  <1>6. NextSequence(p) = Len(lastCid[p])
    <2>1. CASE lastCid[p] = <<>>
      BY <1>1, <2>1, NilIsAChain DEF PublisherOK, NextSequence
    <2>2. CASE lastCid[p] # <<>>
      <3>1. lastSequence[p] = Len(lastCid[p]) - 1
        BY <1>1, <2>2 DEF PublisherOK
      <3>2. Len(lastCid[p]) - 1 \in Nat
        BY <1>1, <1>3, <2>2, WholeChain
      <3>3. lastSequence[p] # NoSequence
        BY <3>1, <3>2, W3StoreAssumption
      <3> QED  BY <1>3, <3>1, <3>3 DEF NextSequence
    <2> QED  BY <2>1, <2>2
  <1>7. stage[p] \in {"naming", "waiting"} => Walkable(building[p], blocks)
    BY <1>1, <1>2, <1>3, AppendIsWalkable DEF PublisherOK
  <1>8. /\ Len(building[p]) <= calls
        /\ NextSequence(p) + 1 = Len(building[p])
        /\ NextSequence(p) \in 0 .. MaxPublishes
    BY <1>1, <1>3, <1>4, <1>6, W3StoreAssumption
  <1>9. Last(building[p]) \in 1 .. calls /\ Last(building[p]) \in Payloads
    BY <1>3, <1>4
  <1> QED  BY <1>1, <1>4, <1>5, <1>7, <1>8, <1>9

(* The record that is posted is well made: its block is uploaded.          *)
LEMMA StoreInvPostName ==
    ASSUME StoreInv, NEW p \in Publishers, PostName(p)
    PROVE  StoreInv'
  <1> DEFINE new == [sequence |-> NextSequence(p),
                     entry |-> Last(building[p]),
                     value |-> building[p]]
  <1>1. /\ StoreTypeOK
        /\ PublisherOK(p)
        /\ calls \in Nat
        /\ stage[p] = "naming"
        /\ stage' = [stage EXCEPT ![p] = "waiting"]
        /\ posts' = posts \cup {new}
        /\ UNCHANGED <<calls, restarts, blocks, record, acked, building,
                       lastCid, lastSequence>>
    BY W3StoreAssumption DEF StoreInv, StoreTypeOK, PostName
  <1>2. new \in Records /\ WellMade(new, calls, blocks)
    BY <1>1, WhatIsBuilt DEF Working, Records, WellMade
  <1>3. StoreTypeOK'
    BY <1>1, <1>2 DEF StoreTypeOK
  <1>4. RecordsInv'
    BY <1>1, <1>2 DEF RecordsInv, StoreInv
  <1>5. ASSUME NEW q \in Publishers, q # p
        PROVE  PublisherOK(q)'
    BY <1>1, <1>5, StaysAsItWas DEF StoreTypeOK
  <1>6. stage'[p] = "waiting"
    BY <1>1 DEF StoreTypeOK
  <1>7. PublisherOK(p)'
    BY <1>1, <1>6 DEF PublisherOK, Working
  <1> QED  BY <1>3, <1>4, <1>5, <1>7 DEF StoreInv

(* A call that fails changes nothing that is remembered.                   *)
LEMMA StoreInvGiveUp ==
    ASSUME StoreInv, NEW p \in Publishers, GiveUp(p)
    PROVE  StoreInv'
  <1>1. /\ StoreTypeOK
        /\ PublisherOK(p)
        /\ calls \in Nat
        /\ stage' = [stage EXCEPT ![p] = "idle"]
        /\ posts' \subseteq posts
        /\ UNCHANGED <<calls, restarts, blocks, record, acked, building,
                       lastCid, lastSequence>>
    BY W3StoreAssumption DEF StoreInv, StoreTypeOK, GiveUp
  <1>2. StoreTypeOK'
    BY <1>1 DEF StoreTypeOK
  <1>3. RecordsInv'
    BY <1>1, RecordsStay
  <1>4. ASSUME NEW q \in Publishers, q # p
        PROVE  PublisherOK(q)'
    BY <1>1, <1>4, StaysAsItWas DEF StoreTypeOK
  <1>5. stage'[p] = "idle"
    BY <1>1 DEF StoreTypeOK
  <1>6. PublisherOK(p)'
    BY <1>1, <1>5 DEF PublisherOK, Working
  <1> QED  BY <1>2, <1>3, <1>4, <1>6 DEF StoreInv

(* A process that ends forgets everything.                                 *)
LEMMA StoreInvClose ==
    ASSUME StoreInv, NEW p \in Publishers, Close(p)
    PROVE  StoreInv'
  <1>1. /\ StoreTypeOK
        /\ calls \in Nat
        /\ restarts < MaxRestarts
        /\ restarts' = restarts + 1
        /\ stage' = [stage EXCEPT ![p] = "closed"]
        /\ building' = [building EXCEPT ![p] = <<>>]
        /\ lastCid' = [lastCid EXCEPT ![p] = <<>>]
        /\ lastSequence' = [lastSequence EXCEPT ![p] = NoSequence]
        /\ posts' \subseteq posts
        /\ UNCHANGED <<calls, blocks, record, acked>>
    BY W3StoreAssumption DEF StoreInv, StoreTypeOK, Close
  <1>2. restarts' \in 0 .. MaxRestarts
    BY <1>1, W3StoreAssumption DEF StoreTypeOK
  <1>3. StoreTypeOK'
    BY <1>1, <1>2, NilIsAChain DEF StoreTypeOK
  <1>4. RecordsInv'
    BY <1>1, RecordsStay
  <1>5. ASSUME NEW q \in Publishers, q # p
        PROVE  PublisherOK(q)'
    BY <1>1, <1>5, StaysAsItWas DEF StoreTypeOK
  <1>6. /\ stage'[p] = "closed"
        /\ lastCid'[p] = <<>>
        /\ lastSequence'[p] = NoSequence
    BY <1>1 DEF StoreTypeOK
  <1>7. PublisherOK(p)'
    BY <1>1, <1>6, NilIsAChain DEF PublisherOK, Working, Walkable
  <1> QED  BY <1>3, <1>4, <1>5, <1>7 DEF StoreInv

(* A refused record is gone.                                               *)
LEMMA StoreInvRefuse ==
    ASSUME StoreInv, NEW r \in posts, Refuse(r)
    PROVE  StoreInv'
  <1>1. /\ StoreTypeOK
        /\ calls \in Nat
        /\ posts' \subseteq posts
        /\ UNCHANGED <<calls, restarts, blocks, record, acked, stage,
                       building, lastCid, lastSequence>>
    BY W3StoreAssumption DEF StoreInv, StoreTypeOK, Refuse, publisherVars
  <1>2. StoreTypeOK'
    BY <1>1 DEF StoreTypeOK
  <1>3. RecordsInv'
    BY <1>1, RecordsStay
  <1>4. ASSUME NEW q \in Publishers
        PROVE  PublisherOK(q)'
    BY <1>1, StaysAsItWas
  <1> QED  BY <1>2, <1>3, <1>4 DEF StoreInv

(* An accepted record was well made, and its publisher, when it hears of   *)
(* it, remembers a list of that length.                                    *)
LEMMA StoreInvAccept ==
    ASSUME StoreInv, NEW r \in posts, Accept(r)
    PROVE  StoreInv'
  <1>1. /\ StoreTypeOK
        /\ calls \in Nat
        /\ record' = r
        /\ posts' = posts \ {r}
        /\ UNCHANGED <<calls, restarts, blocks>>
    BY W3StoreAssumption DEF StoreInv, StoreTypeOK, Accept
  <1>2. r \in Records /\ WellMade(r, calls, blocks)
    BY DEF StoreInv, StoreTypeOK, RecordsInv
  <1>3. RecordsInv'
    BY <1>1, <1>2 DEF RecordsInv, StoreInv
  <1>4. CASE UNCHANGED <<acked, publisherVars>>
    <2>1. StoreTypeOK'
      BY <1>1, <1>2, <1>4 DEF StoreTypeOK, publisherVars
    <2>2. ASSUME NEW q \in Publishers
          PROVE  PublisherOK(q)'
      BY <1>1, <1>4, StaysAsItWas DEF publisherVars
    <2> QED  BY <1>3, <2>1, <2>2 DEF StoreInv
  <1>5. ASSUME NEW p \in Publishers, OwnPost(p, r), Acknowledged(p)
        PROVE  StoreInv'
    <2>1. /\ stage[p] = "waiting"
          /\ stage' = [stage EXCEPT ![p] = "idle"]
          /\ lastCid' = [lastCid EXCEPT ![p] = building[p]]
          /\ lastSequence' = [lastSequence EXCEPT ![p] = NextSequence(p)]
          /\ acked' = acked \cup {Last(building[p])}
          /\ building' = building
      BY <1>5 DEF OwnPost, Acknowledged
    <2>2. /\ building[p] \in Chains
          /\ building[p] # <<>>
          /\ Len(building[p]) <= calls
          /\ Last(building[p]) \in Payloads
          /\ NextSequence(p) + 1 = Len(building[p])
          /\ NextSequence(p) \in 0 .. MaxPublishes
          /\ Walkable(building[p], blocks)
      BY <2>1, WhatIsBuilt DEF Working
    <2>3. StoreTypeOK'
      BY <1>1, <1>2, <2>1, <2>2 DEF StoreTypeOK
    <2>4. ASSUME NEW q \in Publishers, q # p
          PROVE  PublisherOK(q)'
      BY <1>1, <2>1, <2>4, StaysAsItWas DEF StoreTypeOK
    <2>5. /\ stage'[p] = "idle"
          /\ lastCid'[p] = building[p]
          /\ lastSequence'[p] = NextSequence(p)
      BY <1>1, <2>1 DEF StoreTypeOK
    <2>6. PublisherOK(p)'
      BY <1>1, <2>2, <2>5, W3StoreAssumption DEF PublisherOK, Working
    <2> QED  BY <1>3, <2>3, <2>4, <2>6 DEF StoreInv
  <1> QED  BY <1>4, <1>5 DEF Accept

(* Every step of the publishing half keeps its invariant.                  *)
LEMMA StoreInvStep ==
    ASSUME StoreInv, StoreNext
    PROVE  StoreInv'
  BY StoreInvOpen, StoreInvPublish, StoreInvUpload, StoreInvPostName,
     StoreInvGiveUp, StoreInvClose, StoreInvAccept, StoreInvRefuse
     DEF StoreNext

(* So does a step that is none.                                            *)
LEMMA StoreInvStutter ==
    ASSUME StoreInv, UNCHANGED storeVars
    PROVE  StoreInv'
  BY DEF StoreInv, StoreTypeOK, RecordsInv, PublisherOK, Working, storeVars,
         publisherVars

-----------------------------------------------------------------------------
(* One process at a time holds the key of the peer.                        *)
OnePublisher == \A p, q \in Publishers : p = q

(* Acknowledged entries are in the list, in what an open publisher         *)
(* remembers, and in every late record that could still replace the list:  *)
(* a record on its way is at most one entry longer than either, and the    *)
(* entry being published is the newest of all.                             *)
AckedInv ==
    /\ acked \subseteq ToSet(LatestCid)
    /\ \A r \in posts :
          /\ Len(r.value) <= Len(LatestCid) + 1
          /\ Supersedes(r) => acked \subseteq ToSet(r.value)
    /\ \A p \in Publishers : stage[p] # "closed" =>
          /\ acked \subseteq ToSet(lastCid[p])
          /\ Len(lastCid[p]) <= Len(LatestCid)
          /\ \A r \in posts : Len(r.value) <= Len(lastCid[p]) + 1
          /\ Working(p) => Last(building[p]) = calls

(* Nothing is acknowledged at first.                                       *)
LEMMA AckedInvInit == StoreInit => AckedInv
  BY NilIsAChain DEF StoreInit, AckedInv, LatestCid, Supersedes, Working

(* The name points at a chain.                                             *)
LEMMA LatestCidIsAChain ==
    ASSUME StoreInv
    PROVE  LatestCid \in Chains /\ Len(LatestCid) \in Nat
  <1>1. LatestCid \in Chains
    BY NilIsAChain DEF StoreInv, StoreTypeOK, Records, LatestCid
  <1> QED  BY <1>1, ChainIsSeq

(* The invariant holds on where the name and the acknowledged entries      *)
(* stay, no record is added, and publishers end or go on with what they    *)
(* remember.                                                               *)
LEMMA AckedStays ==
    ASSUME AckedInv, record' = record, acked' = acked, posts' \subseteq posts,
           \A p \in Publishers : \/ stage'[p] = "closed"
                                 \/ /\ stage[p] # "closed"
                                    /\ lastCid'[p] = lastCid[p]
                                    /\ Working(p)' =>
                                          /\ Working(p)
                                          /\ building'[p] = building[p]
                                          /\ calls' = calls
    PROVE  AckedInv'
  <1>1. LatestCid' = LatestCid /\ \A r : Supersedes(r)' <=> Supersedes(r)
    BY DEF LatestCid, Supersedes
  <1>2. ASSUME NEW p \in Publishers, stage'[p] # "closed"
        PROVE  /\ acked' \subseteq ToSet(lastCid'[p])
               /\ Len(lastCid'[p]) <= Len(LatestCid)'
               /\ \A r \in posts' : Len(r.value) <= Len(lastCid'[p]) + 1
               /\ Working(p)' => Last(building'[p]) = calls'
    BY <1>1, <1>2 DEF AckedInv
  <1> QED  BY <1>1, <1>2 DEF AckedInv

(* A publisher that opens remembers the list itself.                       *)
LEMMA AckedInvOpen ==
    ASSUME StoreInv, AckedInv, NEW p \in Publishers, Open(p), OnePublisher
    PROVE  AckedInv'
  <1>1. /\ PublisherOK(p)
        /\ stage[p] = "closed"
        /\ stage'[p] = "idle"
        /\ lastCid'[p] = LatestCid
        /\ LatestCid' = LatestCid
        /\ UNCHANGED <<record, acked, posts>>
    BY DEF StoreInv, StoreTypeOK, PublisherOK, Open, LatestCid
  <1>2. \A r : Supersedes(r)' <=> Supersedes(r)
    BY <1>1 DEF Supersedes
  <1>3. Len(LatestCid) \in Nat
    BY LatestCidIsAChain
  <1>4. ~Working(p)'
    BY <1>1 DEF Working
  <1>5. ASSUME NEW q \in Publishers
        PROVE  /\ acked' \subseteq ToSet(lastCid'[q])
               /\ Len(lastCid'[q]) <= Len(LatestCid)'
               /\ \A r \in posts' : Len(r.value) <= Len(lastCid'[q]) + 1
               /\ ~Working(q)'
    <2>1. q = p
      BY DEF OnePublisher
    <2> QED  BY <1>1, <1>3, <1>4, <2>1 DEF AckedInv
  <1> QED  BY <1>1, <1>2, <1>5 DEF AckedInv

(* The entry of a new call is the newest.                                  *)
LEMMA AckedInvPublish ==
    ASSUME StoreInv, AckedInv, NEW p \in Publishers, Publish(p), OnePublisher
    PROVE  AckedInv'
  <1>1. /\ PublisherOK(p)
        /\ calls \in Nat
        /\ calls < MaxPublishes
        /\ calls' = calls + 1
        /\ stage[p] = "idle"
        /\ building'[p] = Append(lastCid[p], calls')
        /\ lastCid[p] \in Chains
        /\ UNCHANGED <<record, acked, posts, lastCid>>
    BY W3StoreAssumption DEF StoreInv, StoreTypeOK, Publish
  <1>2. calls' \in Payloads
    BY <1>1, W3StoreAssumption DEF Payloads
  <1>3. Len(lastCid[p]) < MaxPublishes
    BY <1>1, ChainIsSeq, W3StoreAssumption DEF PublisherOK
  <1>4. Last(building'[p]) = calls'
    BY <1>1, <1>2, <1>3, Appended
  <1>5. LatestCid' = LatestCid /\ \A r : Supersedes(r)' <=> Supersedes(r)
    BY <1>1 DEF LatestCid, Supersedes
  <1>6. ASSUME NEW q \in Publishers
        PROVE  /\ acked' \subseteq ToSet(lastCid'[q])
               /\ Len(lastCid'[q]) <= Len(LatestCid)'
               /\ \A r \in posts' : Len(r.value) <= Len(lastCid'[q]) + 1
               /\ Last(building'[q]) = calls'
    <2>1. q = p
      BY DEF OnePublisher
    <2> QED  BY <1>1, <1>4, <1>5, <2>1 DEF AckedInv
  <1> QED  BY <1>1, <1>5, <1>6 DEF AckedInv

(* A posted record holds what its publisher remembers, and so all that was *)
(* acknowledged.                                                           *)
LEMMA AckedInvPostName ==
    ASSUME StoreInv, AckedInv, NEW p \in Publishers, PostName(p), OnePublisher
    PROVE  AckedInv'
  <1> DEFINE new == [sequence |-> NextSequence(p),
                     entry |-> Last(building[p]),
                     value |-> building[p]]
  <1>1. /\ stage[p] = "naming"
        /\ stage'[p] = "waiting"
        /\ lastCid[p] \in Chains
        /\ posts' = posts \cup {new}
        /\ UNCHANGED <<calls, record, acked, building, lastCid>>
    BY DEF StoreInv, StoreTypeOK, PostName
  <1>2. Working(p) /\ LatestCid' = LatestCid
    BY <1>1 DEF Working, LatestCid
  <1>3. \A r : Supersedes(r)' <=> Supersedes(r)
    BY <1>1 DEF Supersedes
  <1>4. /\ Len(new.value) = Len(lastCid[p]) + 1
        /\ ToSet(lastCid[p]) \subseteq ToSet(new.value)
        /\ Len(lastCid[p]) \in Nat
        /\ Len(LatestCid) \in Nat
    BY <1>1, <1>2, WhatIsBuilt, ChainIsSeq, LatestCidIsAChain
  <1>5. /\ acked \subseteq ToSet(lastCid[p])
        /\ Len(lastCid[p]) <= Len(LatestCid)
        /\ \A r \in posts : Len(r.value) <= Len(lastCid[p]) + 1
        /\ Last(building[p]) = calls
    BY <1>1, <1>2 DEF AckedInv
  <1>6. \A r \in posts' :
           /\ Len(r.value) <= Len(LatestCid)' + 1
           /\ Len(r.value) <= Len(lastCid[p]) + 1
           /\ Supersedes(r)' => acked' \subseteq ToSet(r.value)
    <2> HIDE DEF new
    <2>1. /\ Len(new.value) <= Len(LatestCid) + 1
          /\ Len(new.value) <= Len(lastCid[p]) + 1
          /\ acked \subseteq ToSet(new.value)
      BY <1>4, <1>5
    <2> QED  BY <1>1, <1>2, <1>3, <1>5, <2>1 DEF AckedInv
  <1>7. ASSUME NEW q \in Publishers
        PROVE  /\ acked' \subseteq ToSet(lastCid'[q])
               /\ Len(lastCid'[q]) <= Len(LatestCid)'
               /\ \A r \in posts' : Len(r.value) <= Len(lastCid'[q]) + 1
               /\ Last(building'[q]) = calls'
    <2>1. q = p
      BY DEF OnePublisher
    <2> QED  BY <1>1, <1>2, <1>5, <1>6, <2>1
  <1>8. acked' \subseteq ToSet(LatestCid)'
    BY <1>1, <1>2 DEF AckedInv
  <1> QED  BY <1>6, <1>7, <1>8 DEF AckedInv

(* Uploads, and calls and processes that end, acknowledge nothing and post *)
(* nothing.                                                                *)
LEMMA AckedInvFailures ==
    ASSUME StoreInv, AckedInv, NEW p \in Publishers,
           Upload(p) \/ UploadFails(p) \/ GiveUp(p) \/ Close(p)
    PROVE  AckedInv'
  <1>1. /\ UNCHANGED <<calls, record, acked>>
        /\ posts' \subseteq posts
        /\ stage[p] # "closed"
    BY DEF Upload, UploadFails, GiveUp, Close
  <1>2. ASSUME NEW q \in Publishers, stage'[q] # "closed"
        PROVE  /\ stage[q] # "closed"
               /\ lastCid'[q] = lastCid[q]
               /\ Working(q)' => Working(q) /\ building'[q] = building[q]
    <2>1. CASE Upload(p)
      BY <1>2, <2>1 DEF Upload, StoreInv, StoreTypeOK, Working
    <2>2. CASE UploadFails(p)
      BY <1>2, <2>2 DEF UploadFails, StoreInv, StoreTypeOK, Working
    <2>3. CASE GiveUp(p)
      BY <1>2, <2>3 DEF GiveUp, StoreInv, StoreTypeOK, Working
    <2>4. CASE Close(p)
      BY <1>2, <2>4 DEF Close, StoreInv, StoreTypeOK, Working
    <2> QED  BY <2>1, <2>2, <2>3, <2>4
  <1> QED  BY <1>1, <1>2, AckedStays

(* Nor does a refused record.                                              *)
LEMMA AckedInvRefuse ==
    ASSUME AckedInv, NEW r \in posts, Refuse(r)
    PROVE  AckedInv'
  BY AckedStays DEF Refuse, publisherVars, Working

(* An accepted record replaces the list by one that holds all that was     *)
(* acknowledged; after an acknowledgement no record that is still on its   *)
(* way replaces it, for each is as short and older.                        *)
LEMMA AckedInvAccept ==
    ASSUME StoreInv, AckedInv, NEW r \in posts, Accept(r), OnePublisher
    PROVE  AckedInv'
  <1>1. /\ StoreTypeOK
        /\ r \in Records
        /\ r.value \in Chains
        /\ r.sequence \in Nat
        /\ r.entry \in Nat
        /\ WellMade(r, calls, blocks)
        /\ Len(r.value) = r.sequence + 1
        /\ calls \in Nat
    BY W3StoreAssumption
       DEF StoreInv, StoreTypeOK, RecordsInv, Records, Payloads, WellMade
  <1>2. /\ Supersedes(r)
        /\ record' = r
        /\ posts' = posts \ {r}
        /\ UNCHANGED <<calls, blocks>>
        /\ LatestCid' = r.value
    BY <1>1, W3StoreAssumption DEF Accept, LatestCid
  <1>3. Len(LatestCid) <= Len(r.value)
    <2>1. CASE record = NoRecord
      BY <1>1, <2>1, NilIsAChain DEF LatestCid
    <2>2. CASE record # NoRecord
      <3>1. /\ Len(record.value) = record.sequence + 1
            /\ record.sequence \in Nat
        BY <1>1, <2>2
           DEF StoreInv, StoreTypeOK, RecordsInv, WellMade, Records
      <3> QED  BY <1>1, <1>2, <2>2, <3>1 DEF Supersedes, LatestCid
    <2> QED  BY <2>1, <2>2
  <1>4. ASSUME NEW r2 \in posts, Supersedes(r2)'
        PROVE  Supersedes(r2)
    <2>1. /\ r2.sequence \in Nat
          /\ r2.entry \in Nat
          /\ \/ r2.sequence > r.sequence
             \/ r2.sequence = r.sequence /\ r2.entry > r.entry
      BY <1>1, <1>2, <1>4, W3StoreAssumption
         DEF Supersedes, StoreTypeOK, Records, Payloads
    <2>2. CASE record = NoRecord
      BY <2>2 DEF Supersedes
    <2>3. CASE record # NoRecord
      <3>1. record.sequence \in Nat /\ record.entry \in Nat
        BY <1>1, <2>3, W3StoreAssumption DEF StoreTypeOK, Records, Payloads
      <3> QED  BY <1>1, <1>2, <2>1, <2>3, <3>1 DEF Supersedes
    <2> QED  BY <2>2, <2>3
  <1>5. Len(LatestCid) \in Nat /\ Len(r.value) \in Nat
    BY <1>1, ChainIsSeq, LatestCidIsAChain
  <1>6. ASSUME NEW r2 \in posts
        PROVE  Len(r2.value) <= Len(r.value) + 1 /\ Len(r2.value) \in Nat
    <2>1. r2.value \in Chains
      BY <1>1 DEF StoreTypeOK, Records
    <2> QED  BY <1>3, <1>5, <2>1, ChainIsSeq DEF AckedInv
  <1>7. CASE UNCHANGED <<acked, publisherVars>>
    <2>1. acked \subseteq ToSet(r.value)
      BY <1>2 DEF AckedInv
    <2>2. \A r2 \in posts' :
             /\ Len(r2.value) <= Len(LatestCid)' + 1
             /\ Supersedes(r2)' => acked' \subseteq ToSet(r2.value)
      BY <1>2, <1>4, <1>6, <1>7 DEF AckedInv
    <2>3. ASSUME NEW p \in Publishers, stage'[p] # "closed"
          PROVE  /\ acked' \subseteq ToSet(lastCid'[p])
                 /\ Len(lastCid'[p]) <= Len(LatestCid)'
                 /\ \A r2 \in posts' : Len(r2.value) <= Len(lastCid'[p]) + 1
                 /\ Working(p)' => Last(building'[p]) = calls'
      <3>1. /\ stage[p] # "closed"
            /\ lastCid'[p] = lastCid[p]
            /\ building'[p] = building[p]
            /\ Working(p)' <=> Working(p)
            /\ Len(lastCid[p]) \in Nat
        BY <1>1, <1>7, <2>3, ChainIsSeq DEF publisherVars, Working, StoreTypeOK
      <3> QED  BY <1>2, <1>3, <1>5, <1>7, <3>1 DEF AckedInv
    <2> QED  BY <1>2, <1>7, <2>1, <2>2, <2>3 DEF AckedInv
  <1>8. ASSUME NEW p \in Publishers, OwnPost(p, r), Acknowledged(p)
        PROVE  AckedInv'
    <2>1. /\ Working(p)
          /\ stage[p] # "closed"
          /\ building[p] = r.value
          /\ stage'[p] = "idle"
          /\ lastCid'[p] = r.value
          /\ acked' = acked \cup {Last(r.value)}
      BY <1>1, <1>8 DEF OwnPost, Acknowledged, Working, StoreTypeOK
    <2>2. /\ Len(r.value) = Len(lastCid[p]) + 1
          /\ Last(r.value) = calls
          /\ ToSet(r.value) = ToSet(lastCid[p]) \cup {Last(r.value)}
          /\ acked \subseteq ToSet(lastCid[p])
      BY <2>1, WhatIsBuilt DEF AckedInv
    <2>3. acked' \subseteq ToSet(r.value)
      BY <2>1, <2>2
    <2>4. ASSUME NEW r2 \in posts
          PROVE  ~Supersedes(r2)'
      <3>1. /\ Len(r2.value) <= Len(r.value)
            /\ WellMade(r2, calls, blocks)
            /\ r2.sequence \in Nat
            /\ r2.entry \in Nat
            /\ Len(r2.value) = r2.sequence + 1
            /\ r2.entry <= calls
        BY <1>1, <2>1, <2>2, W3StoreAssumption
           DEF AckedInv, StoreInv, RecordsInv, WellMade, StoreTypeOK, Records,
               Payloads
      <3>2. r.entry = calls
        BY <1>1, <2>2 DEF WellMade
      <3>3. record' # NoRecord
        BY <1>1, <1>2, W3StoreAssumption
      <3> QED  BY <1>1, <1>2, <3>1, <3>2, <3>3 DEF Supersedes
    <2>5. ASSUME NEW q \in Publishers
          PROVE  /\ acked' \subseteq ToSet(lastCid'[q])
                 /\ Len(lastCid'[q]) <= Len(LatestCid)'
                 /\ \A r2 \in posts' : Len(r2.value) <= Len(lastCid'[q]) + 1
                 /\ ~Working(q)'
      <3>1. q = p
        BY DEF OnePublisher
      <3> QED  BY <1>2, <1>5, <1>6, <2>1, <2>3, <3>1 DEF Working
    <2> QED  BY <1>2, <1>6, <2>3, <2>4, <2>5 DEF AckedInv
  <1> QED  BY <1>7, <1>8 DEF Accept

(* Every step of the publishing half keeps the invariant, where there is   *)
(* one publisher.                                                          *)
LEMMA AckedInvStep ==
    ASSUME StoreInv, AckedInv, StoreNext, OnePublisher
    PROVE  AckedInv'
  BY AckedInvOpen, AckedInvPublish, AckedInvPostName, AckedInvFailures,
     AckedInvAccept, AckedInvRefuse DEF StoreNext

(* So does a step that is none.                                            *)
LEMMA AckedInvStutter ==
    ASSUME AckedInv, UNCHANGED storeVars
    PROVE  AckedInv'
  BY DEF AckedInv, LatestCid, Supersedes, Working, storeVars, publisherVars

-----------------------------------------------------------------------------
(* The CIDs that storeResult was called with.                              *)
Tried == Stored \cup skipped

(* The CID in the block of an entry that is not the first.                 *)
Before(cid) == SubSeq(cid, 1, Len(cid) - 1)

(* Entry d is the one after c, or the first of the list.                   *)
Follows(c, d) == Len(d) > 1 => Before(d) = c

(* A feed hands over one entry after another: the one it waits to store,   *)
(* or the next it sends, follows one that storeResult was called with.     *)
FeedOK(f) ==
    /\ consumer[f] \in {"unused", "starting"} =>
          ~polling[f] /\ todo[f] = <<>>
    /\ consumer[f] # "storing" => last[f] = <<>> \/ last[f] \in Tried
    /\ consumer[f] = "storing" =>
          /\ last[f] = received[f]
          /\ Len(received[f]) > 1 => Before(received[f]) \in Tried
    /\ todo[f] # <<>> => Follows(last[f], todo[f][1])
    /\ \A n \in 1 .. Len(todo[f]) : n < Len(todo[f]) =>
          Follows(todo[f][n], todo[f][n + 1])

(* The invariant of the observer.                                          *)
ObserverInv ==
    /\ TypeOK
    /\ NoGaps
    /\ \A f \in Feeds : FeedOK(f)

(* downloadChainedEntries yields entries that follow each other, the first *)
(* of them the entry it started after.                                     *)
LEMMA ChainedEntriesAre ==
    ASSUME NEW from \in Chains, NEW to \in Chains
    PROVE  LET es == ChainedEntries(from, to)
           IN  /\ es \in Seq(Chains)
               /\ es # <<>> => Follows(from, es[1])
               /\ \A n \in 1 .. Len(es) : n < Len(es) =>
                     Follows(es[n], es[n + 1])
  <1> DEFINE met == IF from # <<>> /\ IsPrefix(from, to)
                    THEN Len(from) ELSE 0
             es == ChainedEntries(from, to)
  <1>1. Len(from) \in Nat /\ Len(to) \in Nat
    BY ChainIsSeq
  <1>2. met \in Nat /\ met <= Len(to)
    BY <1>1 DEF IsPrefix
  <1>3. met # 0 => SubSeq(to, 1, met) = from
    BY <1>1, WholeChain DEF IsPrefix
  <1>4. es = [n \in 1 .. Len(to) - met |-> SubSeq(to, 1, met + n)]
    BY DEF ChainedEntries
  <1> HIDE DEF met, es
  <1>5. \A n \in 1 .. Len(to) - met : met + n \in Nat /\ met + n <= Len(to)
    BY <1>1, <1>2
  <1>6. \A n \in 1 .. Len(to) - met : SubSeq(to, 1, met + n) \in Chains
    BY <1>5, PrefixIsAChain
  <1>7. Len(to) - met \in Nat
    BY <1>1, <1>2
  <1>8. es \in Seq(Chains) /\ Len(es) = Len(to) - met
    <2>1. PICK m \in Nat : m = Len(to) - met
      BY <1>7
    <2>2. es \in [1 .. m -> Chains]
      BY <1>4, <1>6, <2>1
    <2> QED  BY <2>1, <2>2
  <1>9. ASSUME NEW n \in 1 .. Len(es)
        PROVE  /\ Len(es[n]) = met + n
               /\ \A k \in Nat : k <= met + n =>
                     SubSeq(es[n], 1, k) = SubSeq(to, 1, k)
    <2>1. es[n] = SubSeq(to, 1, met + n)
      BY <1>4, <1>8
    <2>2. met + n \in Nat /\ met + n <= Len(to)
      BY <1>5, <1>8
    <2>3. /\ Len(SubSeq(to, 1, met + n)) = met + n
          /\ \A k \in 0 .. met + n :
                SubSeq(SubSeq(to, 1, met + n), 1, k) = SubSeq(to, 1, k)
      BY <2>2, PrefixIsAChain
    <2> QED  BY <2>1, <2>2, <2>3
  <1>10. es # <<>> => Follows(from, es[1])
    <2> SUFFICES ASSUME es # <<>>, Len(es[1]) > 1
                 PROVE  Before(es[1]) = from
      BY DEF Follows
    <2>1. 1 \in 1 .. Len(es)
      BY <1>8
    <2>2. Len(es[1]) = met + 1 /\ SubSeq(es[1], 1, met) = SubSeq(to, 1, met)
      <3>1. /\ Len(es[1]) = met + 1
            /\ \A k \in Nat : k <= met + 1 =>
                  SubSeq(es[1], 1, k) = SubSeq(to, 1, k)
        BY <1>9, <2>1, Zenon
      <3> QED  BY <1>2, <3>1
    <2>3. met # 0 /\ Len(es[1]) - 1 = met
      BY <1>2, <2>2
    <2> QED  BY <1>3, <2>2, <2>3 DEF Before
  <1>11. ASSUME NEW n \in 1 .. Len(es), n < Len(es)
         PROVE  Follows(es[n], es[n + 1])
    <2>1. n + 1 \in 1 .. Len(es) /\ met + n \in Nat
      BY <1>2, <1>7, <1>8, <1>11
    <2>2. /\ Len(es[n + 1]) = met + n + 1
          /\ SubSeq(es[n + 1], 1, met + n) = SubSeq(to, 1, met + n)
      <3>1. /\ Len(es[n + 1]) = met + (n + 1)
            /\ \A k \in Nat : k <= met + (n + 1) =>
                  SubSeq(es[n + 1], 1, k) = SubSeq(to, 1, k)
        BY <1>9, <2>1, Zenon
      <3> QED  BY <1>2, <2>1, <3>1
    <2>3. es[n] = SubSeq(to, 1, met + n)
      BY <1>4, <1>8
    <2>4. Len(es[n + 1]) - 1 = met + n
      BY <1>2, <2>1, <2>2
    <2> QED  BY <2>2, <2>3, <2>4 DEF Follows, Before
  <1> QED  BY <1>8, <1>10, <1>11 DEF es

(* A feed that takes no step keeps its part of the invariant.              *)
LEMMA FeedStays ==
    ASSUME NEW f \in Feeds, FeedOK(f), Tried \subseteq Tried',
           consumer'[f] = consumer[f], received'[f] = received[f],
           polling'[f] = polling[f], last'[f] = last[f], todo'[f] = todo[f]
    PROVE  FeedOK(f)'
  BY DEF FeedOK

(* No goroutine runs and nothing is stored at first.                       *)
LEMMA ObserverInvInit == Init => ObserverInv
  <1> SUFFICES ASSUME Init PROVE ObserverInv
    OBVIOUS
  <1>1. TypeOK
    <2>1. StoreTypeOK
      BY StoreInvInit DEF Init, StoreInv
    <2>2. /\ received \in [Feeds -> Chains]
          /\ last \in [Feeds -> Chains]
          /\ polling \in [Feeds -> BOOLEAN]
      BY NilIsAChain, Zenon DEF Init
    <2>3. <<>> \in Seq(Chains)
      OBVIOUS
    <2>4. todo \in [Feeds -> Seq(Chains)] /\ rows \in Seq(Chains)
      BY <2>3, Zenon DEF Init
    <2>5. consumer \in [Feeds -> {"unused", "starting", "checking",
                                  "selecting", "storing", "returned"}]
      BY DEF Init
    <2>6. /\ flips \in 0 .. MaxTrustFlips
          /\ crashes \in 0 .. MaxCrashes
          /\ trusted \in BOOLEAN
          /\ tracked \in BOOLEAN
          /\ skipped \subseteq Chains
      <3>1. /\ flips = 0 /\ crashes = 0
            /\ trusted = TRUE /\ tracked = FALSE
            /\ skipped = {}
        BY Zenon DEF Init
      <3>2. flips \in 0 .. MaxTrustFlips /\ crashes \in 0 .. MaxCrashes
        BY <3>1, ObserverAssumption
      <3> QED  BY <3>1, <3>2, Zenon
    <2> QED  BY <2>1, <2>2, <2>4, <2>5, <2>6, Zenon DEF TypeOK
  <1>2. Stored = {}
    BY DEF Init, Stored, ToSet
  <1>3. ASSUME NEW f \in Feeds
        PROVE  FeedOK(f)
    BY DEF Init, FeedOK
  <1> QED  BY <1>1, <1>2, <1>3 DEF ObserverInv, NoGaps

(* Steps that leave the rows and the feeds alone keep the invariant.       *)
LEMMA FeedsAsTheyWere ==
    ASSUME ObserverInv, StoreTypeOK', UNCHANGED <<rows, skipped, feedVars>>,
           trusted' \in BOOLEAN, tracked' \in BOOLEAN,
           flips' \in 0 .. MaxTrustFlips, crashes' \in 0 .. MaxCrashes
    PROVE  ObserverInv'
  <1>1. TypeOK'
    BY DEF ObserverInv, TypeOK, feedVars
  <1>2. Stored' = Stored /\ Tried' = Tried
    BY DEF Stored, Tried
  <1>3. ASSUME NEW f \in Feeds
        PROVE  FeedOK(f)'
    BY <1>2, FeedStays DEF feedVars, ObserverInv
  <1> QED  BY <1>1, <1>2, <1>3 DEF ObserverInv, NoGaps

(* A change of trust is such a step.                                       *)
LEMMA ObserverInvFlipTrust ==
    ASSUME StoreInv, ObserverInv, FlipTrust
    PROVE  ObserverInv'
  <1>1. StoreTypeOK'
    BY StoreInvStutter DEF FlipTrust, StoreInv
  <1> QED  BY <1>1, FeedsAsTheyWere, ObserverAssumption
           DEF FlipTrust, ObserverInv, TypeOK

(* A restart forgets the feeds; the rows remain.                           *)
LEMMA ObserverInvCrash ==
    ASSUME StoreInv, ObserverInv, CrashObserver
    PROVE  ObserverInv'
  <1>1. StoreTypeOK'
    BY StoreInvStutter DEF CrashObserver, StoreInv
  <1>2. TypeOK'
    <2>1. /\ received' \in [Feeds -> Chains]
          /\ last' \in [Feeds -> Chains]
          /\ polling' \in [Feeds -> BOOLEAN]
      BY NilIsAChain, Zenon DEF CrashObserver
    <2>2. <<>> \in Seq(Chains)
      OBVIOUS
    <2>3. todo' \in [Feeds -> Seq(Chains)]
      BY <2>2, Zenon DEF CrashObserver
    <2>4. consumer' \in [Feeds -> {"unused", "starting", "checking",
                                   "selecting", "storing", "returned"}]
      BY DEF CrashObserver
    <2>5. /\ flips' \in 0 .. MaxTrustFlips
          /\ crashes' \in 0 .. MaxCrashes
          /\ trusted' \in BOOLEAN
          /\ tracked' \in BOOLEAN
          /\ rows' \in Seq(Chains)
          /\ skipped' \subseteq Chains
      <3>1. /\ crashes < MaxCrashes
            /\ crashes' = crashes + 1
            /\ tracked' = FALSE
            /\ UNCHANGED <<skipped, trusted, flips, rows>>
            /\ TypeOK
        BY Zenon DEF CrashObserver, ObserverInv
      <3>2. crashes' \in 0 .. MaxCrashes
        BY <3>1, ObserverAssumption DEF TypeOK
      <3> QED  BY <3>1, <3>2, Zenon DEF TypeOK
    <2> QED  BY <1>1, <2>1, <2>3, <2>4, <2>5, Zenon DEF TypeOK
  <1>3. Stored' = Stored /\ skipped' = skipped
    BY DEF CrashObserver, Stored
  <1>4. ASSUME NEW f \in Feeds
        PROVE  FeedOK(f)'
    BY DEF CrashObserver, FeedOK
  <1> QED  BY <1>2, <1>3, <1>4 DEF ObserverInv, NoGaps

(* The loop of Start starts a feed that has nothing to send.               *)
LEMMA ObserverInvTrack ==
    ASSUME StoreInv, ObserverInv, TrackTrustees
    PROVE  ObserverInv'
  <1>1. StoreTypeOK'
    BY StoreInvStutter DEF TrackTrustees, StoreInv
  <1>2. CASE UNCHANGED consumer
    BY <1>1, <1>2, FeedsAsTheyWere
       DEF TrackTrustees, ObserverInv, TypeOK, feedVars
  <1>3. ASSUME NEW f \in Feeds, consumer[f] = "unused",
               consumer' = [consumer EXCEPT ![f] = "starting"]
        PROVE  ObserverInv'
    <2>1. TypeOK'
      BY <1>1, <1>3 DEF TrackTrustees, ObserverInv, TypeOK
    <2>2. Stored' = Stored /\ skipped' = skipped /\ Tried' = Tried
      BY DEF TrackTrustees, Stored, Tried
    <2>3. ASSUME NEW g \in Feeds, g # f
          PROVE  FeedOK(g)'
      BY <1>3, <2>2, <2>3, FeedStays DEF TrackTrustees, ObserverInv, TypeOK
    <2>4. consumer'[f] = "starting"
      BY <1>3 DEF ObserverInv, TypeOK
    <2>5. FeedOK(f)'
      BY <1>3, <2>2, <2>4 DEF TrackTrustees, ObserverInv, FeedOK
    <2> QED  BY <2>1, <2>2, <2>3, <2>5 DEF ObserverInv, NoGaps
  <1> QED  BY <1>2, <1>3 DEF TrackTrustees

(* A feed starts from the last row, or from the first entry.               *)
LEMMA ObserverInvStartFeed ==
    ASSUME StoreInv, ObserverInv, NEW f \in Feeds,
           StartFeed(f) \/ StartFeedFails(f) \/ CheckTrust(f)
    PROVE  ObserverInv'
  <1>1. StoreTypeOK'
    BY StoreInvStutter DEF StartFeed, StartFeedFails, CheckTrust, StoreInv
  <1>2. /\ LastCidFromDB \in Chains
        /\ LastCidFromDB = <<>> \/ LastCidFromDB \in Stored
    BY NilIsAChain DEF LastCidFromDB, ObserverInv, TypeOK, Stored, ToSet
  <1>3. /\ Stored' = Stored
        /\ skipped' = skipped
        /\ Tried' = Tried
        /\ UNCHANGED <<trusted, flips, crashes, tracked, rows, received, todo>>
    BY DEF StartFeed, StartFeedFails, CheckTrust, Stored, Tried
  <1>4. TypeOK'
    <2>1. CASE StartFeed(f)
      BY <1>1, <1>2, <2>1 DEF StartFeed, ObserverInv, TypeOK
    <2>2. CASE StartFeedFails(f)
      BY <1>1, <2>2 DEF StartFeedFails, ObserverInv, TypeOK
    <2>3. CASE CheckTrust(f)
      BY <1>1, <2>3 DEF CheckTrust, ObserverInv, TypeOK
    <2> QED  BY <2>1, <2>2, <2>3
  <1>5. ASSUME NEW g \in Feeds, g # f
        PROVE  FeedOK(g)'
    BY <1>3, <1>5, FeedStays
       DEF StartFeed, StartFeedFails, CheckTrust, ObserverInv, TypeOK
  <1>6. FeedOK(f)'
    <2>1. CASE StartFeed(f)
      <3>1. /\ consumer[f] = "starting"
            /\ consumer'[f] = "checking"
            /\ last'[f] = LastCidFromDB
        BY <2>1 DEF StartFeed, ObserverInv, TypeOK
      <3>2. todo'[f] = <<>>
        BY <1>3, <3>1 DEF ObserverInv, FeedOK
      <3> QED  BY <1>2, <1>3, <3>1, <3>2 DEF FeedOK, Tried
    <2>2. CASE StartFeedFails(f) \/ CheckTrust(f)
      <3>1. /\ consumer[f] \notin {"storing", "returned"}
            /\ consumer'[f] \in {"selecting", "returned"}
            /\ last'[f] = last[f]
        BY <2>2 DEF StartFeedFails, CheckTrust, ObserverInv, TypeOK
      <3> QED  BY <1>3, <3>1 DEF ObserverInv, FeedOK
    <2> QED  BY <2>1, <2>2
  <1> QED  BY <1>3, <1>4, <1>5, <1>6 DEF ObserverInv, NoGaps

(* What a poll downloads follows the last entry handed over.               *)
LEMMA ObserverInvPoll ==
    ASSUME StoreInv, ObserverInv, NEW f \in Feeds, Poll(f)
    PROVE  ObserverInv'
  <1> DEFINE es == ChainedEntries(last[f], LatestCid)
  <1>1. StoreTypeOK'
    BY StoreInvStutter DEF Poll, StoreInv
  <1>2. last[f] \in Chains /\ LatestCid \in Chains
    BY LatestCidIsAChain DEF ObserverInv, TypeOK
  <1>3. /\ es \in Seq(Chains)
        /\ es # <<>> => Follows(last[f], es[1])
        /\ \A n \in 1 .. Len(es) : n < Len(es) => Follows(es[n], es[n + 1])
    BY <1>2, ChainedEntriesAre
  <1> HIDE DEF es
  <1>4. /\ todo' = [todo EXCEPT ![f] = es]
        /\ UNCHANGED <<trusted, flips, crashes, tracked, rows, skipped,
                       consumer, received, polling, last>>
        /\ polling[f]
    BY DEF Poll, es
  <1>5. TypeOK'
    BY <1>1, <1>3, <1>4 DEF ObserverInv, TypeOK
  <1>6. Stored' = Stored /\ Tried' = Tried
    BY <1>4 DEF Stored, Tried
  <1>7. ASSUME NEW g \in Feeds, g # f
        PROVE  FeedOK(g)'
    BY <1>4, <1>6, <1>7, FeedStays DEF ObserverInv, TypeOK
  <1>8. todo'[f] = es
    BY <1>4 DEF ObserverInv, TypeOK
  <1>9. FeedOK(f)'
    BY <1>3, <1>4, <1>6, <1>8 DEF ObserverInv, FeedOK
  <1> QED  BY <1>4, <1>5, <1>6, <1>7, <1>9 DEF ObserverInv, NoGaps

(* A row that is appended is added to what is stored.                      *)
LEMMA RowsAppended ==
    ASSUME NEW s \in Seq(Chains), NEW c \in Chains
    PROVE  ToSet(Append(s, c)) = ToSet(s) \cup {c}
  <1>1. /\ DOMAIN s = 1 .. Len(s)
        /\ DOMAIN Append(s, c) = 1 .. Len(s) + 1
        /\ \A k \in 1 .. Len(s) : Append(s, c)[k] = s[k]
        /\ Append(s, c)[Len(s) + 1] = c
    OBVIOUS
  <1>2. 1 .. Len(s) + 1 = (1 .. Len(s)) \cup {Len(s) + 1}
    OBVIOUS
  <1> QED  BY <1>1, <1>2, Zenon DEF ToSet

(* The entry handed over follows one that was stored or tried.             *)
LEMMA ObserverInvHandOver ==
    ASSUME StoreInv, ObserverInv, NEW f \in Feeds, HandOver(f)
    PROVE  ObserverInv'
  <1>1. StoreTypeOK'
    BY StoreInvStutter DEF HandOver, StoreInv
  <1>2. /\ todo[f] \in Seq(Chains)
        /\ todo[f] # <<>>
        /\ consumer[f] = "selecting"
        /\ FeedOK(f)
        /\ UNCHANGED <<trusted, flips, crashes, tracked, rows, skipped,
                       polling>>
    BY DEF HandOver, ObserverInv, TypeOK
  <1>3. PICK m \in Nat : Len(todo[f]) = m + 1
    BY <1>2
  <1>4. /\ todo[f][1] \in Chains
        /\ Tail(todo[f]) \in Seq(Chains)
        /\ Len(Tail(todo[f])) = m
        /\ \A n \in 1 .. m : Tail(todo[f])[n] = todo[f][n + 1]
    BY <1>2, <1>3
  <1>5. /\ received' = [received EXCEPT ![f] = todo[f][1]]
        /\ last' = [last EXCEPT ![f] = todo[f][1]]
        /\ todo' = [todo EXCEPT ![f] = Tail(todo[f])]
        /\ consumer' = [consumer EXCEPT ![f] = "storing"]
    BY DEF HandOver
  <1>6. TypeOK'
    BY <1>1, <1>2, <1>4, <1>5 DEF ObserverInv, TypeOK
  <1>7. Stored' = Stored /\ Tried' = Tried
    BY <1>2 DEF Stored, Tried
  <1>8. ASSUME NEW g \in Feeds, g # f
        PROVE  FeedOK(g)'
    BY <1>2, <1>5, <1>7, <1>8, FeedStays DEF ObserverInv, TypeOK
  <1>9. FeedOK(f)'
    <2>1. /\ consumer'[f] = "storing"
          /\ received'[f] = todo[f][1]
          /\ last'[f] = todo[f][1]
          /\ todo'[f] = Tail(todo[f])
      BY <1>5 DEF ObserverInv, TypeOK
    <2>2. Len(todo[f][1]) > 1 => Before(todo[f][1]) \in Tried
      <3> SUFFICES ASSUME Len(todo[f][1]) > 1
                   PROVE  Before(todo[f][1]) \in Tried
        OBVIOUS
      <3>1. Before(todo[f][1]) = last[f]
        BY <1>2 DEF FeedOK, Follows
      <3>2. Len(Before(todo[f][1])) = Len(todo[f][1]) - 1
        BY <1>4, ChainIsSeq, PrefixIsAChain DEF Before
      <3>3. last[f] # <<>>
        BY <1>4, <3>1, <3>2, NilIsAChain, ChainIsSeq
      <3> QED  BY <1>2, <3>1, <3>3 DEF FeedOK
    <2>3. ASSUME NEW n \in 1 .. m, n < m
          PROVE  Follows(Tail(todo[f])[n], Tail(todo[f])[n + 1])
      <3>1. n + 1 \in 1 .. Len(todo[f]) /\ n + 1 < Len(todo[f])
        BY <1>3, <2>3
      <3>2. Follows(todo[f][n + 1], todo[f][(n + 1) + 1])
        BY <1>2, <3>1 DEF FeedOK
      <3>3. n + 1 \in 1 .. m
        BY <2>3
      <3> QED  BY <1>4, <3>2, <3>3
    <2>4. ASSUME Tail(todo[f]) # <<>>
          PROVE  Follows(todo[f][1], Tail(todo[f])[1])
      <3>1. 1 \in 1 .. m /\ 1 \in 1 .. Len(todo[f]) /\ 1 < Len(todo[f])
        BY <1>3, <1>4, <2>4
      <3>2. Follows(todo[f][1], todo[f][1 + 1])
        BY <1>2, <3>1 DEF FeedOK
      <3> QED  BY <1>4, <3>1, <3>2
    <2> QED  BY <1>4, <1>7, <2>1, <2>2, <2>3, <2>4 DEF FeedOK
  <1> QED  BY <1>2, <1>6, <1>7, <1>8, <1>9 DEF ObserverInv, NoGaps

(* The entry before the one that is stored was stored or tried.            *)
LEMMA ObserverInvStoreResult ==
    ASSUME StoreInv, ObserverInv, NEW f \in Feeds,
           StoreResult(f) \/ StoreResultFails(f)
    PROVE  ObserverInv'
  <1>1. StoreTypeOK'
    BY StoreInvStutter DEF StoreResult, StoreResultFails, StoreInv
  <1>2. /\ received[f] \in Chains
        /\ rows \in Seq(Chains)
        /\ skipped \subseteq Chains
        /\ consumer[f] = "storing"
        /\ consumer' = [consumer EXCEPT ![f] = "checking"]
        /\ received' = [received EXCEPT ![f] = <<>>]
        /\ UNCHANGED <<trusted, flips, crashes, tracked, polling, last, todo>>
    BY DEF StoreResult, StoreResultFails, ObserverInv, TypeOK
  <1>3. /\ rows' \in Seq(Chains)
        /\ skipped' \subseteq Chains
        /\ Stored \subseteq Stored'
        /\ skipped \subseteq skipped'
        /\ Stored' \subseteq Stored \cup {received[f]}
        /\ received[f] \in Stored' \cup skipped'
    <2>1. CASE StoreResult(f)
      <3>1. rows' = Append(rows, received[f]) /\ skipped' = skipped
        BY <2>1 DEF StoreResult
      <3>2. Stored' = Stored \cup {received[f]}
        BY <1>2, <3>1, RowsAppended DEF Stored
      <3> QED  BY <1>2, <3>1, <3>2
    <2>2. CASE StoreResultFails(f)
      BY <1>2, <2>2 DEF StoreResultFails, Stored
    <2> QED  BY <2>1, <2>2
  <1>4. TypeOK'
    BY <1>1, <1>2, <1>3, NilIsAChain DEF ObserverInv, TypeOK
  <1>5. Tried \subseteq Tried'
    BY <1>3 DEF Tried
  <1>6. NoGaps'
    <2> SUFFICES ASSUME NEW cid \in Stored', Len(cid) > 1
                 PROVE  Before(cid) \in Stored' \cup skipped'
      BY DEF NoGaps, Before
    <2>1. CASE cid \in Stored
      BY <1>3, <2>1 DEF ObserverInv, NoGaps, Before
    <2>2. CASE cid = received[f]
      BY <1>2, <1>3, <2>2 DEF ObserverInv, FeedOK, Tried
    <2> QED  BY <1>3, <2>1, <2>2
  <1>7. ASSUME NEW g \in Feeds, g # f
        PROVE  FeedOK(g)'
    BY <1>2, <1>5, <1>7, FeedStays DEF ObserverInv, TypeOK
  <1>8. consumer'[f] = "checking" /\ last[f] = received[f]
    BY <1>2 DEF ObserverInv, TypeOK, FeedOK
  <1>9. FeedOK(f)'
    BY <1>2, <1>3, <1>8 DEF ObserverInv, FeedOK, Tried
  <1> QED  BY <1>4, <1>6, <1>7, <1>9 DEF ObserverInv

(* Every step keeps both invariants.                                       *)
LEMMA ObserverInvStep ==
    ASSUME StoreInv, ObserverInv, [Next]_vars
    PROVE  StoreInv' /\ ObserverInv'
  <1>1. CASE StoreNext /\ UNCHANGED observerVars
    <2>1. StoreInv'
      BY <1>1, StoreInvStep
    <2> QED  BY <1>1, <2>1, FeedsAsTheyWere
             DEF observerVars, StoreInv, ObserverInv, TypeOK
  <1>2. CASE UNCHANGED vars
    <2>1. StoreInv'
      BY <1>2, StoreInvStutter DEF vars
    <2> QED  BY <1>2, <2>1, FeedsAsTheyWere
             DEF vars, observerVars, StoreInv, ObserverInv, TypeOK
  <1>3. ASSUME FlipTrust \/ TrackTrustees \/ CrashObserver \/
               \E f \in Feeds : Feed(f)
        PROVE  StoreInv' /\ ObserverInv'
    <2>1. UNCHANGED storeVars
      BY <1>3 DEF FlipTrust, TrackTrustees, CrashObserver, Feed, StartFeed,
                  StartFeedFails, CheckTrust, Poll, HandOver, StoreResult,
                  StoreResultFails
    <2>2. StoreInv'
      BY <2>1, StoreInvStutter
    <2> QED  BY <1>3, <2>2, ObserverInvFlipTrust, ObserverInvTrack,
                ObserverInvCrash, ObserverInvStartFeed, ObserverInvPoll,
                ObserverInvHandOver, ObserverInvStoreResult DEF Feed
  <1> QED  BY <1>1, <1>2, <1>3 DEF Next

(* The list of a well made record can be walked.                           *)
LEMMA WalkableList == StoreInv => NameIsWalkable
  BY NilIsAChain DEF StoreInv, RecordsInv, WellMade, Walkable, NameIsWalkable,
                     LatestCid

(* The invariants of the publishing half and of the observer hold          *)
(* throughout, for any number of publishers and feeds, and whatever fails. *)
THEOREM ObserverCorrect == Spec => [](StoreInv /\ ObserverInv)
  <1>1. Init => StoreInv /\ ObserverInv
    BY StoreInvInit, ObserverInvInit DEF Init
  <1>2. StoreInv /\ ObserverInv /\ [Next]_vars => StoreInv' /\ ObserverInv'
    BY ObserverInvStep
  <1> QED  BY <1>1, <1>2, PTL DEF Spec

(* Every variable stays in its type; so no sequence number is above the    *)
(* number of calls.                                                        *)
THEOREM ObserverTypeCorrect == Spec => []TypeOK
  BY ObserverCorrect, PTL DEF ObserverInv

(* The name never points at, or past, a block that was not uploaded,       *)
(* however many processes publish under it.                                *)
THEOREM NameIsWalkableAlways == Spec => []NameIsWalkable
  BY ObserverCorrect, WalkableList, PTL

(* The observer leaves out only what it could not store, whatever restarts *)
(* and however often the peer's trust changes.                             *)
THEOREM NoGapsAlways == Spec => []NoGaps
  BY ObserverCorrect, PTL DEF ObserverInv

(* With one publisher, no entry whose Publish returned nil is ever dropped *)
(* from the list: not by calls that fail after their effect, by records    *)
(* that arrive late, or by restarts.                                       *)
THEOREM AckedEntriesStayAlways ==
    ASSUME OnePublisher
    PROVE  Spec => []AckedEntriesStay
  <1>1. Init => StoreInv /\ ObserverInv /\ AckedInv
    BY StoreInvInit, ObserverInvInit, AckedInvInit DEF Init
  <1>2. StoreInv /\ ObserverInv /\ AckedInv /\ [Next]_vars
           => StoreInv' /\ ObserverInv' /\ AckedInv'
    <2> SUFFICES ASSUME StoreInv, ObserverInv, AckedInv, [Next]_vars
                 PROVE  AckedInv'
      BY ObserverInvStep
    <2>1. StoreNext \/ UNCHANGED storeVars
      BY DEF Next, vars, FlipTrust, TrackTrustees, CrashObserver, Feed,
             StartFeed, StartFeedFails, CheckTrust, Poll, HandOver,
             StoreResult, StoreResultFails
    <2> QED  BY <2>1, OnePublisher, AckedInvStep, AckedInvStutter
  <1>3. AckedInv => AckedEntriesStay
    BY DEF AckedInv, AckedEntriesStay
  <1> QED  BY <1>1, <1>2, <1>3, PTL DEF Spec

-----------------------------------------------------------------------------
(* The conditions under which the observer copies the list: one publisher, *)
(* which hears of every effect, an observer that stores what it is handed, *)
(* and trust that does not change.                                         *)
NothingIsLost ==
    /\ OnePublisher
    /\ AnswersGetLost = FALSE
    /\ StoringFails = FALSE
    /\ MaxTrustFlips = 0

(* An open publisher remembers the list itself, and a record on its way    *)
(* has a publisher that waits for it.                                      *)
ListInv ==
    /\ \A p \in Publishers : stage[p] # "closed" => lastCid[p] = LatestCid
    /\ \A r \in posts : \E p \in Publishers : OwnPost(p, r)

(* The chain c up to its n-th entry.                                       *)
Upto(c, n) == SubSeq(c, 1, n)

(* A feed stands where the rows end: it has handed over what is stored, or *)
(* that and the entry it is storing, and sends the entries after it.       *)
FeedCopies(f) ==
    /\ consumer[f] # "returned"
    /\ consumer[f] \in {"checking", "selecting"} =>
          last[f] = Upto(LatestCid, Len(rows))
    /\ consumer[f] = "storing" =>
          /\ Len(rows) < Len(LatestCid)
          /\ last[f] = Upto(LatestCid, Len(rows) + 1)
    /\ Len(last[f]) + Len(todo[f]) <= Len(LatestCid)
    /\ \A n \in 1 .. Len(todo[f]) :
          todo[f][n] = Upto(LatestCid, Len(last[f]) + n)

(* The rows are the entries of the list in order, and one feed works at a  *)
(* time.                                                                   *)
CopyInv ==
    /\ trusted = TRUE
    /\ Len(rows) <= Len(LatestCid)
    /\ \A n \in 1 .. Len(rows) : rows[n] = Upto(LatestCid, n)
    /\ ~tracked => \A f \in Feeds : consumer[f] = "unused"
    /\ \A f, g \in Feeds :
          consumer[f] # "unused" /\ consumer[g] # "unused" => f = g
    /\ \A f \in Feeds : FeedCopies(f)

(* Every step of the publishing half keeps ListInv, and leaves the list or *)
(* appends one entry to it.                                                *)
LEMMA ListInvStep ==
    ASSUME StoreInv, ListInv, StoreNext, OnePublisher, AnswersGetLost = FALSE
    PROVE  /\ ListInv'
           /\ \/ LatestCid' = LatestCid
              \/ \E n \in Payloads : /\ LatestCid' = Append(LatestCid, n)
                                     /\ Len(LatestCid) < MaxPublishes
  <1>1. /\ StoreTypeOK
        /\ \A p, q \in Publishers : p = q
    BY DEF StoreInv, OnePublisher
  <1>2. ASSUME NEW p \in Publishers, Open(p)
        PROVE  ListInv' /\ LatestCid' = LatestCid
    <2>1. /\ PublisherOK(p)
          /\ stage[p] = "closed"
          /\ lastCid'[p] = LatestCid
          /\ UNCHANGED <<posts, record, building>>
      BY <1>1, <1>2 DEF StoreInv, StoreTypeOK, PublisherOK, Open, LatestCid
    <2>2. posts = {}
      BY <1>1, <2>1 DEF ListInv, OwnPost
    <2> QED  BY <1>1, <2>1, <2>2 DEF ListInv, LatestCid
  <1>3. ASSUME NEW p \in Publishers, Publish(p)
        PROVE  ListInv' /\ LatestCid' = LatestCid
    <2>1. /\ stage[p] = "idle"
          /\ UNCHANGED <<posts, record, lastCid>>
      BY <1>3 DEF Publish
    <2>2. posts = {}
      BY <1>1, <2>1 DEF ListInv, OwnPost
    <2> QED  BY <1>1, <2>1, <2>2 DEF ListInv, LatestCid
  <1>4. ASSUME NEW p \in Publishers, Upload(p) \/ UploadFails(p)
        PROVE  ListInv' /\ LatestCid' = LatestCid
    <2>1. /\ stage[p] = "uploading"
          /\ UNCHANGED <<posts, record, lastCid>>
      BY <1>4 DEF Upload, UploadFails
    <2>2. posts = {}
      BY <1>1, <2>1 DEF ListInv, OwnPost
    <2> QED  BY <1>1, <2>1, <2>2 DEF ListInv, LatestCid
  <1>5. ASSUME NEW p \in Publishers, PostName(p)
        PROVE  ListInv' /\ LatestCid' = LatestCid
    <2>1. /\ stage[p] = "naming"
          /\ stage'[p] = "waiting"
          /\ posts' = posts \cup {[sequence |-> NextSequence(p),
                                   entry |-> Last(building[p]),
                                   value |-> building[p]]}
          /\ UNCHANGED <<record, lastCid, building>>
      BY <1>1, <1>5 DEF PostName, StoreTypeOK
    <2>2. posts = {}
      BY <1>1, <2>1 DEF ListInv, OwnPost
    <2>3. \A r \in posts' : r.value = building'[p]
      BY <2>1, <2>2
    <2> QED  BY <1>1, <2>1, <2>3 DEF ListInv, LatestCid, OwnPost
  <1>6. ASSUME NEW p \in Publishers, GiveUp(p) \/ Close(p)
        PROVE  ListInv' /\ LatestCid' = LatestCid
    <2>1. /\ posts' = {r \in posts : ~OwnPost(p, r)}
          /\ record' = record
          /\ stage[p] # "closed"
          /\ stage'[p] = "closed" \/ lastCid'[p] = lastCid[p]
      BY <1>1, <1>6 DEF GiveUp, Close, StoreTypeOK
    <2>2. posts' = {}
      BY <1>1, <2>1 DEF ListInv
    <2> QED  BY <1>1, <2>1, <2>2 DEF ListInv, LatestCid
  <1>7. ASSUME NEW r \in posts, Refuse(r)
        PROVE  ListInv' /\ LatestCid' = LatestCid
    BY <1>7 DEF Refuse, ListInv, LatestCid, OwnPost, publisherVars
  <1>8. ASSUME NEW r \in posts, Accept(r)
        PROVE  /\ ListInv'
               /\ \E n \in Payloads : /\ LatestCid' = Append(LatestCid, n)
                                      /\ Len(LatestCid) < MaxPublishes
    <2>1. PICK p \in Publishers : OwnPost(p, r)
      BY DEF ListInv
    <2>2. /\ \E q \in Publishers : OwnPost(q, r) /\ Acknowledged(q)
          /\ record' = r
          /\ posts' = posts \ {r}
      BY <1>8, <2>1 DEF Accept
    <2>3. Acknowledged(p)
      BY <1>1, <2>2
    <2>4. /\ stage[p] = "waiting"
          /\ building[p] = r.value
          /\ PublisherOK(p)
          /\ lastCid'[p] = r.value
          /\ lastCid[p] = LatestCid
          /\ r \in Records
      BY <1>1, <2>1, <2>3
         DEF OwnPost, Acknowledged, ListInv, StoreInv, StoreTypeOK
    <2>5. LatestCid' = r.value
      BY <2>2, <2>4, W3StoreAssumption DEF LatestCid
    <2>6. ASSUME NEW r2 \in posts
          PROVE  r2 = r
      <3>1. r2.value = r.value /\ r2 \in Records
        BY <1>1, <2>4 DEF ListInv, OwnPost, StoreTypeOK
      <3>2. WellMade(r2, calls, blocks) /\ WellMade(r, calls, blocks)
        BY DEF StoreInv, RecordsInv
      <3>3. r.sequence \in Nat /\ r2.sequence \in Nat
        BY <2>4, <3>1 DEF Records
      <3>4. r2.sequence = r.sequence /\ r2.entry = r.entry
        BY <3>1, <3>2, <3>3 DEF WellMade
      <3> QED  BY <2>4, <3>1, <3>4 DEF Records
    <2>7. ListInv'
      BY <1>1, <2>2, <2>4, <2>5, <2>6 DEF ListInv
    <2>8. PICK n \in 1 .. calls : building[p] = Append(lastCid[p], n)
      BY <2>4 DEF PublisherOK, Working
    <2>9. n \in Payloads /\ Len(LatestCid) < MaxPublishes
      BY <1>1, <2>4, LatestCidIsAChain, W3StoreAssumption
         DEF PublisherOK, Working, Payloads, StoreTypeOK
    <2> QED  BY <2>4, <2>5, <2>7, <2>8, <2>9
  <1> QED  BY <1>2, <1>3, <1>4, <1>5, <1>6, <1>7, <1>8 DEF StoreNext

(* The list stays, or one entry is appended.                               *)
Grows ==
    \/ LatestCid' = LatestCid
    \/ \E n \in Payloads : /\ LatestCid' = Append(LatestCid, n)
                           /\ Len(LatestCid) < MaxPublishes

(* A list that grows keeps the entries it has.                             *)
LEMMA PrefixesStay ==
    ASSUME StoreInv, Grows
    PROVE  /\ Len(LatestCid') \in Nat
           /\ Len(LatestCid) <= Len(LatestCid')
           /\ \A n \in 0 .. Len(LatestCid) :
                 Upto(LatestCid', n) = Upto(LatestCid, n)
  <1>1. LatestCid \in Chains /\ Len(LatestCid) \in Nat
    BY LatestCidIsAChain
  <1>2. CASE LatestCid' = LatestCid
    BY <1>1, <1>2 DEF Upto
  <1>3. ASSUME NEW n \in Payloads, LatestCid' = Append(LatestCid, n),
               Len(LatestCid) < MaxPublishes
        PROVE  /\ Len(LatestCid') = Len(LatestCid) + 1
               /\ \A k \in 0 .. Len(LatestCid) :
                     Upto(LatestCid', k) = Upto(LatestCid, k)
    BY <1>1, <1>3, Appended DEF Upto
  <1> QED  BY <1>1, <1>2, <1>3 DEF Grows

(* The first n entries of the list end with its n-th.                      *)
LEMMA UptoIs ==
    ASSUME StoreInv, NEW n \in Nat, n <= Len(LatestCid)
    PROVE  /\ Upto(LatestCid, n) \in Chains
           /\ Len(Upto(LatestCid, n)) = n
           /\ n = 0 => Upto(LatestCid, n) = <<>>
           /\ n > 0 => Last(Upto(LatestCid, n)) = LatestCid[n]
  <1>1. LatestCid \in Chains
    BY LatestCidIsAChain
  <1>2. Upto(LatestCid, n) \in Chains /\ Len(Upto(LatestCid, n)) = n
    BY <1>1, PrefixIsAChain DEF Upto
  <1>3. n = 0 => Upto(LatestCid, n) = <<>>
    BY <1>2, WholeChain
  <1>4. n > 0 => Last(Upto(LatestCid, n)) = LatestCid[n]
    BY <1>1, <1>2, ChainIsSeq DEF Upto, Last
  <1> QED  BY <1>2, <1>3, <1>4

(* An entry among the next m after the k-th is in the list.                *)
LEMMA WithinBounds ==
    ASSUME NEW k \in Nat, NEW m \in Nat, NEW n \in Nat, NEW more \in Nat,
           k + m <= n, n <= more
    PROVE  /\ k + m <= more
           /\ \A i \in 1 .. m : k + i \in 0 .. n
  OBVIOUS

(* A feed that takes no step stands where it stood while the list grows    *)
(* and the rows do not.                                                    *)
LEMMA FeedCopiesStays ==
    ASSUME StoreInv, ObserverInv, NEW f \in Feeds, FeedCopies(f), Grows,
           consumer'[f] = consumer[f], last'[f] = last[f], todo'[f] = todo[f],
           rows' = rows \/ consumer[f] \in {"unused", "starting"},
           Len(rows) <= Len(LatestCid)
    PROVE  FeedCopies(f)'
  <1>1. /\ Len(LatestCid) \in Nat
        /\ Len(LatestCid') \in Nat
        /\ Len(LatestCid) <= Len(LatestCid')
        /\ \A n \in 0 .. Len(LatestCid) :
              Upto(LatestCid', n) = Upto(LatestCid, n)
    BY PrefixesStay, LatestCidIsAChain
  <1>2. Len(last[f]) \in Nat /\ Len(todo[f]) \in Nat /\ Len(rows) \in Nat
    BY ChainIsSeq DEF ObserverInv, TypeOK
  <1>3. \A n \in 1 .. Len(todo[f]) : Len(last[f]) + n \in 0 .. Len(LatestCid)
    <2>1. Len(last[f]) + Len(todo[f]) <= Len(LatestCid)
      BY DEF FeedCopies
    <2> QED  BY <1>1, <1>2, <2>1, WithinBounds, Zenon
  <1>4. consumer'[f] \in {"checking", "selecting"} =>
           last'[f] = Upto(LatestCid', Len(rows'))
    <2>1. Len(rows) \in 0 .. Len(LatestCid)
      BY <1>1, <1>2
    <2> QED  BY <1>1, <2>1 DEF FeedCopies
  <1>5. consumer'[f] = "storing" =>
           /\ Len(rows') < Len(LatestCid')
           /\ last'[f] = Upto(LatestCid', Len(rows') + 1)
    <2> SUFFICES ASSUME consumer'[f] = "storing"
                 PROVE  /\ Len(rows') < Len(LatestCid')
                        /\ last'[f] = Upto(LatestCid', Len(rows') + 1)
      OBVIOUS
    <2>1. /\ Len(rows) < Len(LatestCid)
          /\ last[f] = Upto(LatestCid, Len(rows) + 1)
          /\ rows' = rows
      BY DEF FeedCopies
    <2>2. Len(rows) + 1 \in 0 .. Len(LatestCid)
      BY <1>1, <1>2, <2>1
    <2>3. Upto(LatestCid', Len(rows) + 1) = Upto(LatestCid, Len(rows) + 1)
      BY <1>1, <2>2
    <2> QED  BY <1>1, <1>2, <2>1, <2>3
  <1>6. Len(last'[f]) + Len(todo'[f]) <= Len(LatestCid')
    <2>1. Len(last[f]) + Len(todo[f]) <= Len(LatestCid)
      BY DEF FeedCopies
    <2> QED  BY <1>1, <1>2, <2>1, WithinBounds, Zenon
  <1>7. \A n \in 1 .. Len(todo'[f]) :
           todo'[f][n] = Upto(LatestCid', Len(last'[f]) + n)
    BY <1>1, <1>3 DEF FeedCopies
  <1> QED  BY <1>4, <1>5, <1>6, <1>7 DEF FeedCopies

(* There are no rows at first.                                             *)
LEMMA CopyInvInit == Init => CopyInv
  <1> SUFFICES ASSUME Init PROVE CopyInv
    OBVIOUS
  <1>1. LatestCid = <<>> /\ rows = <<>> /\ trusted = TRUE
    BY DEF Init, StoreInit, LatestCid
  <1>2. ASSUME NEW f \in Feeds
        PROVE  /\ consumer[f] = "unused"
               /\ last[f] = <<>>
               /\ todo[f] = <<>>
    BY DEF Init
  <1>3. /\ Len(rows) <= Len(LatestCid)
        /\ \A n \in 1 .. Len(rows) : rows[n] = Upto(LatestCid, n)
    BY <1>1
  <1>4. ASSUME NEW f \in Feeds
        PROVE  FeedCopies(f)
    <2> DEFINE k == Len(last[f])
               m == Len(todo[f])
               l == Len(LatestCid)
    <2>1. k = 0 /\ m = 0 /\ l = 0
      BY <1>1, <1>2, NilIsAChain, Zenon
    <2> HIDE DEF k, m, l
    <2>2. k + m <= l /\ m = 0
      BY <2>1
    <2>3. /\ Len(last[f]) + Len(todo[f]) <= Len(LatestCid)
          /\ Len(todo[f]) = 0
      BY <2>2, Zenon DEF k, m, l
    <2>4. \A n \in 1 .. Len(todo[f]) : FALSE
      BY <2>3
    <2> QED  BY <1>2, <2>3, <2>4 DEF FeedCopies
  <1> QED  BY <1>1, <1>2, <1>3, <1>4, Zenon DEF CopyInv

(* Steps of the publishing half keep CopyInv.                              *)
LEMMA CopyInvStore ==
    ASSUME StoreInv, ObserverInv, CopyInv, Grows, UNCHANGED observerVars
    PROVE  CopyInv'
  <1>1. /\ UNCHANGED <<trusted, tracked, rows, consumer, last, todo>>
        /\ Len(rows) <= Len(LatestCid)
        /\ Len(rows) \in Nat
        /\ Len(LatestCid) \in Nat
    BY LatestCidIsAChain
       DEF observerVars, feedVars, CopyInv, ObserverInv, TypeOK
  <1>2. \A n \in 0 .. Len(LatestCid) : Upto(LatestCid', n) = Upto(LatestCid, n)
    BY PrefixesStay
  <1>3. Len(rows') <= Len(LatestCid')
    BY <1>1, PrefixesStay
  <1>4. \A n \in 1 .. Len(rows') : rows'[n] = Upto(LatestCid', n)
    BY <1>1, <1>2 DEF CopyInv
  <1>5. ASSUME NEW f \in Feeds
        PROVE  FeedCopies(f)'
    BY <1>1, FeedCopiesStays DEF CopyInv
  <1> QED  BY <1>1, <1>3, <1>4, <1>5 DEF CopyInv

(* The loop starts a feed only where none is, and a restart ends all.      *)
LEMMA CopyInvTrack ==
    ASSUME StoreInv, ObserverInv, CopyInv, TrackTrustees \/ CrashObserver
    PROVE  CopyInv' /\ rows' = rows /\ LatestCid' = LatestCid
  <1>1. UNCHANGED storeVars /\ rows' = rows /\ trusted' = trusted
    BY DEF TrackTrustees, CrashObserver
  <1>2. LatestCid' = LatestCid
    BY <1>1 DEF storeVars, LatestCid
  <1>3. /\ trusted' = TRUE
        /\ Len(rows') <= Len(LatestCid')
        /\ \A n \in 1 .. Len(rows') : rows'[n] = Upto(LatestCid', n)
    BY <1>1, <1>2, Zenon DEF CopyInv
  <1>4. CASE TrackTrustees
    <2>1. /\ tracked = FALSE
          /\ tracked' = TRUE
          /\ UNCHANGED <<received, polling, last, todo>>
      BY <1>4, Zenon DEF TrackTrustees, CopyInv, ObserverInv, TypeOK
    <2>2. PICK f \in Feeds : /\ consumer[f] = "unused"
                             /\ consumer' = [consumer EXCEPT ![f] = "starting"]
      BY <1>4, <2>1, Zenon DEF TrackTrustees, CopyInv
    <2>3. \A g \in Feeds : consumer[g] = "unused"
      BY <2>1, Zenon DEF CopyInv
    <2>4. /\ consumer'[f] = "starting"
          /\ \A g \in Feeds : g # f => consumer'[g] = "unused"
      BY <2>2, <2>3 DEF ObserverInv, TypeOK
    <2>5. ASSUME NEW g \in Feeds
          PROVE  FeedCopies(g)'
      <3>1. FeedCopies(g) /\ consumer'[g] \in {"unused", "starting"}
        BY <2>4 DEF CopyInv
      <3> QED  BY <1>2, <2>1, <3>1 DEF FeedCopies
    <2>6. \A g, h \in Feeds :
             consumer'[g] # "unused" /\ consumer'[h] # "unused" => g = h
      BY <2>4
    <2> QED  BY <1>1, <1>2, <1>3, <2>1, <2>5, <2>6, Zenon DEF CopyInv
  <1>5. CASE CrashObserver
    <2>1. \A f \in Feeds : /\ consumer'[f] = "unused"
                           /\ last'[f] = <<>>
                           /\ todo'[f] = <<>>
      BY <1>5, Zenon DEF CrashObserver
    <2>2. Len(LatestCid) \in Nat
      BY LatestCidIsAChain
    <2>3. ASSUME NEW f \in Feeds
          PROVE  FeedCopies(f)'
      <3> DEFINE k == Len(last'[f])
                 m == Len(todo'[f])
                 n == Len(LatestCid')
      <3>1. k = 0 /\ m = 0 /\ n \in Nat
        BY <1>2, <2>1, <2>2, NilIsAChain, Zenon
      <3> HIDE DEF k, m, n
      <3>2. k + m <= n /\ \A i \in 1 .. m : FALSE
        BY <3>1
      <3>3. /\ Len(last'[f]) + Len(todo'[f]) <= Len(LatestCid')
            /\ \A i \in 1 .. Len(todo'[f]) : FALSE
        BY <3>2, Zenon DEF k, m, n
      <3> QED  BY <2>1, <3>3 DEF FeedCopies
    <2> QED  BY <1>1, <1>2, <1>3, <2>1, <2>3, Zenon DEF CopyInv
  <1> QED  BY <1>1, <1>2, <1>4, <1>5

(* While a feed works no other does.                                       *)
LEMMA OtherFeedsStay ==
    ASSUME StoreInv, ObserverInv, CopyInv, NEW f \in Feeds,
           consumer[f] # "unused", UNCHANGED <<storeVars, trusted, tracked>>,
           \A g \in Feeds : g # f => /\ consumer'[g] = consumer[g]
                                     /\ last'[g] = last[g]
                                     /\ todo'[g] = todo[g]
    PROVE  /\ LatestCid' = LatestCid
           /\ trusted' = TRUE
           /\ tracked' = TRUE
           /\ \A g, h \in Feeds :
                 consumer'[g] # "unused" /\ consumer'[h] # "unused" => g = h
           /\ \A g \in Feeds : g # f => FeedCopies(g)'
  <1>1. LatestCid' = LatestCid
    BY DEF storeVars, LatestCid
  <1>2. trusted' = TRUE /\ tracked' = TRUE
    BY Zenon DEF CopyInv, ObserverInv, TypeOK
  <1>3. \A g \in Feeds : g # f => consumer[g] = "unused"
    BY Zenon DEF CopyInv
  <1>4. Len(rows) <= Len(LatestCid) /\ Grows
    BY <1>1 DEF CopyInv, Grows
  <1>5. ASSUME NEW g \in Feeds, g # f
        PROVE  FeedCopies(g)'
    <2>1. FeedCopies(g)
      BY DEF CopyInv
    <2> QED  BY <1>3, <1>4, <1>5, <2>1, FeedCopiesStays
  <1> QED  BY <1>1, <1>2, <1>3, <1>5

(* downloadChainedEntries from the k-th entry yields all the entries after *)
(* it, in order.                                                           *)
LEMMA EntriesAfter ==
    ASSUME NEW c \in Chains, NEW k \in Nat, k <= Len(c)
    PROVE  LET es == ChainedEntries(Upto(c, k), c)
           IN  /\ Len(es) = Len(c) - k
               /\ \A n \in 1 .. Len(es) : es[n] = Upto(c, k + n)
  <1> DEFINE from == Upto(c, k)
             met == IF from # <<>> /\ IsPrefix(from, c)
                    THEN Len(from) ELSE 0
             es == ChainedEntries(from, c)
  <1>1. /\ Len(c) \in Nat
        /\ from \in Chains
        /\ Len(from) = k
        /\ SubSeq(from, 1, k) = SubSeq(c, 1, k)
    BY ChainIsSeq, PrefixIsAChain DEF Upto
  <1>2. IsPrefix(from, c)
    BY <1>1 DEF IsPrefix
  <1>3. from = <<>> <=> k = 0
    BY <1>1, WholeChain
  <1>4. met = k
    BY <1>1, <1>2, <1>3
  <1>5. es = [n \in 1 .. Len(c) - met |-> SubSeq(c, 1, met + n)]
    BY DEF ChainedEntries
  <1> HIDE DEF es, met, from
  <1>6. PICK m \in Nat : m = Len(c) - k
    BY <1>1
  <1>7. es = [n \in 1 .. m |-> SubSeq(c, 1, k + n)]
    BY <1>4, <1>5, <1>6
  <1>8. Len(es) = m /\ \A n \in 1 .. m : es[n] = SubSeq(c, 1, k + n)
    BY <1>7
  <1> QED  BY <1>6, <1>8 DEF es, from, Upto

(* A feed starts where the rows end.                                       *)
LEMMA CopyInvStartFeed ==
    ASSUME StoreInv, ObserverInv, CopyInv, NEW f \in Feeds,
           StartFeed(f) \/ CheckTrust(f)
    PROVE  CopyInv' /\ rows' = rows /\ LatestCid' = LatestCid
  <1>1. /\ UNCHANGED <<storeVars, trusted, tracked, rows, todo>>
        /\ consumer[f] # "unused"
        /\ \A g \in Feeds : g # f => /\ consumer'[g] = consumer[g]
                                     /\ last'[g] = last[g]
                                     /\ todo'[g] = todo[g]
    BY DEF StartFeed, CheckTrust, ObserverInv, TypeOK
  <1>2. /\ LatestCid' = LatestCid
        /\ trusted' = TRUE
        /\ tracked' = TRUE
        /\ \A g, h \in Feeds :
              consumer'[g] # "unused" /\ consumer'[h] # "unused" => g = h
        /\ \A g \in Feeds : g # f => FeedCopies(g)'
    BY <1>1, OtherFeedsStay
  <1>3. FeedCopies(f) /\ Len(rows) <= Len(LatestCid)
    BY DEF CopyInv
  <1>4. CASE StartFeed(f)
    <2>1. /\ consumer[f] = "starting"
          /\ consumer'[f] = "checking"
          /\ last'[f] = LastCidFromDB
      BY <1>4 DEF StartFeed, ObserverInv, TypeOK
    <2>2. Len(todo'[f]) = 0
      BY <1>1, <2>1 DEF ObserverInv, FeedOK
    <2>3. /\ rows \in Seq(Chains)
          /\ Len(rows) \in Nat
          /\ Len(LatestCid) \in Nat
      BY LatestCidIsAChain DEF ObserverInv, TypeOK
    <2>4. /\ LastCidFromDB = Upto(LatestCid, Len(rows))
          /\ Len(LastCidFromDB) = Len(rows)
      <3>1. CASE rows = <<>>
        BY <2>3, <3>1, UptoIs, NilIsAChain DEF LastCidFromDB
      <3>2. CASE rows # <<>>
        <4>1. Len(rows) \in 1 .. Len(rows)
          BY <2>3, <3>2
        <4>2. rows[Len(rows)] = Upto(LatestCid, Len(rows))
          BY <4>1 DEF CopyInv
        <4> QED  BY <1>3, <2>3, <3>2, <4>2, UptoIs DEF LastCidFromDB
      <3> QED  BY <3>1, <3>2
    <2>5. /\ Len(last'[f]) + Len(todo'[f]) <= Len(LatestCid')
          /\ \A n \in 1 .. Len(todo'[f]) : FALSE
      BY <1>2, <1>3, <2>1, <2>2, <2>3, <2>4
    <2>6. FeedCopies(f)'
      BY <1>1, <1>2, <2>1, <2>4, <2>5 DEF FeedCopies
    <2> QED  BY <1>1, <1>2, <1>3, <2>6, Zenon DEF CopyInv
  <1>5. CASE CheckTrust(f)
    <2>1. /\ consumer[f] = "checking"
          /\ consumer'[f] = "selecting"
          /\ last'[f] = last[f]
      BY <1>5 DEF CheckTrust, CopyInv, ObserverInv, TypeOK
    <2>2. FeedCopies(f)'
      BY <1>1, <1>2, <1>3, <2>1 DEF FeedCopies
    <2> QED  BY <1>1, <1>2, <1>3, <2>2, Zenon DEF CopyInv
  <1> QED  BY <1>1, <1>2, <1>4, <1>5

(* A poll downloads the entries after the last one handed over.            *)
LEMMA CopyInvPoll ==
    ASSUME StoreInv, ObserverInv, CopyInv, NEW f \in Feeds, Poll(f)
    PROVE  CopyInv' /\ rows' = rows /\ LatestCid' = LatestCid
  <1> DEFINE es == ChainedEntries(last[f], LatestCid)
             k == Len(last[f])
  <1>1. /\ UNCHANGED <<storeVars, trusted, tracked, rows, consumer, last>>
        /\ todo'[f] = es
        /\ \A g \in Feeds : g # f => /\ consumer'[g] = consumer[g]
                                     /\ last'[g] = last[g]
                                     /\ todo'[g] = todo[g]
    BY DEF Poll, ObserverInv, TypeOK
  <1>2. /\ consumer[f] \in {"checking", "selecting", "storing"}
        /\ FeedCopies(f)
        /\ Len(rows) <= Len(LatestCid)
        /\ Len(rows) \in Nat
        /\ Len(LatestCid) \in Nat
        /\ LatestCid \in Chains
    BY LatestCidIsAChain
       DEF Poll, ObserverInv, TypeOK, FeedOK, CopyInv, FeedCopies
  <1>3. /\ LatestCid' = LatestCid
        /\ trusted' = TRUE
        /\ tracked' = TRUE
        /\ \A g, h \in Feeds :
              consumer'[g] # "unused" /\ consumer'[h] # "unused" => g = h
        /\ \A g \in Feeds : g # f => FeedCopies(g)'
    BY <1>1, <1>2, OtherFeedsStay
  <1>4. PICK j \in Nat : j <= Len(LatestCid) /\ last[f] = Upto(LatestCid, j)
    BY <1>2 DEF FeedCopies
  <1>5. k = j
    BY <1>4, UptoIs
  <1>6. /\ Len(es) = Len(LatestCid) - k
        /\ \A n \in 1 .. Len(es) : es[n] = Upto(LatestCid, k + n)
    BY <1>2, <1>4, <1>5, EntriesAfter
  <1> HIDE DEF es, k
  <1>7. k + Len(es) <= Len(LatestCid)
    BY <1>2, <1>4, <1>5, <1>6
  <1>8. /\ Len(last'[f]) + Len(todo'[f]) <= Len(LatestCid')
        /\ \A n \in 1 .. Len(todo'[f]) :
              todo'[f][n] = Upto(LatestCid', Len(last'[f]) + n)
    BY <1>1, <1>3, <1>6, <1>7, Zenon DEF k
  <1>9. FeedCopies(f)'
    BY <1>1, <1>2, <1>3, <1>8 DEF FeedCopies
  <1> QED  BY <1>1, <1>2, <1>3, <1>9, Zenon DEF CopyInv

(* The entry handed over is the one after the rows.                        *)
LEMMA CopyInvHandOver ==
    ASSUME StoreInv, ObserverInv, CopyInv, NEW f \in Feeds, HandOver(f)
    PROVE  CopyInv' /\ rows' = rows /\ LatestCid' = LatestCid
  <1>1. /\ UNCHANGED <<storeVars, trusted, tracked, rows>>
        /\ consumer[f] = "selecting"
        /\ consumer'[f] = "storing"
        /\ last'[f] = todo[f][1]
        /\ todo'[f] = Tail(todo[f])
        /\ todo[f] # <<>>
        /\ todo[f] \in Seq(Chains)
        /\ \A g \in Feeds : g # f => /\ consumer'[g] = consumer[g]
                                     /\ last'[g] = last[g]
                                     /\ todo'[g] = todo[g]
    BY DEF HandOver, ObserverInv, TypeOK
  <1>2. /\ FeedCopies(f)
        /\ Len(rows) <= Len(LatestCid)
        /\ Len(rows) \in Nat
        /\ Len(LatestCid) \in Nat
    BY LatestCidIsAChain DEF ObserverInv, TypeOK, CopyInv
  <1>3. /\ LatestCid' = LatestCid
        /\ trusted' = TRUE
        /\ tracked' = TRUE
        /\ \A g, h \in Feeds :
              consumer'[g] # "unused" /\ consumer'[h] # "unused" => g = h
        /\ \A g \in Feeds : g # f => FeedCopies(g)'
    BY <1>1, OtherFeedsStay
  <1>4. last[f] = Upto(LatestCid, Len(rows)) /\ Len(last[f]) = Len(rows)
    BY <1>1, <1>2, UptoIs DEF FeedCopies
  <1>5. PICK m \in Nat : Len(todo[f]) = m + 1
    <2>1. todo[f] \in Seq(Chains) /\ todo[f] # <<>>
      BY <1>1
    <2>2. Len(todo[f]) \in Nat /\ Len(todo[f]) # 0
      BY <2>1
    <2>3. Len(todo[f]) - 1 \in Nat /\ Len(todo[f]) = (Len(todo[f]) - 1) + 1
      BY <2>2
    <2> QED  BY <2>3, Zenon
  <1>6. /\ Len(todo'[f]) = m
        /\ \A n \in 1 .. m : todo'[f][n] = todo[f][n + 1]
    BY <1>1, <1>5
  <1>7. /\ Len(rows) + (m + 1) <= Len(LatestCid)
        /\ \A n \in 1 .. m + 1 : todo[f][n] = Upto(LatestCid, Len(rows) + n)
    BY <1>2, <1>4, <1>5 DEF FeedCopies
  <1>8. /\ Len(rows) + 1 <= Len(LatestCid)
        /\ (Len(rows) + 1) + m <= Len(LatestCid)
        /\ 1 \in 1 .. m + 1
    BY <1>2, <1>7
  <1>9. last'[f] = Upto(LatestCid, Len(rows) + 1)
    BY <1>1, <1>7, <1>8
  <1>10. Len(last'[f]) = Len(rows) + 1
    BY <1>2, <1>8, <1>9, UptoIs
  <1>11. ASSUME NEW n \in 1 .. m
         PROVE  todo'[f][n] = Upto(LatestCid, (Len(rows) + 1) + n)
    <2>1. /\ n + 1 \in 1 .. m + 1
          /\ Len(rows) + (n + 1) = (Len(rows) + 1) + n
      BY <1>2
    <2> QED  BY <1>6, <1>7, <2>1
  <1>12. Len(rows) < Len(LatestCid)
    BY <1>2, <1>8
  <1>13. FeedCopies(f)'
    BY <1>1, <1>3, <1>6, <1>8, <1>9, <1>10, <1>11, <1>12 DEF FeedCopies
  <1> QED  BY <1>1, <1>2, <1>3, <1>13, Zenon DEF CopyInv

(* The row that is stored is the next entry of the list.                   *)
LEMMA CopyInvStoreResult ==
    ASSUME StoreInv, ObserverInv, CopyInv, NEW f \in Feeds, StoreResult(f)
    PROVE  /\ CopyInv'
           /\ LatestCid' = LatestCid
           /\ Len(rows) < Len(LatestCid)
           /\ rows' = Append(rows, Upto(LatestCid, Len(rows) + 1))
  <1>1. /\ UNCHANGED <<storeVars, trusted, tracked, last, todo>>
        /\ consumer[f] = "storing"
        /\ consumer'[f] = "checking"
        /\ rows' = Append(rows, received[f])
        /\ \A g \in Feeds : g # f => consumer'[g] = consumer[g]
    BY DEF StoreResult, ObserverInv, TypeOK
  <1>2. /\ FeedCopies(f)
        /\ last[f] = received[f]
        /\ rows \in Seq(Chains)
        /\ Len(rows) \in Nat
        /\ Len(LatestCid) \in Nat
    BY <1>1, LatestCidIsAChain DEF ObserverInv, TypeOK, FeedOK, CopyInv
  <1>3. /\ LatestCid' = LatestCid
        /\ trusted' = TRUE
        /\ tracked' = TRUE
        /\ \A g, h \in Feeds :
              consumer'[g] # "unused" /\ consumer'[h] # "unused" => g = h
        /\ \A g \in Feeds : g # f => FeedCopies(g)'
    BY <1>1, OtherFeedsStay
  <1>4. /\ Len(rows) < Len(LatestCid)
        /\ received[f] = Upto(LatestCid, Len(rows) + 1)
        /\ last'[f] = Upto(LatestCid, Len(rows) + 1)
    BY <1>1, <1>2 DEF FeedCopies
  <1>5. Upto(LatestCid, Len(rows) + 1) \in Chains
    BY <1>2, <1>4, UptoIs
  <1>6. /\ Len(rows') = Len(rows) + 1
        /\ rows'[Len(rows) + 1] = Upto(LatestCid, Len(rows) + 1)
        /\ \A n \in 1 .. Len(rows) : rows'[n] = rows[n]
    BY <1>1, <1>2, <1>4, <1>5
  <1>7. Len(rows') <= Len(LatestCid')
    BY <1>2, <1>3, <1>4, <1>6
  <1>8. ASSUME NEW n \in 1 .. Len(rows')
        PROVE  rows'[n] = Upto(LatestCid', n)
    <2>1. CASE n = Len(rows) + 1
      BY <1>3, <1>6, <2>1
    <2>2. CASE n \in 1 .. Len(rows)
      BY <1>3, <1>6, <2>2 DEF CopyInv
    <2> QED  BY <1>2, <1>6, <2>1, <2>2
  <1>9. FeedCopies(f)'
    BY <1>1, <1>2, <1>3, <1>4, <1>6 DEF FeedCopies
  <1>10. CopyInv'
    BY <1>3, <1>7, <1>8, <1>9, Zenon DEF CopyInv
  <1> QED  BY <1>1, <1>3, <1>4, <1>10

(* Every step keeps CopyInv, and either appends the next entry of the list *)
(* to the rows, or leaves the rows and lets the list grow.                 *)
LEMMA CopyInvStep ==
    ASSUME StoreInv, ObserverInv, ListInv, CopyInv, NothingIsLost, [Next]_vars
    PROVE  /\ ListInv' /\ CopyInv'
           /\ \/ /\ rows' = rows
                 /\ Grows
              \/ /\ LatestCid' = LatestCid
                 /\ Len(rows) < Len(LatestCid)
                 /\ rows' = Append(rows, Upto(LatestCid, Len(rows) + 1))
  <1>1. CASE StoreNext /\ UNCHANGED observerVars
    <2>1. ListInv' /\ Grows
      BY <1>1, ListInvStep, Zenon DEF NothingIsLost, Grows
    <2> QED  BY <1>1, <2>1, CopyInvStore DEF observerVars
  <1>2. CASE UNCHANGED vars
    <2>1. LatestCid' = LatestCid /\ UNCHANGED observerVars
      BY <1>2 DEF vars, storeVars, LatestCid
    <2>2. ListInv'
      BY <1>2 DEF vars, storeVars, publisherVars, ListInv, OwnPost, LatestCid
    <2> QED  BY <2>1, <2>2, CopyInvStore DEF Grows, observerVars
  <1>3. ASSUME FlipTrust \/ TrackTrustees \/ CrashObserver \/
               \E f \in Feeds : Feed(f)
        PROVE  /\ ListInv' /\ CopyInv'
               /\ \/ /\ rows' = rows
                     /\ Grows
                  \/ /\ LatestCid' = LatestCid
                     /\ Len(rows) < Len(LatestCid)
                     /\ rows' = Append(rows, Upto(LatestCid, Len(rows) + 1))
    <2>1. UNCHANGED storeVars
      BY <1>3 DEF FlipTrust, TrackTrustees, CrashObserver, Feed, StartFeed,
                  StartFeedFails, CheckTrust, Poll, HandOver, StoreResult,
                  StoreResultFails
    <2>2. ListInv'
      BY <2>1 DEF storeVars, publisherVars, ListInv, OwnPost, LatestCid
    <2>3. ~FlipTrust
      BY DEF FlipTrust, NothingIsLost, ObserverInv, TypeOK
    <2>4. \A f \in Feeds : ~StartFeedFails(f) /\ ~StoreResultFails(f)
      BY DEF StartFeedFails, StoreResultFails, NothingIsLost
    <2>5. CASE TrackTrustees \/ CrashObserver
      BY <2>2, <2>5, CopyInvTrack DEF Grows
    <2>6. ASSUME NEW f \in Feeds, StoreResult(f)
          PROVE  /\ CopyInv'
                 /\ LatestCid' = LatestCid
                 /\ Len(rows) < Len(LatestCid)
                 /\ rows' = Append(rows, Upto(LatestCid, Len(rows) + 1))
      BY <2>6, CopyInvStoreResult
    <2>7. ASSUME NEW f \in Feeds,
                 StartFeed(f) \/ CheckTrust(f) \/ Poll(f) \/ HandOver(f)
          PROVE  CopyInv' /\ rows' = rows /\ LatestCid' = LatestCid
      BY <2>7, CopyInvStartFeed, CopyInvPoll, CopyInvHandOver
    <2> QED  BY <1>3, <2>2, <2>3, <2>4, <2>5, <2>6, <2>7 DEF Feed, Grows
  <1> QED  BY <1>1, <1>2, <1>3 DEF Next

(* Observer implements LogCopy: where nothing is lost, the rows are a copy *)
(* of the list made one entry at a time, in order and without repeats,     *)
(* through crashes of either side, for any number of calls, restarts and   *)
(* feeds.                                                                  *)
THEOREM ReplicatesTheListAlways ==
    ASSUME NothingIsLost
    PROVE  Spec => ReplicatesTheList
  <1> DEFINE copy == [n \in 1 .. Len(rows) |-> Last(rows[n])]
             IInv == StoreInv /\ ObserverInv /\ ListInv /\ CopyInv
  <1>1. Init => IInv
    <2>1. Init => ListInv
      BY DEF Init, StoreInit, ListInv
    <2> QED  BY <2>1, StoreInvInit, ObserverInvInit, CopyInvInit DEF Init
  <1>2. IInv /\ [Next]_vars => IInv'
    BY NothingIsLost, ObserverInvStep, CopyInvStep
  <1>3. Init => Replica!Init
    BY DEF Init, StoreInit, LatestCid, Replica!Init
  <1>4. IInv /\ [Next]_vars => [Replica!Next]_Replica!vars
    <2> SUFFICES ASSUME IInv, [Next]_vars
                 PROVE  [Replica!Next]_Replica!vars
      OBVIOUS
    <2>1. CASE rows' = rows /\ Grows
      BY <2>1 DEF Grows, Replica!Next, Replica!Extend, Replica!vars
    <2>2. CASE /\ LatestCid' = LatestCid
               /\ Len(rows) < Len(LatestCid)
               /\ rows' = Append(rows, Upto(LatestCid, Len(rows) + 1))
      <3>1. rows \in Seq(Chains) /\ Len(rows) \in Nat
        BY DEF ObserverInv, TypeOK
      <3>2. /\ Len(copy) = Len(rows)
            /\ Last(Upto(LatestCid, Len(rows) + 1)) = LatestCid[Len(rows) + 1]
            /\ Upto(LatestCid, Len(rows) + 1) \in Chains
        BY <2>2, <3>1, UptoIs, LatestCidIsAChain
      <3>3. copy' = Append(copy, LatestCid[Len(copy) + 1])
        BY <2>2, <3>1, <3>2
      <3> QED  BY <2>2, <3>2, <3>3 DEF Replica!Next, Replica!Copy
    <2> QED  BY <2>1, <2>2, NothingIsLost, CopyInvStep
  <1> QED  BY <1>1, <1>2, <1>3, <1>4, PTL
           DEF Spec, ReplicatesTheList, Replica!Spec
=============================================================================
