---------------------------- MODULE AuditorProofs ----------------------------
(***************************************************************************)
(* Proofs about module Auditor, for every number of auditors, tasks and    *)
(* bids: what holds on any topic, that the auditors implement the election *)
(* of TaskElection, and what holds only on a timely topic.                 *)
(***************************************************************************)
EXTENDS Auditor, WellFoundedInduction, TLAPS

-----------------------------------------------------------------------------
(* Types                                                                   *)

\* A listener in the middle of handling a message knows which one.
BusyListenerHasMessage ==
    \A a \in Auditors :
        listener[a] \in {"recording", "bidding"} => current[a] # NoMessage

(* The variables of the auditors keep to their types in every step.        *)
LEMMA TypeInductive ==
    TypeOK /\ BusyListenerHasMessage /\ [Next]_vars => TypeOK'
<1> SUFFICES ASSUME TypeOK, BusyListenerHasMessage, [Next]_vars PROVE TypeOK'
  OBVIOUS
<1> USE AuditorAssumption, NoMessageAssumption
<1>1. ASSUME NEW t \in Tasks, NEW d \in Trustors, DispatchTask(d, t)
      PROVE  TypeOK'
  BY <1>1 DEF DispatchTask, TypeOK, env, Broadcast, Messages, Peers
<1>2. ASSUME NEW t \in Tasks, NEW p \in Outsiders, StrayMessage(p, t)
      PROVE  TypeOK'
  BY <1>2 DEF StrayMessage, TypeOK, env, Broadcast, Messages, Peers
<1>3. ASSUME NEW a \in Auditors, NEW m \in inbox[a], LoseMessage(a, m)
      PROVE  TypeOK'
  BY <1>3 DEF LoseMessage, TypeOK, env
<1>4. ASSUME NEW a \in Auditors, NEW m \in inbox[a], RejectUntrusted(a, m)
      PROVE  TypeOK'
  BY <1>4 DEF RejectUntrusted, Takes, TypeOK, env
<1>5. ASSUME NEW a \in Auditors, NEW m \in inbox[a], ReceiveBidding(a, m)
      PROVE  TypeOK'
  <2>1. m \in Messages
    BY <1>5 DEF TypeOK
  <2>2. inbox' \in [Auditors -> SUBSET Messages]
    BY <1>5 DEF ReceiveBidding, Takes, TypeOK
  <2>3. /\ listener' \in
             [Auditors -> {"next", "recording", "bidding", "returned"}]
        /\ current' \in [Auditors -> Messages \cup {NoMessage}]
    <3>1. CASE bidding[a][m.task] = NoEntry
      BY <1>5, <3>1 DEF ReceiveBidding, TypeOK
    <3>2. CASE bidding[a][m.task] # NoEntry
      <4>1. /\ listener' = [listener EXCEPT ![a] = "recording"]
            /\ current' = [current EXCEPT ![a] = m]
        BY <1>5, <3>2 DEF ReceiveBidding
      <4> QED
        BY <2>1, <4>1 DEF TypeOK
    <3> QED
      BY <3>1, <3>2
  <2> QED
    BY <1>5, <2>2, <2>3 DEF ReceiveBidding, TypeOK, env
<1>6. ASSUME NEW a \in Auditors, NEW m \in inbox[a], IgnoreTask(a, m)
      PROVE  TypeOK'
  BY <1>6 DEF IgnoreTask, Takes, TypeOK, env
<1>7. ASSUME NEW a \in Auditors, NEW m \in inbox[a], ReceiveTask(a, m)
      PROVE  TypeOK'
  BY <1>7 DEF ReceiveTask, FirstEntry, Takes, TypeOK, env, Messages
<1>8. ASSUME NEW a \in Auditors, RecordBidding(a)
      PROVE  TypeOK'
  <2> DEFINE m == current[a]
             f == [bidding[a][m.task] EXCEPT ![m.from] = m.value]
  <2>1. m \in Messages
    BY <1>8 DEF TypeOK, RecordBidding, BusyListenerHasMessage
  <2>2. f \in [Auditors -> Bids \cup {NoBid}]
    <3>1. m.task \in Tasks /\ m.value \in Bids \cup {NoBid}
      BY <2>1 DEF Messages
    <3>2. bidding[a][m.task] \in [Auditors -> Bids \cup {NoBid}] \cup {NoEntry}
      BY <3>1 DEF TypeOK
    <3>3. bidding[a][m.task] # NoEntry
      BY <1>8 DEF RecordBidding
    <3> HIDE DEF m
    <3> QED
      BY <3>1, <3>2, <3>3
  <2>3. bidding' = [bidding EXCEPT ![a] = [@ EXCEPT ![m.task] = f]]
    BY <1>8 DEF RecordBidding
  <2>4. bidding' \in [Auditors ->
            [Tasks -> [Auditors -> Bids \cup {NoBid}] \cup {NoEntry}]]
    BY <2>2, <2>3 DEF TypeOK
  <2>5. /\ listener' \in
             [Auditors -> {"next", "recording", "bidding", "returned"}]
        /\ current' \in [Auditors -> Messages \cup {NoMessage}]
    BY <1>8 DEF RecordBidding, TypeOK
  <2> QED
    BY <1>8, <2>4, <2>5 DEF RecordBidding, TypeOK, env
<1>9. ASSUME NEW a \in Auditors, Dies(a)
      PROVE  /\ up' \subseteq Auditors
             /\ inbox' \in [Auditors -> SUBSET Messages]
             /\ listener' \in
                  [Auditors -> {"next", "recording", "bidding", "returned"}]
             /\ current' \in [Auditors -> Messages \cup {NoMessage}]
             /\ bidding' \in [Auditors ->
                  [Tasks -> [Auditors -> Bids \cup {NoBid}] \cup {NoEntry}]]
             /\ goroutine' \in [Auditors -> [Tasks -> Stages]]
  BY <1>9 DEF Dies, TypeOK, Stages, Finished
<1>10. ASSUME NEW a \in Auditors, RecordPanics(a)
       PROVE  TypeOK'
  BY <1>9, <1>10 DEF RecordPanics, TypeOK
<1>11. ASSUME NEW a \in Auditors, PublishBidding(a)
       PROVE  TypeOK'
  <2> DEFINE t == current[a].task
             m == [kind |-> "bidding", from |-> a, task |-> t,
                   value |-> offered[a][t]]
  <2>1. t \in Tasks
    BY <1>11 DEF PublishBidding, BusyListenerHasMessage, TypeOK, Messages
  <2>2. m \in Messages
    BY <2>1 DEF TypeOK, Messages, Peers
  <2>3. inbox' \in [Auditors -> SUBSET Messages]
    <3>1. inbox' = Broadcast(inbox, m)
      BY <1>11 DEF PublishBidding
    <3> QED
      BY <2>2, <3>1 DEF Broadcast, TypeOK
  <2>4. goroutine' \in [Auditors -> [Tasks -> Stages]]
    BY <1>11, <2>1 DEF PublishBidding, TypeOK, Stages
  <2> QED
    BY <1>11, <2>3, <2>4 DEF PublishBidding, TypeOK, env
<1>12. ASSUME NEW a \in Auditors, PublishBiddingFails(a)
       PROVE  TypeOK'
  BY <1>12 DEF PublishBiddingFails, TypeOK, env
<1>13. ASSUME NEW a \in Auditors, RefreshTrustees(a)
       PROVE  TypeOK'
  BY <1>13 DEF RefreshTrustees, TypeOK
<1>14. ASSUME NEW a \in Auditors, Crash(a)
       PROVE  TypeOK'
  BY <1>9, <1>14 DEF Crash, TypeOK
<1>15. ASSUME NEW a \in Auditors, Restart(a)
       PROVE  TypeOK'
  BY <1>15 DEF Restart, TypeOK
<1>16. ASSUME NEW a \in Auditors, NEW t \in Tasks, TaskGoroutine(a, t)
       PROVE  TypeOK'
  <2>1. CASE CompareBids(a, t)
    BY <2>1 DEF CompareBids, TypeOK, env, Stages
  <2>2. CASE CloseBidding(a, t)
    BY <2>2 DEF CloseBidding, TypeOK, env, Stages, Finished
  <2>3. CASE Validate(a, t)
    BY <2>3 DEF Validate, TypeOK, env, Stages, Finished
  <2>4. CASE PublishResult(a, t)
    BY <2>4 DEF PublishResult, TypeOK, env, Stages, Finished
  <2> QED
    BY <1>16, <2>1, <2>2, <2>3, <2>4 DEF TaskGoroutine
<1>17. CASE UNCHANGED vars
  BY <1>17 DEF vars, TypeOK
<1> QED
  BY <1>1, <1>2, <1>3, <1>4, <1>5, <1>6, <1>7, <1>8, <1>10, <1>11, <1>12,
     <1>13, <1>14, <1>15, <1>16, <1>17 DEF Next, Topic, Listener, Process

-----------------------------------------------------------------------------
(* The inductive invariant                                                 *)

(* Fresh processes hold nothing that could be wrong.                       *)
LEMMA InvInit == Init => AuditorInv
<1> SUFFICES ASSUME Init PROVE AuditorInv
  OBVIOUS
<1>1. TypeOK
  BY AuditorAssumption DEF Init, TypeOK, Stages, Finished
<1> QED
  BY <1>1 DEF Init, AuditorInv, MessagesAreSound, ListenersAreSound,
              BiddersAreSound, HeldBidsAreGenuine, WaiterHoldsOwnBid

\* The state of the bidding, as far as no message is concerned.
Entries == <<bidding, offered, goroutine>>

(* A step that leaves bids and goroutines alone, and gives the listeners   *)
(* nothing new to hold, only has to keep the messages sound.               *)
LEMMA QuietStep ==
    ASSUME AuditorInv, TypeOK', UNCHANGED Entries,
           dispatched \subseteq dispatched',
           \A a \in Auditors : listener'[a] \in {"recording", "bidding"} =>
               \/ listener'[a] = listener[a] /\ current'[a] = current[a]
               \/ /\ listener'[a] = "recording"
                  /\ current'[a] \in Messages
                  /\ GenuineBidding(current'[a]),
           MessagesAreSound'
    PROVE  AuditorInv'
<1> USE DEF AuditorInv, Entries
<1>1. ListenersAreSound'
  BY DEF ListenersAreSound, GenuineBidding, OwnBidIsHeld
<1>2. BiddersAreSound'
  BY DEF BiddersAreSound
<1>3. HeldBidsAreGenuine'
  BY DEF HeldBidsAreGenuine
<1>4. WaiterHoldsOwnBid'
  BY DEF WaiterHoldsOwnBid, OwnBidIsHeld
<1> QED
  BY <1>1, <1>2, <1>3, <1>4

(* Messages that were sound stay so when some disappear.                   *)
LEMMA FewerMessages ==
    ASSUME AuditorInv, UNCHANGED <<offered, dispatched>>,
           \A a \in Auditors : inbox'[a] \subseteq inbox[a]
    PROVE  MessagesAreSound'
BY DEF AuditorInv, MessagesAreSound, GenuineBidding, TaskIsFresh

(* A new broadcast is fresh for everybody; a stray or lost message carries *)
(* no bid.                                                                 *)
LEMMA TopicKeepsInv == AuditorInv /\ TypeOK' /\ Topic => AuditorInv'
<1> SUFFICES ASSUME AuditorInv, TypeOK', Topic PROVE AuditorInv'
  OBVIOUS
<1>1. ASSUME NEW t \in Tasks, NEW d \in Trustors, DispatchTask(d, t)
      PROVE  AuditorInv'
  <2>1. MessagesAreSound'
    BY <1>1, AuditorAssumption
       DEF DispatchTask, Broadcast, AuditorInv, TypeOK, MessagesAreSound,
           GenuineBidding, TaskIsFresh, BiddersAreSound
  <2> QED
    BY <1>1, <2>1, QuietStep DEF DispatchTask, Entries
<1>2. ASSUME NEW t \in Tasks, NEW p \in Outsiders, StrayMessage(p, t)
      PROVE  AuditorInv'
  <2>1. MessagesAreSound'
    BY <1>2, AuditorAssumption
       DEF StrayMessage, Broadcast, AuditorInv, TypeOK, MessagesAreSound,
           GenuineBidding, TaskIsFresh
  <2> QED
    BY <1>2, <2>1, QuietStep DEF StrayMessage, Entries
<1>3. ASSUME NEW a \in Auditors, NEW m \in inbox[a], LoseMessage(a, m)
      PROVE  AuditorInv'
  <2>1. \A b \in Auditors : inbox'[b] \subseteq inbox[b]
    BY <1>3 DEF LoseMessage, AuditorInv, TypeOK
  <2>2. MessagesAreSound'
    BY <1>3, <2>1, FewerMessages DEF LoseMessage
  <2> QED
    BY <1>3, <2>2, QuietStep DEF LoseMessage, Entries
<1> QED
  BY <1>1, <1>2, <1>3 DEF Topic

(* Steps of the listener of an auditor that only read the map of bids.      *)
LEMMA ReadingKeepsInv ==
    ASSUME AuditorInv, TypeOK', NEW a \in Auditors, NEW m \in inbox[a],
           RejectUntrusted(a, m) \/ ReceiveBidding(a, m) \/ IgnoreTask(a, m)
    PROVE  AuditorInv'
<1>1. m \in Messages
  BY DEF AuditorInv, TypeOK
<1>2. \A b \in Auditors : inbox'[b] \subseteq inbox[b]
  BY DEF RejectUntrusted, ReceiveBidding, IgnoreTask, Takes, AuditorInv, TypeOK
<1>3. UNCHANGED <<Entries, dispatched>>
  BY DEF RejectUntrusted, ReceiveBidding, IgnoreTask, Entries
<1>4. MessagesAreSound'
  BY <1>2, <1>3, FewerMessages DEF Entries
<1>5. \A b \in Auditors : listener'[b] \in {"recording", "bidding"} =>
        \/ listener'[b] = listener[b] /\ current'[b] = current[b]
        \/ /\ listener'[b] = "recording"
           /\ current'[b] \in Messages
           /\ GenuineBidding(current'[b])
  <2>1. CASE RejectUntrusted(a, m)
    BY <2>1 DEF RejectUntrusted, AuditorInv, TypeOK
  <2>2. CASE IgnoreTask(a, m)
    BY <2>2 DEF IgnoreTask
  <2>3. CASE ReceiveBidding(a, m) /\ bidding[a][m.task] = NoEntry
    BY <2>3 DEF ReceiveBidding
  <2>4. CASE ReceiveBidding(a, m) /\ bidding[a][m.task] # NoEntry
    <3>1. /\ listener' = [listener EXCEPT ![a] = "recording"]
          /\ current' = [current EXCEPT ![a] = m]
          /\ m.kind = "bidding"
      BY <2>4 DEF ReceiveBidding
    <3>2. GenuineBidding(m)
      BY <3>1 DEF AuditorInv, MessagesAreSound, TaskIsFresh
    <3> QED
      BY <1>1, <3>1, <3>2 DEF AuditorInv, TypeOK
  <2> QED
    BY <2>1, <2>2, <2>3, <2>4
<1> QED
  BY <1>3, <1>4, <1>5, QuietStep

(* Drawing a number keeps the invariant: the task is handed over only once,*)
(* so no bid that is already on its way changes its value.                 *)
LEMMA ReceiveTaskKeepsInv ==
    ASSUME AuditorInv, TypeOK', NEW a \in Auditors, NEW m \in inbox[a],
           ReceiveTask(a, m)
    PROVE  AuditorInv'
<1> DEFINE t == m.task
<1> USE AuditorAssumption
<1>1. m \in Messages /\ t \in Tasks /\ m.from \in Peers
  BY DEF AuditorInv, TypeOK, Messages
<1>2. m.from \in Trustors
  BY <1>1 DEF ReceiveTask, IsTrusted, AuditorInv, MessagesAreSound, TypeOK,
              TaskIsFresh, GenuineBidding, Peers
<1>3. /\ t \in dispatched
      /\ offered[a][t] = NoBid
      /\ \A n \in inbox[a] :
            n.kind = "task" /\ n.from \in Trustors /\ n.task = t => n = m
  BY <1>2 DEF ReceiveTask, AuditorInv, MessagesAreSound, TaskIsFresh,
              GenuineBidding
<1>4. PICK v \in Bids :
        /\ bidding' = [bidding EXCEPT ![a][t] =
              [p \in Auditors |-> IF p = a THEN v ELSE NoBid]]
        /\ offered' = [offered EXCEPT ![a][t] = v]
  BY DEF ReceiveTask, FirstEntry
<1>5. v # NoBid /\ v \in Nat
  BY <1>4 DEF Bids
<1>6. goroutine[a][t] = "none"
  BY <1>1, <1>3 DEF AuditorInv, BiddersAreSound
<1>7. \A p \in Auditors, u \in Tasks :
        offered[p][u] # NoBid => offered'[p][u] = offered[p][u]
  BY <1>1, <1>3, <1>4 DEF AuditorInv, TypeOK
<1>8. /\ listener' = [listener EXCEPT ![a] = "bidding"]
      /\ current' = [current EXCEPT ![a] = m]
      /\ inbox' = [inbox EXCEPT ![a] = @ \ {m}]
      /\ UNCHANGED <<dispatched, goroutine>>
  BY DEF ReceiveTask, Takes
<1>9. offered'[a][t] = v /\ bidding'[a][t] # NoEntry /\ bidding'[a][t][a] = v
  BY <1>1, <1>4, <1>5 DEF AuditorInv, TypeOK
<1>10. MessagesAreSound'
  <2> SUFFICES ASSUME NEW b \in Auditors, NEW n \in inbox'[b]
               PROVE  GenuineBidding(n)' \/ TaskIsFresh(b, n)'
    BY DEF MessagesAreSound
  <2>1. n \in inbox[b] /\ n \in Messages
    BY <1>8 DEF AuditorInv, TypeOK
  <2>2. CASE GenuineBidding(n)
    BY <1>7, <2>1, <2>2 DEF GenuineBidding, Messages
  <2>3. CASE TaskIsFresh(b, n)
    <3>1. b = a /\ n.from \in Trustors => n.task # t
      BY <1>3, <1>8, <2>1, <2>3 DEF TaskIsFresh, AuditorInv, TypeOK
    <3>2. n.from \in Trustors => offered'[b][n.task] = offered[b][n.task]
      BY <1>1, <1>4, <2>1, <3>1 DEF AuditorInv, TypeOK, Messages
    <3>3. inbox'[b] \subseteq inbox[b]
      BY <1>8 DEF AuditorInv, TypeOK
    <3> QED
      BY <1>8, <2>3, <3>2, <3>3 DEF TaskIsFresh
  <2> QED
    BY <2>1, <2>2, <2>3 DEF AuditorInv, MessagesAreSound
<1>11. \A b \in Auditors, u \in Tasks :
         OwnBidIsHeld(b, u) => OwnBidIsHeld(b, u)'
  BY <1>1, <1>3, <1>4, <1>7 DEF OwnBidIsHeld, AuditorInv, TypeOK
<1>12. ListenersAreSound'
  <2> SUFFICES ASSUME NEW b \in Auditors
               PROVE
        (/\ listener[b] \in {"recording", "bidding"} => current[b] \in Messages
         /\ listener[b] = "recording" => GenuineBidding(current[b])
         /\ listener[b] = "bidding" =>
               /\ OwnBidIsHeld(b, current[b].task)
               /\ goroutine[b][current[b].task] = "none")'
    BY DEF ListenersAreSound
  <2>1. CASE b = a
    BY <1>1, <1>5, <1>6, <1>8, <1>9, <2>1
       DEF AuditorInv, TypeOK, OwnBidIsHeld
  <2>2. CASE b # a
    <3>1. listener'[b] = listener[b] /\ current'[b] = current[b]
      BY <1>8, <2>2 DEF AuditorInv, TypeOK
    <3>2. ASSUME listener[b] \in {"recording", "bidding"}
          PROVE  current[b] \in Messages /\ current[b].task \in Tasks
      BY <3>2 DEF AuditorInv, ListenersAreSound, Messages
    <3>3. ASSUME listener[b] = "recording"
          PROVE  GenuineBidding(current[b])'
      <4>1. GenuineBidding(current[b])
        BY <3>3 DEF AuditorInv, ListenersAreSound
      <4> QED
        BY <1>7, <3>1, <3>2, <3>3, <4>1 DEF GenuineBidding
    <3>4. ASSUME listener[b] = "bidding"
          PROVE  /\ OwnBidIsHeld(b, current[b].task)'
                 /\ goroutine'[b][current[b].task] = "none"
      BY <1>8, <1>11, <3>1, <3>2, <3>4
         DEF AuditorInv, ListenersAreSound, OwnBidIsHeld
    <3> QED
      BY <3>1, <3>2, <3>3, <3>4
  <2> QED
    BY <2>1, <2>2
<1>13. BiddersAreSound'
  <2> SUFFICES ASSUME NEW b \in Auditors, NEW u \in Tasks
               PROVE
        (/\ goroutine[b][u] # "none" => offered[b][u] # NoBid
         /\ offered[b][u] # NoBid => u \in dispatched
         /\ goroutine[b][u] \in {"losing", "lost"} =>
              \E p \in Auditors :
                  offered[p][u] # NoBid /\ offered[p][u] > offered[b][u])'
    BY DEF BiddersAreSound
  <2>1. goroutine'[b][u] # "none" => offered'[b][u] # NoBid
    BY <1>7, <1>8 DEF AuditorInv, BiddersAreSound
  <2>2. offered'[b][u] # NoBid => u \in dispatched'
    BY <1>1, <1>3, <1>4, <1>8 DEF AuditorInv, BiddersAreSound, TypeOK
  <2>3. ASSUME goroutine'[b][u] \in {"losing", "lost"}
        PROVE  \E p \in Auditors :
                 offered'[p][u] # NoBid /\ offered'[p][u] > offered'[b][u]
    BY <1>7, <1>8, <2>3 DEF AuditorInv, BiddersAreSound
  <2> QED
    BY <2>1, <2>2, <2>3
<1>14. HeldBidsAreGenuine'
  <2> SUFFICES ASSUME NEW b \in Auditors, NEW u \in Tasks,
                      bidding'[b][u] # NoEntry, NEW p \in Auditors
               PROVE  bidding'[b][u][p] \in {NoBid, offered'[p][u]}
    BY DEF HeldBidsAreGenuine
  <2>1. CASE b = a /\ u = t
    BY <1>1, <1>4, <1>9, <2>1 DEF AuditorInv, TypeOK
  <2>2. CASE ~(b = a /\ u = t)
    <3>1. bidding'[b][u] = bidding[b][u]
      BY <1>1, <1>4, <2>2 DEF AuditorInv, TypeOK
    <3> QED
      BY <1>7, <3>1 DEF AuditorInv, HeldBidsAreGenuine
  <2> QED
    BY <2>1, <2>2
<1>15. WaiterHoldsOwnBid'
  BY <1>8, <1>11 DEF AuditorInv, WaiterHoldsOwnBid
<1> QED
  BY <1>10, <1>12, <1>13, <1>14, <1>15 DEF AuditorInv

(* Writing a bid into the map keeps the invariant: the bid is one that its *)
(* owner made.                                                             *)
LEMMA RecordBiddingKeepsInv ==
    ASSUME AuditorInv, TypeOK', NEW a \in Auditors, RecordBidding(a)
    PROVE  AuditorInv'
<1> DEFINE m == current[a]
           t == m.task
           f == [bidding[a][t] EXCEPT ![m.from] = m.value]
<1> USE AuditorAssumption
<1>1. m \in Messages /\ GenuineBidding(m)
  BY DEF RecordBidding, AuditorInv, ListenersAreSound
<1>2. /\ t \in Tasks /\ m.from \in Auditors
      /\ m.value = offered[m.from][t] /\ m.value # NoBid
  BY <1>1 DEF Messages, GenuineBidding
<1>3. bidding[a][t] # NoEntry
      /\ bidding' = [bidding EXCEPT ![a] = [@ EXCEPT ![t] = f]]
  BY DEF RecordBidding
<1>4. /\ listener' = [listener EXCEPT ![a] = "next"]
      /\ current' = [current EXCEPT ![a] = NoMessage]
      /\ UNCHANGED <<inbox, dispatched, offered, goroutine>>
  BY DEF RecordBidding
<1> HIDE DEF m
<1>5. bidding[a][t] \in [Auditors -> Bids \cup {NoBid}]
  BY <1>2, <1>3 DEF AuditorInv, TypeOK
<1>6. bidding'[a][t] = f /\ bidding'[a][t] # NoEntry
  <2>1. bidding'[a][t] = f
    <3> HIDE DEF f, t
    <3>1. t \in Tasks /\ bidding \in [Auditors -> [Tasks ->
             [Auditors -> Bids \cup {NoBid}] \cup {NoEntry}]]
      BY <1>2 DEF AuditorInv, TypeOK
    <3> QED
      BY <1>3, <3>1
  <2>2. m.value \in Bids \cup {NoBid}
    BY <1>1 DEF Messages
  <2>3. bidding'[a][t] \in [Auditors -> Bids \cup {NoBid}]
    BY <1>2, <1>5, <2>1, <2>2
  <2> QED
    BY <2>1, <2>3
<1>7. \A b \in Auditors, u \in Tasks :
        ~(b = a /\ u = t) => bidding'[b][u] = bidding[b][u]
  BY <1>2, <1>3 DEF AuditorInv, TypeOK
<1>8. \A b \in Auditors, u \in Tasks :
        OwnBidIsHeld(b, u) => OwnBidIsHeld(b, u)'
  BY <1>2, <1>4, <1>5, <1>6, <1>7 DEF OwnBidIsHeld
<1>9. MessagesAreSound'
  BY <1>4, FewerMessages
<1>10. ListenersAreSound'
  <2> SUFFICES ASSUME NEW b \in Auditors, listener'[b] \in {"recording", "bidding"}
               PROVE  (/\ current[b] \in Messages
                       /\ listener[b] = "recording" => GenuineBidding(current[b])
                       /\ listener[b] = "bidding" =>
                             /\ OwnBidIsHeld(b, current[b].task)
                             /\ goroutine[b][current[b].task] = "none")'
    BY DEF ListenersAreSound
  <2>1. listener'[b] = listener[b] /\ current'[b] = current[b]
    BY <1>4 DEF AuditorInv, TypeOK
  <2>2. current[b] \in Messages /\ current[b].task \in Tasks
    BY <2>1 DEF AuditorInv, ListenersAreSound, Messages
  <2> QED
    BY <1>4, <1>8, <2>1, <2>2
       DEF AuditorInv, ListenersAreSound, GenuineBidding, OwnBidIsHeld
<1>11. BiddersAreSound'
  BY <1>4 DEF AuditorInv, BiddersAreSound
<1>12. HeldBidsAreGenuine'
  BY <1>2, <1>4, <1>5, <1>6, <1>7 DEF AuditorInv, HeldBidsAreGenuine
<1>13. WaiterHoldsOwnBid'
  BY <1>4, <1>8 DEF AuditorInv, WaiterHoldsOwnBid
<1> QED
  BY <1>9, <1>10, <1>11, <1>12, <1>13 DEF AuditorInv

(* The death of a process keeps the invariant: it forgets what it held,    *)
(* and what it had decided to drop stays dropped.                          *)
LEMMA DyingKeepsInv ==
    ASSUME AuditorInv, TypeOK', NEW a \in Auditors, Dies(a),
           UNCHANGED <<dispatched, offered>>
    PROVE  AuditorInv'
<1>1. \A b \in Auditors : inbox'[b] \subseteq inbox[b]
  BY DEF Dies, AuditorInv, TypeOK
<1>2. MessagesAreSound'
  BY <1>1, FewerMessages
<1>3. \A b \in Auditors : b # a =>
        /\ listener'[b] = listener[b] /\ current'[b] = current[b]
        /\ bidding'[b] = bidding[b] /\ goroutine'[b] = goroutine[b]
  BY DEF Dies, AuditorInv, TypeOK
<1>4. listener'[a] = "next" /\ \A t \in Tasks : bidding'[a][t] = NoEntry
  BY DEF Dies, AuditorInv, TypeOK
<1>5. \A t \in Tasks :
        /\ goroutine'[a][t] # "waiting"
        /\ goroutine'[a][t] # "none" => goroutine[a][t] # "none"
        /\ goroutine'[a][t] \in {"losing", "lost"} =>
              goroutine[a][t] \in {"losing", "lost"}
  BY DEF Dies, AuditorInv, TypeOK, Stages, Finished
<1>6. ListenersAreSound'
  <2> SUFFICES ASSUME NEW b \in Auditors, listener'[b] \in {"recording", "bidding"}
               PROVE  (/\ current[b] \in Messages
                       /\ listener[b] = "recording" => GenuineBidding(current[b])
                       /\ listener[b] = "bidding" =>
                             /\ OwnBidIsHeld(b, current[b].task)
                             /\ goroutine[b][current[b].task] = "none")'
    BY DEF ListenersAreSound
  <2>1. b # a
    BY <1>4
  <2> QED
    BY <1>3, <2>1 DEF AuditorInv, ListenersAreSound, GenuineBidding,
       OwnBidIsHeld
<1>7. BiddersAreSound'
  <2> SUFFICES ASSUME NEW b \in Auditors, NEW t \in Tasks
               PROVE
        (/\ goroutine[b][t] # "none" => offered[b][t] # NoBid
         /\ offered[b][t] # NoBid => t \in dispatched
         /\ goroutine[b][t] \in {"losing", "lost"} =>
              \E p \in Auditors :
                  offered[p][t] # NoBid /\ offered[p][t] > offered[b][t])'
    BY DEF BiddersAreSound
  <2> QED
    BY <1>3, <1>5 DEF AuditorInv, BiddersAreSound
<1>8. HeldBidsAreGenuine'
  BY <1>3, <1>4 DEF AuditorInv, HeldBidsAreGenuine
<1>9. WaiterHoldsOwnBid'
  BY <1>3, <1>5 DEF AuditorInv, WaiterHoldsOwnBid, OwnBidIsHeld
<1> QED
  BY <1>2, <1>6, <1>7, <1>8, <1>9 DEF AuditorInv

(* Announcing the bid keeps the invariant: the message says what was drawn,*)
(* and the goroutine that starts to wait finds that number in the map.     *)
LEMMA PublishBiddingKeepsInv ==
    ASSUME AuditorInv, TypeOK', NEW a \in Auditors, PublishBidding(a)
    PROVE  AuditorInv'
<1> DEFINE t == current[a].task
           n == [kind |-> "bidding", from |-> a, task |-> t,
                 value |-> offered[a][t]]
<1> USE AuditorAssumption
<1>1. /\ t \in Tasks /\ OwnBidIsHeld(a, t) /\ goroutine[a][t] = "none"
  BY DEF PublishBidding, AuditorInv, ListenersAreSound, Messages
<1>2. /\ inbox' = Broadcast(inbox, n)
      /\ goroutine' = [goroutine EXCEPT ![a][t] = "waiting"]
      /\ listener' = [listener EXCEPT ![a] = "next"]
      /\ current' = [current EXCEPT ![a] = NoMessage]
      /\ UNCHANGED <<dispatched, bidding, offered>>
  BY DEF PublishBidding
<1>3. \A b \in Auditors : inbox'[b] \subseteq inbox[b] \cup {n}
  BY <1>2 DEF Broadcast, AuditorInv, TypeOK
<1>4. GenuineBidding(n)
  BY <1>1 DEF GenuineBidding, OwnBidIsHeld
<1>5. \A b \in Auditors, u \in Tasks :
        ~(b = a /\ u = t) => goroutine'[b][u] = goroutine[b][u]
  BY <1>1, <1>2 DEF AuditorInv, TypeOK
<1>6. goroutine'[a][t] = "waiting"
  BY <1>1, <1>2 DEF AuditorInv, TypeOK
<1>7. n.kind = "bidding"
  OBVIOUS
<1> HIDE DEF n, t
<1>8. MessagesAreSound'
  <2> SUFFICES ASSUME NEW b \in Auditors, NEW m \in inbox'[b]
               PROVE  GenuineBidding(m)' \/ TaskIsFresh(b, m)'
    BY DEF MessagesAreSound
  <2>1. CASE m = n
    BY <1>2, <1>4, <2>1 DEF GenuineBidding
  <2>2. CASE m \in inbox[b] /\ GenuineBidding(m)
    BY <1>2, <2>2 DEF GenuineBidding
  <2>3. CASE m \in inbox[b] /\ TaskIsFresh(b, m)
    BY <1>2, <1>3, <1>7, <2>3 DEF TaskIsFresh
  <2> QED
    BY <1>3, <2>1, <2>2, <2>3 DEF AuditorInv, MessagesAreSound
<1>9. ListenersAreSound'
  <2> SUFFICES ASSUME NEW b \in Auditors, listener'[b] \in {"recording", "bidding"}
               PROVE  (/\ current[b] \in Messages
                       /\ listener[b] = "recording" => GenuineBidding(current[b])
                       /\ listener[b] = "bidding" =>
                             /\ OwnBidIsHeld(b, current[b].task)
                             /\ goroutine[b][current[b].task] = "none")'
    BY DEF ListenersAreSound
  <2>1. b # a /\ listener'[b] = listener[b] /\ current'[b] = current[b]
    BY <1>2 DEF AuditorInv, TypeOK
  <2>2. current[b] \in Messages /\ current[b].task \in Tasks
    BY <2>1 DEF AuditorInv, ListenersAreSound, Messages
  <2> QED
    BY <1>2, <1>5, <2>1, <2>2
       DEF AuditorInv, ListenersAreSound, GenuineBidding, OwnBidIsHeld
<1>10. BiddersAreSound'
  <2> SUFFICES ASSUME NEW b \in Auditors, NEW u \in Tasks
               PROVE
        (/\ goroutine[b][u] # "none" => offered[b][u] # NoBid
         /\ offered[b][u] # NoBid => u \in dispatched
         /\ goroutine[b][u] \in {"losing", "lost"} =>
              \E p \in Auditors :
                  offered[p][u] # NoBid /\ offered[p][u] > offered[b][u])'
    BY DEF BiddersAreSound
  <2> QED
    BY <1>1, <1>2, <1>5, <1>6 DEF AuditorInv, BiddersAreSound, OwnBidIsHeld
<1>11. HeldBidsAreGenuine'
  BY <1>2 DEF AuditorInv, HeldBidsAreGenuine
<1>12. WaiterHoldsOwnBid'
  BY <1>1, <1>2, <1>5 DEF AuditorInv, WaiterHoldsOwnBid, OwnBidIsHeld
<1> QED
  BY <1>8, <1>9, <1>10, <1>11, <1>12 DEF AuditorInv

(* The goroutine of a task keeps the invariant: what it deletes is not     *)
(* waited for any more, and who loses has seen a bid that was made.        *)
LEMMA TaskGoroutineKeepsInv ==
    ASSUME AuditorInv, TypeOK', NEW a \in Auditors, NEW t \in Tasks,
           TaskGoroutine(a, t)
    PROVE  AuditorInv'
<1> USE AuditorAssumption
<1>1. /\ UNCHANGED <<dispatched, inbox, listener, current, offered>>
      /\ goroutine[a][t] \notin {"none", "lost"}
  BY DEF TaskGoroutine, CompareBids, CloseBidding, Validate, PublishResult, env
<1>2. MessagesAreSound'
  BY <1>1, FewerMessages
<1>3. /\ goroutine'[a][t] \notin {"none", "waiting"}
      /\ \A b \in Auditors, u \in Tasks :
            ~(b = a /\ u = t) => goroutine'[b][u] = goroutine[b][u]
  BY DEF TaskGoroutine, CompareBids, CloseBidding, Validate, PublishResult,
         AuditorInv, TypeOK
<1>4. /\ \A b \in Auditors, u \in Tasks :
            ~(b = a /\ u = t) => bidding'[b][u] = bidding[b][u]
      /\ bidding'[a][t] \in {bidding[a][t], NoEntry}
  BY DEF TaskGoroutine, CompareBids, CloseBidding, Validate, PublishResult,
         AuditorInv, TypeOK
<1>5. ASSUME goroutine'[a][t] \in {"losing", "lost"}
      PROVE  \E p \in Auditors :
                offered[p][t] # NoBid /\ offered[p][t] > offered[a][t]
  <2>1. CASE CompareBids(a, t)
    <3>1. goroutine[a][t] = "waiting" /\ ~OwnBidIsHighest(a, t)
      BY <1>5, <2>1 DEF CompareBids, AuditorInv, TypeOK
    <3>2. OwnBidIsHeld(a, t)
      BY <3>1 DEF AuditorInv, WaiterHoldsOwnBid
    <3>3. PICK p \in Auditors : ~(BidHeld(a, t, p) <= BidHeld(a, t, a))
      BY <3>1 DEF OwnBidIsHighest
    <3>4. /\ bidding[a][t] # NoEntry
          /\ bidding[a][t][a] = offered[a][t]
          /\ offered[a][t] \in Nat /\ offered[p][t] \in Nat \cup {NoBid}
      BY <3>2 DEF OwnBidIsHeld, AuditorInv, TypeOK, Bids
    <3>5. BidHeld(a, t, a) = offered[a][t]
      BY <3>4 DEF BidHeld
    <3>6. bidding[a][t][p] \in {NoBid, offered[p][t]}
      BY <3>4 DEF AuditorInv, HeldBidsAreGenuine
    <3>7. offered[p][t] # NoBid /\ BidHeld(a, t, p) = offered[p][t]
      BY <3>3, <3>4, <3>5, <3>6 DEF BidHeld
    <3> QED
      BY <3>3, <3>4, <3>5, <3>7
  <2>2. CASE CloseBidding(a, t)
    <3>1. goroutine[a][t] = "losing"
      BY <1>5, <2>2 DEF CloseBidding, AuditorInv, TypeOK
    <3> QED
      BY <3>1 DEF AuditorInv, BiddersAreSound
  <2>3. CASE Validate(a, t) \/ PublishResult(a, t)
    BY <1>5, <2>3 DEF Validate, PublishResult, AuditorInv, TypeOK
  <2> QED
    BY <2>1, <2>2, <2>3 DEF TaskGoroutine
<1>6. \A b \in Auditors, u \in Tasks :
        ~(b = a /\ u = t) /\ OwnBidIsHeld(b, u) => OwnBidIsHeld(b, u)'
  BY <1>1, <1>4 DEF OwnBidIsHeld
<1>7. ListenersAreSound'
  <2> SUFFICES ASSUME NEW b \in Auditors, listener'[b] \in {"recording", "bidding"}
               PROVE  (/\ current[b] \in Messages
                       /\ listener[b] = "recording" => GenuineBidding(current[b])
                       /\ listener[b] = "bidding" =>
                             /\ OwnBidIsHeld(b, current[b].task)
                             /\ goroutine[b][current[b].task] = "none")'
    BY DEF ListenersAreSound
  <2>1. current[b] \in Messages /\ current[b].task \in Tasks
    BY <1>1 DEF AuditorInv, ListenersAreSound, Messages
  <2> QED
    BY <1>1, <1>3, <1>6, <2>1
       DEF AuditorInv, ListenersAreSound, GenuineBidding
<1>8. BiddersAreSound'
  <2> SUFFICES ASSUME NEW b \in Auditors, NEW u \in Tasks
               PROVE
        (/\ goroutine[b][u] # "none" => offered[b][u] # NoBid
         /\ offered[b][u] # NoBid => u \in dispatched
         /\ goroutine[b][u] \in {"losing", "lost"} =>
              \E p \in Auditors :
                  offered[p][u] # NoBid /\ offered[p][u] > offered[b][u])'
    BY DEF BiddersAreSound
  <2> QED
    BY <1>1, <1>3, <1>5 DEF AuditorInv, BiddersAreSound
<1>9. HeldBidsAreGenuine'
  BY <1>1, <1>4 DEF AuditorInv, HeldBidsAreGenuine
<1>10. WaiterHoldsOwnBid'
  BY <1>3, <1>6 DEF AuditorInv, WaiterHoldsOwnBid
<1> QED
  BY <1>2, <1>7, <1>8, <1>9, <1>10 DEF AuditorInv

(* The invariant is inductive: every step of every process keeps it.       *)
LEMMA InvInductive == AuditorInv /\ [Next]_vars => AuditorInv'
<1> SUFFICES ASSUME AuditorInv, [Next]_vars PROVE AuditorInv'
  OBVIOUS
<1>1. TypeOK'
  BY TypeInductive, NoMessageAssumption
     DEF AuditorInv, ListenersAreSound, BusyListenerHasMessage
<1>2. CASE Topic
  BY <1>1, <1>2, TopicKeepsInv
<1>3. ASSUME NEW a \in Auditors, NEW m \in inbox[a],
             \/ RejectUntrusted(a, m) \/ ReceiveBidding(a, m)
             \/ IgnoreTask(a, m)      \/ ReceiveTask(a, m)
      PROVE  AuditorInv'
  BY <1>1, <1>3, ReadingKeepsInv, ReceiveTaskKeepsInv
<1>4. ASSUME NEW a \in Auditors, RecordBidding(a) \/ PublishBidding(a)
      PROVE  AuditorInv'
  BY <1>1, <1>4, RecordBiddingKeepsInv, PublishBiddingKeepsInv
<1>5. ASSUME NEW a \in Auditors, RecordPanics(a) \/ Crash(a)
      PROVE  AuditorInv'
  BY <1>1, <1>5, DyingKeepsInv DEF RecordPanics, Crash
<1>6. ASSUME NEW a \in Auditors,
             PublishBiddingFails(a) \/ RefreshTrustees(a) \/ Restart(a)
      PROVE  AuditorInv'
  <2>1. /\ UNCHANGED <<Entries, dispatched, inbox>>
        /\ \A b \in Auditors : listener'[b] \in {"recording", "bidding"} =>
              listener'[b] = listener[b] /\ current'[b] = current[b]
    BY <1>6 DEF PublishBiddingFails, RefreshTrustees, Restart, Entries,
                AuditorInv, TypeOK
  <2>2. MessagesAreSound'
    BY <2>1, FewerMessages DEF Entries
  <2> QED
    BY <1>1, <2>1, <2>2, QuietStep
<1>7. ASSUME NEW a \in Auditors, NEW t \in Tasks, TaskGoroutine(a, t)
      PROVE  AuditorInv'
  BY <1>1, <1>7, TaskGoroutineKeepsInv
<1>8. CASE UNCHANGED vars
  <2>1. MessagesAreSound'
    BY <1>8, FewerMessages DEF vars
  <2> QED
    BY <1>1, <1>8, <2>1, QuietStep DEF vars, Entries
<1> QED
  BY <1>2, <1>3, <1>4, <1>5, <1>6, <1>7, <1>8 DEF Next, Listener, Process

-----------------------------------------------------------------------------
(* What holds in every reachable state                                     *)

(* The invariant of the bidding holds: whatever the topic loses, delays or *)
(* reorders and whichever processes die, a held or sent bid is genuine.    *)
THEOREM InvCorrect == Spec => []AuditorInv
<1>1. Init => AuditorInv
  BY InvInit
<1>2. AuditorInv /\ [Next]_vars => AuditorInv'
  BY InvInductive
<1> QED
  BY <1>1, <1>2, PTL DEF Spec

(* Every variable of the auditors keeps to its type.                       *)
THEOREM TypeCorrect == Spec => []TypeOK
<1>1. AuditorInv => TypeOK
  BY DEF AuditorInv
<1> QED
  BY <1>1, InvCorrect, PTL

(* resolveBidding compares numbers that were drawn, and its own is there.  *)
THEOREM ComparisonIsGenuine == Spec => [](HeldBidsAreGenuine /\ WaiterHoldsOwnBid)
<1>1. AuditorInv => HeldBidsAreGenuine /\ WaiterHoldsOwnBid
  BY DEF AuditorInv
<1> QED
  BY <1>1, InvCorrect, PTL

(* An auditor that drops a task was outbid by a bid that a peer made.      *)
THEOREM LoserIsOutbidAlways == Spec => []LoserIsOutbid
<1>1. AuditorInv => LoserIsOutbid
  <2> SUFFICES ASSUME AuditorInv, NEW a \in Auditors, NEW t \in Tasks,
                      Outcome(goroutine[a][t]) = "lost"
               PROVE  \E p \in Auditors :
                         /\ offered[p][t] \in Nat
                         /\ offered[a][t] \in Nat
                         /\ offered[p][t] > offered[a][t]
    BY DEF LoserIsOutbid, Election!LoserIsOutbid, Election!Outbids
  <2>1. goroutine[a][t] \in {"losing", "lost"}
    BY Zenon DEF Outcome
  <2>2. offered[a][t] # NoBid
    BY <2>1 DEF AuditorInv, BiddersAreSound
  <2>3. \A p \in Auditors : offered[p][t] # NoBid => offered[p][t] \in Nat
    BY DEF AuditorInv, TypeOK, Bids
  <2> QED
    BY <2>1, <2>2, <2>3 DEF AuditorInv, BiddersAreSound
<1> QED
  BY <1>1, InvCorrect, PTL

(* A set of natural numbers that is not empty has a least element.         *)
LEMMA LeastExists ==
    ASSUME NEW S, S \subseteq Nat, S # {}
    PROVE  \E least \in S : \A n \in S : least <= n
<1> DEFINE Less == OpToRel(<, Nat)
<1>1. \A m, n \in Nat : m < n => <<m, n>> \in Less
  BY DEF OpToRel
<1>2. IsWellFoundedOn(Less, Nat)
  BY NatLessThanWellFounded
<1> HIDE DEF Less
<1>3. PICK least \in S : \A n \in S : ~(<<n, least>> \in Less)
  BY <1>2, WFMin
<1>4. ASSUME NEW n \in S PROVE least <= n
  <2>1. n \in Nat /\ least \in Nat
    OBVIOUS
  <2>2. ~(n < least)
    BY <1>1, <1>3, <2>1
  <2> QED
    BY <2>1, <2>2
<1> QED
  BY <1>4

(* The bidders of a task never all leave it to one another: the highest of *)
(* the bids, of which there are finitely many, is nowhere outbid.          *)
THEOREM SomebodyWinsAlways == Spec => []SomebodyWins
<1>1. AuditorInv => SomebodyWins
  <2> SUFFICES ASSUME AuditorInv, NEW t \in Tasks,
                      {a \in Auditors : offered[a][t] # NoBid} # {},
                      \A a \in {b \in Auditors : offered[b][t] # NoBid} :
                         Outcome(goroutine[a][t]) \in {"won", "lost"}
               PROVE  \E a \in {b \in Auditors : offered[b][t] # NoBid} :
                         Outcome(goroutine[a][t]) = "won"
    BY DEF SomebodyWins, Election!SomebodyWins
  <2> DEFINE Bidders == {a \in Auditors : offered[a][t] # NoBid}
             Gaps == {BidLimit - offered[a][t] : a \in Bidders}
  <2>1. \A a \in Bidders : offered[a][t] \in Nat /\ offered[a][t] < BidLimit
    BY AuditorAssumption DEF AuditorInv, TypeOK, Bids
  <2> HIDE DEF Bidders
  <2>2. BidLimit \in Nat
    BY AuditorAssumption
  <2>3. Gaps \subseteq Nat /\ Gaps # {}
    <3>1. \A a \in Bidders : BidLimit - offered[a][t] \in Nat
      BY <2>1, <2>2
    <3>2. Bidders # {}
      BY DEF Bidders
    <3> QED
      BY <3>1, <3>2
  <2>4. PICK least \in Gaps : \A gap \in Gaps : least <= gap
    <3> HIDE DEF Gaps
    <3> QED
      BY <2>3, LeastExists
  <2>5. PICK a \in Bidders : \A p \in Bidders : offered[p][t] <= offered[a][t]
    <3>1. PICK a \in Bidders : least = BidLimit - offered[a][t]
      BY <2>4
    <3>2. ASSUME NEW p \in Bidders PROVE offered[p][t] <= offered[a][t]
      <4>1. BidLimit - offered[p][t] \in Gaps
        OBVIOUS
      <4>2. BidLimit - offered[a][t] <= BidLimit - offered[p][t]
        BY <2>4, <3>1, <4>1
      <4> HIDE DEF Gaps
      <4> QED
        BY <2>1, <2>2, <4>2
    <3> QED
      BY <3>2
  <2>6. Outcome(goroutine[a][t]) # "lost"
    <3> SUFFICES ASSUME Outcome(goroutine[a][t]) = "lost" PROVE FALSE
      OBVIOUS
    <3>1. goroutine[a][t] \in {"losing", "lost"}
      BY Zenon DEF Outcome
    <3>2. PICK p \in Bidders : offered[p][t] > offered[a][t]
      BY <3>1 DEF AuditorInv, BiddersAreSound, Bidders
    <3> QED
      BY <2>1, <2>5, <3>2
  <2> QED
    BY <2>6 DEF Bidders
<1> QED
  BY <1>1, InvCorrect, PTL

-----------------------------------------------------------------------------
(* The refinement                                                          *)

OutcomeMap ==
    [a \in Auditors |-> [t \in Tasks |-> Outcome(goroutine[a][t])]]

(* What the stages of a task's goroutine mean for the election.            *)
LEMMA OutcomeOfStage ==
    ASSUME NEW s
    PROVE  /\ s \in {"none", "waiting"} => Outcome(s) = "undecided"
           /\ s \in {"losing", "lost"} => Outcome(s) = "lost"
           /\ s = "killed" => Outcome(s) = "abandoned"
           /\ s \in {"winning", "validating", "publishing", "published",
                     "skipped", "failed"} => Outcome(s) = "won"
BY Zenon DEF Outcome

(* A step that draws no number and leaves every outcome is a stutter.      *)
LEMMA SameOutcomes ==
    ASSUME AuditorInv, UNCHANGED offered,
           \A a \in Auditors, t \in Tasks :
               Outcome(goroutine'[a][t]) = Outcome(goroutine[a][t])
    PROVE  UNCHANGED Election!vars
<1>1. OutcomeMap' = OutcomeMap
  BY DEF OutcomeMap
<1> QED
  BY <1>1 DEF Election!vars, OutcomeMap

(* Drawing a number is the bid of the election.                            *)
LEMMA ReceiveTaskBids ==
    ASSUME AuditorInv, NEW a \in Auditors, NEW m \in inbox[a],
           ReceiveTask(a, m)
    PROVE  Election!Bid(a, m.task)
<1> USE AuditorAssumption
<1>1. m \in Messages /\ m.task \in Tasks /\ m.from \in Peers
  BY DEF AuditorInv, TypeOK, Messages
<1>2. m.from \in Trustors
  BY <1>1 DEF ReceiveTask, IsTrusted, AuditorInv, MessagesAreSound, TypeOK,
              TaskIsFresh, GenuineBidding, Peers
<1>3. offered[a][m.task] = NoBid
  BY <1>2 DEF ReceiveTask, AuditorInv, MessagesAreSound, TaskIsFresh,
              GenuineBidding
<1>4. goroutine[a][m.task] = "none"
  BY <1>1, <1>3 DEF AuditorInv, BiddersAreSound
<1>5. OutcomeMap[a][m.task] = "undecided"
  BY <1>1, <1>4, OutcomeOfStage DEF OutcomeMap
<1>6. \E v \in Bids : offered' = [offered EXCEPT ![a][m.task] = v]
  BY DEF ReceiveTask
<1>7. OutcomeMap' = OutcomeMap
  BY DEF ReceiveTask, OutcomeMap
<1> QED
  BY <1>3, <1>5, <1>6, <1>7 DEF Election!Bid, OutcomeMap

(* The comparison decides: a bid that is the highest known wins, and the   *)
(* task is let go only when a peer really bid more.                        *)
LEMMA CompareBidsDecides ==
    ASSUME AuditorInv, AuditorInv', NEW a \in Auditors, NEW t \in Tasks,
           CompareBids(a, t)
    PROVE  Election!Win(a, t) \/ Election!Lose(a, t)
<1>1. goroutine[a][t] = "waiting" /\ UNCHANGED offered
  BY DEF CompareBids
<1>2. offered[a][t] # NoBid
  BY <1>1 DEF AuditorInv, BiddersAreSound
<1>3. OutcomeMap[a][t] = "undecided"
  BY <1>1, OutcomeOfStage DEF OutcomeMap
<1>4. ASSUME NEW s, goroutine' = [goroutine EXCEPT ![a][t] = s]
      PROVE  OutcomeMap' = [OutcomeMap EXCEPT ![a][t] = Outcome(s)]
  <2>1. goroutine \in [Auditors -> [Tasks -> Stages]]
    BY DEF AuditorInv, TypeOK
  <2>2. \A b \in Auditors, u \in Tasks :
           goroutine'[b][u] = IF b = a /\ u = t THEN s ELSE goroutine[b][u]
    BY <1>4, <2>1
  <2>3. \A b \in Auditors, u \in Tasks :
           OutcomeMap'[b][u] =
             IF b = a /\ u = t THEN Outcome(s) ELSE OutcomeMap[b][u]
    BY <2>2 DEF OutcomeMap
  <2>4. OutcomeMap' = [b \in Auditors |-> [u \in Tasks |->
             IF b = a /\ u = t THEN Outcome(s) ELSE OutcomeMap[b][u]]]
    BY <2>3 DEF OutcomeMap
  <2> QED
    BY <2>4 DEF OutcomeMap
<1>5. CASE OwnBidIsHighest(a, t)
  <2>1. goroutine' = [goroutine EXCEPT ![a][t] = "winning"]
    BY <1>5 DEF CompareBids
  <2>2. OutcomeMap' = [OutcomeMap EXCEPT ![a][t] = "won"]
    BY <1>4, <2>1, OutcomeOfStage
  <2> QED
    BY <1>1, <1>2, <1>3, <2>2 DEF Election!Win, OutcomeMap
<1>6. CASE ~OwnBidIsHighest(a, t)
  <2>1. goroutine' = [goroutine EXCEPT ![a][t] = "losing"]
    BY <1>6 DEF CompareBids
  <2>2. OutcomeMap' = [OutcomeMap EXCEPT ![a][t] = "lost"]
    BY <1>4, <2>1, OutcomeOfStage
  <2>3. goroutine'[a][t] = "losing"
    BY <2>1 DEF AuditorInv, TypeOK
  <2>4. PICK p \in Auditors :
          offered[p][t] # NoBid /\ offered[p][t] > offered[a][t]
    BY <1>1, <2>3 DEF AuditorInv, BiddersAreSound
  <2>5. offered[p][t] \in Nat /\ offered[a][t] \in Nat
    BY <1>2, <2>4 DEF AuditorInv, TypeOK, Bids
  <2> QED
    BY <1>1, <1>3, <2>2, <2>4, <2>5
       DEF Election!Lose, Election!Outbids, OutcomeMap
<1> QED
  BY <1>5, <1>6

(* A process that dies abandons the tasks it had bid for and not yet       *)
(* decided or finished.                                                    *)
LEMMA DyingAbandons ==
    ASSUME AuditorInv, NEW a \in Auditors, Dies(a), UNCHANGED offered
    PROVE  \E T \in SUBSET Tasks : Election!Abandon(a, T)
<1> DEFINE T == {t \in Tasks : goroutine[a][t] \notin
                                  Finished \cup {"none", "losing"}}
<1>1. \A t \in T : offered[a][t] # NoBid
  BY DEF AuditorInv, BiddersAreSound
<1>2. \A t \in T : OutcomeMap[a][t] # "lost"
  <2> SUFFICES ASSUME NEW t \in T PROVE OutcomeMap[a][t] # "lost"
    OBVIOUS
  <2>1. goroutine[a][t] \in {"waiting", "winning", "validating", "publishing"}
    BY DEF AuditorInv, TypeOK, Stages
  <2> QED
    BY <2>1, OutcomeOfStage DEF OutcomeMap
<1>3. \A b \in Auditors : b # a => goroutine'[b] = goroutine[b]
  BY DEF Dies, AuditorInv, TypeOK
<1>4. \A t \in Tasks : OutcomeMap'[a][t] =
         IF t \in T THEN "abandoned" ELSE OutcomeMap[a][t]
  <2> SUFFICES ASSUME NEW t \in Tasks
               PROVE  Outcome(goroutine'[a][t]) =
                        IF t \in T THEN "abandoned" ELSE Outcome(goroutine[a][t])
    BY DEF OutcomeMap
  <2>1. goroutine'[a][t] =
          CASE goroutine[a][t] \in Finished \cup {"none"} -> goroutine[a][t]
            [] goroutine[a][t] = "losing" -> "lost"
            [] OTHER -> "killed"
    BY DEF Dies, AuditorInv, TypeOK
  <2>2. CASE goroutine[a][t] \in Finished \cup {"none"}
    BY <2>1, <2>2 DEF Finished
  <2>3. CASE goroutine[a][t] = "losing"
    BY <2>1, <2>3, OutcomeOfStage DEF Finished
  <2>4. CASE t \in T
    BY <2>1, <2>4, OutcomeOfStage
  <2> QED
    BY <2>2, <2>3, <2>4
<1>5. OutcomeMap' = [OutcomeMap EXCEPT ![a] =
         [t \in Tasks |-> IF t \in T THEN "abandoned" ELSE OutcomeMap[a][t]]]
  <2> DEFINE g == [t \in Tasks |-> IF t \in T THEN "abandoned"
                                   ELSE OutcomeMap[a][t]]
  <2>1. OutcomeMap'[a] = g
    <3>1. OutcomeMap'[a] = [t \in Tasks |-> OutcomeMap'[a][t]]
      BY DEF OutcomeMap
    <3> HIDE DEF OutcomeMap, T
    <3> QED
      BY <1>4, <3>1
  <2>2. \A b \in Auditors : b # a => OutcomeMap'[b] = OutcomeMap[b]
    BY <1>3 DEF OutcomeMap
  <2>3. /\ OutcomeMap = [b \in Auditors |-> OutcomeMap[b]]
        /\ OutcomeMap' = [b \in Auditors |-> OutcomeMap'[b]]
    BY DEF OutcomeMap
  <2> HIDE DEF g, OutcomeMap
  <2>4. OutcomeMap' = [OutcomeMap EXCEPT ![a] = g]
    BY <2>1, <2>2, <2>3
  <2> QED
    BY <2>4 DEF g
<1> QED
  BY <1>1, <1>2, <1>5 DEF Election!Abandon, OutcomeMap

(* Every step of the auditors is a step of the election, or none.          *)
LEMMA StepRefines ==
    ASSUME AuditorInv, AuditorInv', [Next]_vars
    PROVE  [Election!Next]_(Election!vars)
<1>1. CASE Topic
  <2>1. UNCHANGED <<offered, goroutine>>
    BY <1>1 DEF Topic, DispatchTask, StrayMessage, LoseMessage
  <2> QED
    BY <2>1, SameOutcomes
<1>2. ASSUME NEW a \in Auditors, NEW m \in inbox[a], ReceiveTask(a, m)
      PROVE  Election!Next
  <2>1. m.task \in Tasks
    BY DEF AuditorInv, TypeOK, Messages
  <2> QED
    BY <1>2, <2>1, ReceiveTaskBids DEF Election!Next
<1>3. ASSUME NEW a \in Auditors, PublishBidding(a)
      PROVE  UNCHANGED Election!vars
  <2> DEFINE t == current[a].task
  <2>1. goroutine[a][t] = "none" /\ t \in Tasks
    BY <1>3 DEF PublishBidding, AuditorInv, ListenersAreSound, Messages
  <2>2. goroutine' = [goroutine EXCEPT ![a][t] = "waiting"]
    BY <1>3 DEF PublishBidding
  <2>3. UNCHANGED offered
    BY <1>3 DEF PublishBidding
  <2> HIDE DEF t
  <2>4. \A b \in Auditors, u \in Tasks :
          \/ goroutine'[b][u] = goroutine[b][u]
          \/ goroutine[b][u] = "none" /\ goroutine'[b][u] = "waiting"
    BY <2>1, <2>2 DEF AuditorInv, TypeOK
  <2> QED
    BY <2>3, <2>4, SameOutcomes, OutcomeOfStage
<1>4. ASSUME NEW a \in Auditors, RecordPanics(a) \/ Crash(a)
      PROVE  Election!Next
  <2>1. Dies(a) /\ UNCHANGED offered
    BY <1>4 DEF RecordPanics, Crash
  <2> QED
    BY <2>1, DyingAbandons DEF Election!Next
<1>5. ASSUME NEW a \in Auditors, NEW m \in inbox[a],
             RejectUntrusted(a, m) \/ ReceiveBidding(a, m) \/ IgnoreTask(a, m)
      PROVE  UNCHANGED Election!vars
  <2>1. UNCHANGED <<offered, goroutine>>
    BY <1>5 DEF RejectUntrusted, ReceiveBidding, IgnoreTask
  <2> QED
    BY <2>1, SameOutcomes
<1>6. ASSUME NEW a \in Auditors,
             \/ RecordBidding(a) \/ PublishBiddingFails(a)
             \/ RefreshTrustees(a) \/ Restart(a)
      PROVE  UNCHANGED Election!vars
  <2>1. UNCHANGED <<offered, goroutine>>
    BY <1>6 DEF RecordBidding, PublishBiddingFails, RefreshTrustees, Restart
  <2> QED
    BY <2>1, SameOutcomes
<1>7. ASSUME NEW a \in Auditors, NEW t \in Tasks, CompareBids(a, t)
      PROVE  Election!Next
  BY <1>7, CompareBidsDecides DEF Election!Next
<1>8. ASSUME NEW a \in Auditors, NEW t \in Tasks,
             CloseBidding(a, t) \/ Validate(a, t) \/ PublishResult(a, t)
      PROVE  UNCHANGED Election!vars
  <2>1. UNCHANGED offered
    BY <1>8 DEF CloseBidding, Validate, PublishResult
  <2>2. \A b \in Auditors, u \in Tasks :
          \/ goroutine'[b][u] = goroutine[b][u]
          \/ goroutine[b][u] = "losing" /\ goroutine'[b][u] = "lost"
          \/ /\ goroutine[b][u] \in {"winning", "validating", "publishing"}
             /\ goroutine'[b][u] \in {"validating", "publishing", "skipped",
                                      "failed", "published"}
    <3> DEFINE Follows(old, new) ==
          \/ old = "losing" /\ new = "lost"
          \/ /\ old \in {"winning", "validating", "publishing"}
             /\ new \in {"validating", "publishing", "skipped", "failed",
                         "published"}
    <3>1. PICK s : /\ goroutine' = [goroutine EXCEPT ![a][t] = s]
                   /\ Follows(goroutine[a][t], s)
      <4>1. CASE CloseBidding(a, t)
        BY <4>1 DEF CloseBidding
      <4>2. CASE Validate(a, t)
        BY <4>2 DEF Validate
      <4>3. CASE PublishResult(a, t)
        BY <4>3 DEF PublishResult
      <4> QED
        BY <1>8, <4>1, <4>2, <4>3
    <3>2. \A b \in Auditors, u \in Tasks :
            \/ goroutine'[b][u] = goroutine[b][u]
            \/ Follows(goroutine[b][u], goroutine'[b][u])
      <4> HIDE DEF Follows
      <4> QED
        BY <3>1 DEF AuditorInv, TypeOK
    <3> QED
      BY <3>2
  <2> QED
    BY <2>1, <2>2, SameOutcomes, OutcomeOfStage
<1>9. CASE UNCHANGED vars
  <2>1. UNCHANGED <<offered, goroutine>>
    BY <1>9 DEF vars
  <2> QED
    BY <2>1, SameOutcomes
<1> QED
  BY <1>1, <1>2, <1>3, <1>4, <1>5, <1>6, <1>7, <1>8, <1>9
     DEF Next, Listener, Process, TaskGoroutine

(* The code of role/auditor implements the election on any topic, through  *)
(* lost and late messages, panics, crashes and restarts.                   *)
THEOREM Implements == Spec => ImplementsElection
<1>1. Init => Election!Init
  <2> SUFFICES ASSUME Init PROVE Election!Init
    OBVIOUS
  <2>1. \A a \in Auditors, t \in Tasks : Outcome(goroutine[a][t]) = "undecided"
    BY OutcomeOfStage DEF Init
  <2> QED
    BY <2>1 DEF Init, Election!Init
<1>2. AuditorInv /\ AuditorInv' /\ [Next]_vars
      => [Election!Next]_(Election!vars)
  BY StepRefines
<1> QED
  BY <1>1, <1>2, InvCorrect, PTL DEF Spec, ImplementsElection, Election!Spec

-----------------------------------------------------------------------------
(* The election on a timely topic                                          *)

\* The conditions under which the code of the bidding is meant to elect one
\* winner: the messages about a task are handled before the bids for it are
\* compared, only peers that the auditors trust write to the topic, and the
\* auditors trust one another.  Processes may die at any time.
TopicIsTimely ==
    /\ TimelyTopic = TRUE
    /\ Outsiders = {}
    /\ TrustViews = {Auditors}

\* The listener of a is in the middle of a message about t.
Handles(a, t) ==
    listener[a] \in {"recording", "bidding"} /\ current[a].task = t

\* Nothing is said about t any more.
Quiet(t) ==
    \A a \in Auditors :
        (\A m \in inbox[a] : m.task # t) /\ ~Handles(a, t)

BidIsOnItsWay(a, p, t) ==
    \E m \in inbox[a] : m.kind = "bidding" /\ m.from = p /\ m.task = t

\* The bid of p for t has not got lost on its way into the map of a, unless
\* a has no map for t and will not make one.
Told(a, p, t) ==
    \/ BidIsOnItsWay(a, p, t)
    \/ /\ listener[a] = "recording"
       /\ current[a].from = p
       /\ current[a].task = t
    \/ bidding[a][t] # NoEntry /\ bidding[a][t][p] = offered[p][t]
    \/ bidding[a][t] = NoEntry /\ ~TaskIsOnItsWay(a, t)

ListenersGoOn ==
    \A a \in Auditors : trustees[a] = Auditors /\ listener[a] # "returned"

DeadAreEmpty ==
    \A a \in Auditors : a \notin up =>
        /\ inbox[a] = {}
        /\ listener[a] = "next"
        /\ \A t \in Tasks : bidding[a][t] = NoEntry

EntriesAreOwn ==
    \A a \in Auditors, t \in Tasks :
        bidding[a][t] # NoEntry => offered[a][t] # NoBid

BidsArrive ==
    \A a, p \in Auditors, t \in Tasks :
        goroutine[p][t] # "none" => Told(a, p, t)

ComparedIsQuiet ==
    \A a \in Auditors, t \in Tasks :
        goroutine[a][t] \notin {"none", "waiting", "killed"} => Quiet(t)

WinnersAreHighest ==
    \A a, b \in Auditors, t \in Tasks :
        Won(a, t) /\ goroutine[b][t] # "none"
            => offered[b][t] <= offered[a][t]

(* The inductive invariant of a timely topic: no bid gets lost between its *)
(* announcement and the maps it is compared in, and once the bids for a    *)
(* task are compared nothing more is said about it.                        *)
TimelyInv ==
    /\ ListenersGoOn
    /\ DeadAreEmpty
    /\ EntriesAreOwn
    /\ BidsArrive
    /\ ComparedIsQuiet
    /\ WinnersAreHighest
    /\ NoWriteToResolved

(* At the start nobody has said anything.                                  *)
LEMMA TimelyInit == TopicIsTimely /\ Init => TimelyInv
<1> SUFFICES ASSUME TopicIsTimely, Init PROVE TimelyInv
  OBVIOUS
<1>1. ListenersGoOn
  BY DEF TopicIsTimely, Init, ListenersGoOn
<1>2. WinnersAreHighest
  BY DEF Init, WinnersAreHighest
<1> QED
  BY <1>1, <1>2
     DEF Init, TimelyInv, DeadAreEmpty, EntriesAreOwn, BidsArrive,
         ComparedIsQuiet, NoWriteToResolved

(* Whose stage reads as won has compared the bids.                         *)
LEMMA WonHasCompared ==
    ASSUME NEW a \in Auditors, NEW t \in Tasks, Won(a, t)
    PROVE  goroutine[a][t] \notin {"none", "waiting", "killed"}
BY Zenon DEF Won, Outcome

(* Who has compared the bids for t has an offer for t.                     *)
LEMMA PublishedBidIsANumber ==
    ASSUME AuditorInv, NEW a \in Auditors, NEW t \in Tasks,
           goroutine[a][t] # "none"
    PROVE  offered[a][t] \in Bids /\ offered[a][t] # NoBid /\ t \in dispatched
BY DEF AuditorInv, TypeOK, BiddersAreSound

(* On a topic without strangers a task that is on its way to an auditor is *)
(* one it has not bid for, and that all bids follow.                       *)
LEMMA TaskOnItsWayIsFresh ==
    ASSUME TopicIsTimely, AuditorInv, NEW a \in Auditors, NEW m \in inbox[a],
           m.kind = "task"
    PROVE  /\ m.from \in Trustors
           /\ m.task \in Tasks
           /\ m.task \in dispatched
           /\ offered[a][m.task] = NoBid
           /\ \A n \in inbox[a] :
                 n.kind = "task" /\ n.task = m.task => n = m
<1>1. inbox[a] \subseteq Messages
  BY DEF AuditorInv, TypeOK
<1>2. \A n \in inbox[a] : n.kind = "task" => TaskIsFresh(a, n)
  BY DEF AuditorInv, MessagesAreSound, GenuineBidding
<1>3. \A n \in inbox[a] : n.kind = "task" => n.from \in Trustors
  BY <1>2 DEF TaskIsFresh, TopicIsTimely
<1>4. m.task \in Tasks
  BY <1>1 DEF Messages
<1> QED
  BY <1>2, <1>3, <1>4 DEF TaskIsFresh

(* A step that leaves bids and goroutines alone and gives nobody more to   *)
(* handle keeps the invariant if no bid gets lost by it.                   *)
LEMMA TimelyQuietStep ==
    ASSUME TimelyInv, UNCHANGED <<bidding, offered, goroutine>>,
           ListenersGoOn', DeadAreEmpty', BidsArrive', NoWriteToResolved',
           \A t \in Tasks : Quiet(t) => Quiet(t)'
    PROVE  TimelyInv'
<1>1. EntriesAreOwn'
  BY DEF TimelyInv, EntriesAreOwn
<1>2. ComparedIsQuiet'
  BY DEF TimelyInv, ComparedIsQuiet
<1>3. WinnersAreHighest'
  BY DEF TimelyInv, WinnersAreHighest, Won
<1> QED
  BY <1>1, <1>2, <1>3 DEF TimelyInv

(* A new task: nobody has published a bid for it.                          *)
LEMMA DispatchKeepsTimely ==
    ASSUME TopicIsTimely, AuditorInv, AuditorInv', TimelyInv,
           NEW t \in Tasks, NEW d \in Trustors, DispatchTask(d, t)
    PROVE  TimelyInv'
<1> DEFINE n == [kind |-> "task", from |-> d, task |-> t, value |-> NoBid]
<1>1. n.kind = "task" /\ n.task = t
  OBVIOUS
<1>2. /\ t \notin dispatched
      /\ inbox' = Broadcast(inbox, n)
      /\ UNCHANGED <<up, trustees, listener, current, bidding, offered,
                     goroutine>>
  BY DEF DispatchTask, env
<1> HIDE DEF n
<1>3. \A a \in Auditors :
        inbox'[a] = IF a \in up THEN inbox[a] \cup {n} ELSE inbox[a]
  BY <1>2 DEF Broadcast
<1>4. \A a \in Auditors : goroutine[a][t] = "none"
  BY <1>2, PublishedBidIsANumber
<1>5. \A a \in Auditors : ~Handles(a, t)
  BY <1>2 DEF AuditorInv, ListenersAreSound, Handles, BiddersAreSound,
              OwnBidIsHeld, GenuineBidding, Messages
<1>6. ListenersGoOn' /\ DeadAreEmpty' /\ NoWriteToResolved'
  BY <1>2, <1>3
     DEF TimelyInv, ListenersGoOn, DeadAreEmpty, NoWriteToResolved
<1>7. BidsArrive'
  <2> SUFFICES ASSUME NEW a \in Auditors, NEW p \in Auditors, NEW u \in Tasks,
                      goroutine[p][u] # "none"
               PROVE  Told(a, p, u)'
    BY <1>2 DEF BidsArrive
  <2>1. u # t /\ Told(a, p, u)
    BY <1>4 DEF TimelyInv, BidsArrive
  <2>2. BidIsOnItsWay(a, p, u) => BidIsOnItsWay(a, p, u)'
    BY <1>3 DEF BidIsOnItsWay
  <2>3. ~TaskIsOnItsWay(a, u) => ~TaskIsOnItsWay(a, u)'
    BY <1>1, <1>3, <2>1 DEF TaskIsOnItsWay
  <2> QED
    BY <1>2, <2>1, <2>2, <2>3 DEF Told
<1>8. ComparedIsQuiet'
  <2> SUFFICES ASSUME NEW a \in Auditors, NEW u \in Tasks,
                      goroutine[a][u] \notin {"none", "waiting", "killed"}
               PROVE  Quiet(u)'
    BY <1>2 DEF ComparedIsQuiet
  <2>1. u # t /\ Quiet(u)
    BY <1>4 DEF TimelyInv, ComparedIsQuiet
  <2> QED
    BY <1>1, <1>2, <1>3, <2>1 DEF Quiet, Handles
<1>9. EntriesAreOwn'
  BY <1>2 DEF TimelyInv, EntriesAreOwn
<1>10. WinnersAreHighest'
  BY <1>2 DEF TimelyInv, WinnersAreHighest, Won
<1> QED
  BY <1>6, <1>7, <1>8, <1>9, <1>10 DEF TimelyInv

(* A bid that is taken from the topic is recorded, unless the task is none *)
(* of this auditor's: the topic hands it over after the task itself.       *)
LEMMA ReceiveBiddingKeepsTimely ==
    ASSUME TopicIsTimely, AuditorInv, AuditorInv', TimelyInv,
           NEW a \in Auditors, NEW m \in inbox[a], ReceiveBidding(a, m)
    PROVE  TimelyInv'
<1>1. /\ a \in up /\ listener[a] = "next"
      /\ m.kind = "bidding"
      /\ ~TaskIsOnItsWay(a, m.task)
      /\ inbox' = [inbox EXCEPT ![a] = @ \ {m}]
      /\ UNCHANGED <<up, trustees, dispatched, bidding, offered, goroutine>>
  BY DEF ReceiveBidding, Takes, TopicIsTimely, env
<1>2. \/ /\ bidding[a][m.task] = NoEntry
         /\ UNCHANGED <<listener, current>>
      \/ /\ bidding[a][m.task] # NoEntry
         /\ listener' = [listener EXCEPT ![a] = "recording"]
         /\ current' = [current EXCEPT ![a] = m]
  BY DEF ReceiveBidding
<1>3. inbox'[a] = inbox[a] \ {m} /\ \A b \in Auditors : b # a => inbox'[b] = inbox[b]
  BY <1>1 DEF AuditorInv, TypeOK
<1>4. \A b \in Auditors : b # a =>
        listener'[b] = listener[b] /\ current'[b] = current[b]
  BY <1>2 DEF AuditorInv, TypeOK
<1>5. \/ /\ bidding[a][m.task] = NoEntry
         /\ listener'[a] = "next"
      \/ /\ bidding[a][m.task] # NoEntry
         /\ listener'[a] = "recording"
         /\ current'[a] = m
  BY <1>1, <1>2 DEF AuditorInv, TypeOK
<1>6. ListenersGoOn'
  BY <1>1, <1>4, <1>5 DEF TimelyInv, ListenersGoOn
<1>7. DeadAreEmpty'
  BY <1>1, <1>3, <1>4 DEF TimelyInv, DeadAreEmpty
<1>8. NoWriteToResolved'
  BY <1>1, <1>4, <1>5 DEF TimelyInv, NoWriteToResolved
<1>9. ASSUME NEW t \in Tasks, Quiet(t) PROVE Quiet(t)'
  BY <1>3, <1>4, <1>5, <1>9 DEF Quiet, Handles
<1>10. BidsArrive'
  <2> SUFFICES ASSUME NEW b \in Auditors, NEW p \in Auditors, NEW u \in Tasks,
                      goroutine[p][u] # "none"
               PROVE  Told(b, p, u)'
    BY <1>1 DEF BidsArrive
  <2>1. Told(b, p, u)
    BY DEF TimelyInv, BidsArrive
  <2>2. CASE b # a
    BY <1>1, <1>3, <1>4, <2>1, <2>2
       DEF Told, BidIsOnItsWay, TaskIsOnItsWay
  <2>3. CASE b = a /\ m.from = p /\ m.task = u
    <3>1. ~TaskIsOnItsWay(a, u)'
      BY <1>1, <1>3, <2>3 DEF TaskIsOnItsWay
    <3> QED
      BY <1>1, <1>5, <2>3, <3>1 DEF Told
  <2>4. CASE b = a /\ ~(m.from = p /\ m.task = u)
    <3>1. BidIsOnItsWay(a, p, u) => BidIsOnItsWay(a, p, u)'
      BY <1>3, <2>4 DEF BidIsOnItsWay
    <3>2. ~TaskIsOnItsWay(a, u) => ~TaskIsOnItsWay(a, u)'
      BY <1>3 DEF TaskIsOnItsWay
    <3> QED
      BY <1>1, <2>1, <2>4, <3>1, <3>2 DEF Told
  <2> QED
    BY <2>2, <2>3, <2>4
<1> QED
  BY <1>1, <1>6, <1>7, <1>8, <1>9, <1>10, TimelyQuietStep

(* A task that is ignored leaves no map for the bids of others to go to.   *)
LEMMA IgnoreTaskKeepsTimely ==
    ASSUME TopicIsTimely, AuditorInv, AuditorInv', TimelyInv,
           NEW a \in Auditors, NEW m \in inbox[a], IgnoreTask(a, m)
    PROVE  TimelyInv'
<1>1. /\ a \in up
      /\ m.kind = "task"
      /\ inbox' = [inbox EXCEPT ![a] = @ \ {m}]
      /\ UNCHANGED <<up, trustees, dispatched, listener, current, bidding,
                     offered, goroutine>>
  BY DEF IgnoreTask, Takes, env
<1>2. \A b \in Auditors : inbox'[b] = IF b = a THEN inbox[b] \ {m} ELSE inbox[b]
  BY <1>1 DEF AuditorInv, TypeOK
<1>3. ListenersGoOn' /\ NoWriteToResolved'
  BY <1>1 DEF TimelyInv, ListenersGoOn, NoWriteToResolved
<1>4. DeadAreEmpty'
  BY <1>1, <1>2 DEF TimelyInv, DeadAreEmpty
<1>5. ASSUME NEW t \in Tasks, Quiet(t) PROVE Quiet(t)'
  BY <1>1, <1>2, <1>5 DEF Quiet, Handles
<1>6. BidsArrive'
  <2> SUFFICES ASSUME NEW b \in Auditors, NEW p \in Auditors, NEW u \in Tasks,
                      goroutine[p][u] # "none"
               PROVE  Told(b, p, u)'
    BY <1>1 DEF BidsArrive
  <2>1. Told(b, p, u)
    BY DEF TimelyInv, BidsArrive
  <2>2. BidIsOnItsWay(b, p, u) => BidIsOnItsWay(b, p, u)'
    BY <1>1, <1>2 DEF BidIsOnItsWay
  <2>3. ~TaskIsOnItsWay(b, u) => ~TaskIsOnItsWay(b, u)'
    BY <1>2 DEF TaskIsOnItsWay
  <2> QED
    BY <1>1, <2>1, <2>2, <2>3 DEF Told
<1> QED
  BY <1>1, <1>3, <1>4, <1>5, <1>6, TimelyQuietStep

(* An auditor that draws a number replaces no bid it was told of: it has   *)
(* read none yet.                                                          *)
LEMMA ReceiveTaskKeepsTimely ==
    ASSUME TopicIsTimely, AuditorInv, AuditorInv', TimelyInv,
           NEW a \in Auditors, NEW m \in inbox[a], ReceiveTask(a, m)
    PROVE  TimelyInv'
<1> DEFINE t == m.task
<1>1. PICK v \in Bids :
        /\ bidding' = [bidding EXCEPT ![a][t] = FirstEntry(a, v)]
        /\ offered' = [offered EXCEPT ![a][t] = v]
  BY DEF ReceiveTask
<1>2. /\ a \in up /\ listener[a] = "next"
      /\ m.kind = "task"
      /\ inbox' = [inbox EXCEPT ![a] = @ \ {m}]
      /\ listener' = [listener EXCEPT ![a] = "bidding"]
      /\ current' = [current EXCEPT ![a] = m]
      /\ UNCHANGED <<up, trustees, goroutine>>
  BY DEF ReceiveTask, Takes, env
<1>3. t \in Tasks /\ offered[a][t] = NoBid
  BY <1>2, TaskOnItsWayIsFresh
<1>4. ~TaskIsOnItsWay(a, t)'
  <2>1. \A n \in inbox[a] : n.kind = "task" /\ n.task = t => n = m
    BY <1>2, TaskOnItsWayIsFresh
  <2> QED
    BY <1>2, <2>1 DEF TaskIsOnItsWay, AuditorInv, TypeOK
<1>5. goroutine[a][t] = "none"
  BY <1>3, PublishedBidIsANumber
<1> HIDE DEF t
<1>6. TaskIsOnItsWay(a, t)
  BY <1>2 DEF TaskIsOnItsWay, t
<1>7. /\ \A b \in Auditors :
            inbox'[b] = IF b = a THEN inbox[b] \ {m} ELSE inbox[b]
      /\ \A b \in Auditors : b # a =>
            /\ listener'[b] = listener[b]
            /\ current'[b] = current[b]
            /\ bidding'[b] = bidding[b]
      /\ \A b \in Auditors, u \in Tasks : ~(b = a /\ u = t) =>
            bidding'[b][u] = bidding[b][u] /\ offered'[b][u] = offered[b][u]
  <2>1. \A b \in Auditors :
          inbox'[b] = IF b = a THEN inbox[b] \ {m} ELSE inbox[b]
    BY <1>2 DEF AuditorInv, TypeOK
  <2>2. \A b \in Auditors : b # a =>
          /\ listener'[b] = listener[b]
          /\ current'[b] = current[b]
          /\ bidding'[b] = bidding[b]
    BY <1>1, <1>2 DEF AuditorInv, TypeOK
  <2>3. \A b \in Auditors, u \in Tasks :
          ~(b = a /\ u = t) => bidding'[b][u] = bidding[b][u]
    BY <1>1 DEF AuditorInv, TypeOK
  <2>4. \A b \in Auditors, u \in Tasks :
          ~(b = a /\ u = t) => offered'[b][u] = offered[b][u]
    BY <1>1 DEF AuditorInv, TypeOK
  <2> QED
    BY <2>1, <2>2, <2>3, <2>4
<1>8. /\ offered'[a][t] = v /\ v # NoBid
      /\ listener'[a] = "bidding" /\ current'[a] = m
  BY <1>1, <1>2, <1>3, AuditorAssumption DEF AuditorInv, TypeOK, Bids
<1>9. ListenersGoOn'
  BY <1>2, <1>7, <1>8 DEF TimelyInv, ListenersGoOn
<1>10. DeadAreEmpty'
  BY <1>2, <1>7 DEF TimelyInv, DeadAreEmpty
<1>11. EntriesAreOwn'
  BY <1>7, <1>8 DEF TimelyInv, EntriesAreOwn
<1>12. \A u \in Tasks : Quiet(u) => u # t /\ Quiet(u)'
  BY <1>2, <1>7, <1>8 DEF Quiet, Handles, t
<1>13. BidsArrive'
  <2> SUFFICES ASSUME NEW b \in Auditors, NEW p \in Auditors, NEW u \in Tasks,
                      goroutine[p][u] # "none"
               PROVE  Told(b, p, u)'
    BY <1>2 DEF BidsArrive
  <2>1. Told(b, p, u) /\ offered'[p][u] = offered[p][u]
    BY <1>5, <1>7 DEF TimelyInv, BidsArrive
  <2>2. BidIsOnItsWay(b, p, u) => BidIsOnItsWay(b, p, u)'
    BY <1>2, <1>7 DEF BidIsOnItsWay
  <2>3. ~TaskIsOnItsWay(b, u) => ~TaskIsOnItsWay(b, u)'
    BY <1>7 DEF TaskIsOnItsWay
  <2>4. CASE b = a /\ u = t
    <3>1. bidding[a][t] = NoEntry
      BY <1>3 DEF TimelyInv, EntriesAreOwn
    <3>2. BidIsOnItsWay(b, p, u)
      BY <1>2, <1>6, <2>1, <2>4, <3>1 DEF Told
    <3> QED
      BY <2>2, <3>2 DEF Told
  <2>5. CASE ~(b = a /\ u = t)
    BY <1>2, <1>7, <2>1, <2>2, <2>3, <2>5 DEF Told
  <2> QED
    BY <2>4, <2>5
<1>14. ComparedIsQuiet'
  BY <1>2, <1>12 DEF TimelyInv, ComparedIsQuiet
<1>15. WinnersAreHighest'
  <2> SUFFICES ASSUME NEW b \in Auditors, NEW c \in Auditors, NEW u \in Tasks,
                      Won(b, u), goroutine[c][u] # "none"
               PROVE  offered'[c][u] <= offered'[b][u]
    BY <1>2 DEF WinnersAreHighest, Won
  <2>1. u # t
    BY <1>12, WonHasCompared DEF TimelyInv, ComparedIsQuiet
  <2> QED
    BY <1>7, <2>1 DEF TimelyInv, WinnersAreHighest
<1>16. NoWriteToResolved'
  <2> SUFFICES ASSUME NEW b \in Auditors, listener'[b] = "recording"
               PROVE  bidding'[b][current'[b].task] # NoEntry
    BY DEF NoWriteToResolved
  <2>1. b # a
    BY <1>8
  <2>2. bidding[b][current[b].task] # NoEntry
    BY <1>7, <2>1 DEF TimelyInv, NoWriteToResolved
  <2> QED
    BY <1>7, <2>1, <2>2
<1> QED
  BY <1>9, <1>10, <1>11, <1>13, <1>14, <1>15, <1>16 DEF TimelyInv

(* A bid that is entered is the one that was made.                         *)
LEMMA RecordBiddingKeepsTimely ==
    ASSUME TopicIsTimely, AuditorInv, AuditorInv', TimelyInv,
           NEW a \in Auditors, RecordBidding(a)
    PROVE  TimelyInv'
<1> DEFINE m == current[a]
           t == m.task
           f == [bidding[a][t] EXCEPT ![m.from] = m.value]
<1>1. m \in Messages /\ GenuineBidding(m)
  BY DEF RecordBidding, AuditorInv, ListenersAreSound
<1>2. /\ t \in Tasks /\ m.from \in Auditors
      /\ m.value = offered[m.from][t]
  BY <1>1 DEF Messages, GenuineBidding
<1>3. /\ bidding[a][t] # NoEntry
      /\ listener[a] = "recording"
      /\ bidding' = [bidding EXCEPT ![a] = [@ EXCEPT ![t] = f]]
      /\ listener' = [listener EXCEPT ![a] = "next"]
      /\ current' = [current EXCEPT ![a] = NoMessage]
      /\ UNCHANGED <<up, trustees, inbox, offered, goroutine>>
  BY DEF RecordBidding, env
<1> HIDE DEF m
<1>4. /\ \A b \in Auditors : b # a =>
            /\ listener'[b] = listener[b]
            /\ current'[b] = current[b]
            /\ bidding'[b] = bidding[b]
      /\ \A b \in Auditors, u \in Tasks :
            ~(b = a /\ u = t) => bidding'[b][u] = bidding[b][u]
  BY <1>2, <1>3 DEF AuditorInv, TypeOK
<1>5. listener'[a] = "next"
  BY <1>3 DEF AuditorInv, TypeOK
<1>6. bidding[a][t] \in [Auditors -> Bids \cup {NoBid}]
  BY <1>2, <1>3 DEF AuditorInv, TypeOK
<1>7. bidding'[a][t] = f
  <2> HIDE DEF f, t
  <2>1. t \in Tasks /\ bidding \in [Auditors -> [Tasks ->
           [Auditors -> Bids \cup {NoBid}] \cup {NoEntry}]]
    BY <1>2 DEF AuditorInv, TypeOK
  <2> QED
    BY <1>3, <2>1
<1>8. /\ f[m.from] = offered[m.from][t]
      /\ \A p \in Auditors : p # m.from => f[p] = bidding[a][t][p]
  BY <1>2, <1>6
<1>9. bidding'[a][t] # NoEntry
  <2>1. m.value \in Bids \cup {NoBid}
    BY <1>1 DEF Messages
  <2>2. bidding'[a][t] \in [Auditors -> Bids \cup {NoBid}]
    BY <1>2, <1>6, <1>7, <2>1
  <2> QED
    BY <2>2, AuditorAssumption
<1>10. a \in up
  BY <1>3 DEF TimelyInv, DeadAreEmpty
<1>11. ListenersGoOn'
  BY <1>3, <1>4, <1>5 DEF TimelyInv, ListenersGoOn
<1>12. DeadAreEmpty'
  BY <1>3, <1>4, <1>10 DEF TimelyInv, DeadAreEmpty
<1>13. EntriesAreOwn'
  BY <1>3, <1>4 DEF TimelyInv, EntriesAreOwn
<1>14. BidsArrive'
  <2> SUFFICES ASSUME NEW b \in Auditors, NEW p \in Auditors, NEW u \in Tasks,
                      goroutine[p][u] # "none"
               PROVE  Told(b, p, u)'
    BY <1>3 DEF BidsArrive
  <2>1. Told(b, p, u)
    BY DEF TimelyInv, BidsArrive
  <2>2. /\ BidIsOnItsWay(b, p, u) => BidIsOnItsWay(b, p, u)'
        /\ TaskIsOnItsWay(b, u)' <=> TaskIsOnItsWay(b, u)
    BY <1>3 DEF BidIsOnItsWay, TaskIsOnItsWay
  <2>3. CASE b = a /\ u = t
    <3>1. BidIsOnItsWay(b, p, u) \/ m.from = p \/ f[p] = offered[p][u]
      BY <1>3, <1>8, <2>1, <2>3 DEF Told, m
    <3> QED
      BY <1>2, <1>3, <1>7, <1>8, <1>9, <2>2, <2>3, <3>1 DEF Told
  <2>4. CASE ~(b = a /\ u = t)
    BY <1>3, <1>4, <2>1, <2>2, <2>4 DEF Told, m
  <2> QED
    BY <2>3, <2>4
<1>15. ComparedIsQuiet'
  <2>1. \A u \in Tasks : Quiet(u) => Quiet(u)'
    BY <1>3, <1>4, <1>5 DEF Quiet, Handles
  <2> QED
    BY <1>3, <2>1 DEF TimelyInv, ComparedIsQuiet
<1>16. WinnersAreHighest'
  BY <1>3 DEF TimelyInv, WinnersAreHighest, Won
<1>17. NoWriteToResolved'
  BY <1>4, <1>5 DEF TimelyInv, NoWriteToResolved
<1> QED
  BY <1>11, <1>12, <1>13, <1>14, <1>15, <1>16, <1>17 DEF TimelyInv

(* A published bid is on its way to every auditor that is running.         *)
LEMMA PublishBiddingKeepsTimely ==
    ASSUME TopicIsTimely, AuditorInv, AuditorInv', TimelyInv,
           NEW a \in Auditors, PublishBidding(a)
    PROVE  TimelyInv'
<1> DEFINE t == current[a].task
           n == [kind |-> "bidding", from |-> a, task |-> t,
                 value |-> offered[a][t]]
<1>1. /\ n.kind = "bidding" /\ n.from = a /\ n.task = t
      /\ t \in Tasks /\ OwnBidIsHeld(a, t) /\ goroutine[a][t] = "none"
  BY DEF PublishBidding, AuditorInv, ListenersAreSound, Messages
<1>2. /\ inbox' = Broadcast(inbox, n)
      /\ goroutine' = [goroutine EXCEPT ![a][t] = "waiting"]
      /\ listener' = [listener EXCEPT ![a] = "next"]
      /\ current' = [current EXCEPT ![a] = NoMessage]
      /\ UNCHANGED <<up, trustees, bidding, offered>>
  BY DEF PublishBidding, env
<1>3. Handles(a, t)
  BY DEF PublishBidding, Handles
<1>4. listener[a] = "bidding"
  BY DEF PublishBidding
<1> HIDE DEF n, t
<1>5. /\ \A b \in Auditors :
            inbox'[b] = IF b \in up THEN inbox[b] \cup {n} ELSE inbox[b]
      /\ \A b \in Auditors :
            b # a => listener'[b] = listener[b] /\ current'[b] = current[b]
      /\ \A b \in Auditors, u \in Tasks :
            ~(b = a /\ u = t) => goroutine'[b][u] = goroutine[b][u]
  BY <1>1, <1>2 DEF Broadcast, AuditorInv, TypeOK
<1>6. listener'[a] = "next" /\ goroutine'[a][t] = "waiting"
  BY <1>1, <1>2 DEF AuditorInv, TypeOK
<1>7. ListenersGoOn'
  BY <1>2, <1>5, <1>6 DEF TimelyInv, ListenersGoOn
<1>8. DeadAreEmpty'
  BY <1>2, <1>5, <1>6 DEF TimelyInv, DeadAreEmpty
<1>9. EntriesAreOwn'
  BY <1>2 DEF TimelyInv, EntriesAreOwn
<1>10. \A b \in Auditors, u \in Tasks :
         TaskIsOnItsWay(b, u)' <=> TaskIsOnItsWay(b, u)
  <2>1. \A b \in Auditors :
          inbox[b] \subseteq inbox'[b] /\ inbox'[b] \subseteq inbox[b] \cup {n}
    BY <1>5
  <2>2. \A b \in Auditors :
          \A m \in inbox'[b] : m.kind = "task" => m \in inbox[b]
    BY <1>1, <2>1
  <2> QED
    BY <2>1, <2>2 DEF TaskIsOnItsWay
<1>11. BidsArrive'
  <2> SUFFICES ASSUME NEW b \in Auditors, NEW p \in Auditors, NEW u \in Tasks,
                      goroutine'[p][u] # "none"
               PROVE  Told(b, p, u)'
    BY DEF BidsArrive
  <2>1. CASE p = a /\ u = t /\ b \in up
    BY <1>1, <1>5, <2>1 DEF Told, BidIsOnItsWay
  <2>2. CASE p = a /\ u = t /\ b \notin up
    <3>1. bidding[b][u] = NoEntry /\ ~TaskIsOnItsWay(b, u)
      BY <2>2 DEF TimelyInv, DeadAreEmpty, TaskIsOnItsWay
    <3> QED
      BY <1>2, <1>10, <3>1 DEF Told
  <2>3. CASE ~(p = a /\ u = t)
    <3>1. Told(b, p, u)
      BY <1>5, <2>3 DEF TimelyInv, BidsArrive
    <3>2. BidIsOnItsWay(b, p, u) => BidIsOnItsWay(b, p, u)'
      BY <1>5 DEF BidIsOnItsWay
    <3> QED
      BY <1>2, <1>4, <1>5, <1>10, <3>1, <3>2 DEF Told
  <2> QED
    BY <2>1, <2>2, <2>3
<1>12. \A u \in Tasks : Quiet(u) => u # t /\ Quiet(u)'
  <2> SUFFICES ASSUME NEW u \in Tasks, Quiet(u)
               PROVE  u # t /\ Quiet(u)'
    OBVIOUS
  <2>1. u # t
    BY <1>3 DEF Quiet
  <2>2. \A b \in Auditors : \A m \in inbox'[b] : m.task # u
    <3>1. \A b \in Auditors : inbox'[b] \subseteq inbox[b] \cup {n}
      BY <1>5
    <3> QED
      BY <1>1, <2>1, <3>1 DEF Quiet
  <2>3. \A b \in Auditors : ~Handles(b, u)'
    BY <1>5, <1>6 DEF Quiet, Handles
  <2> QED
    BY <2>1, <2>2, <2>3 DEF Quiet
<1>13. ComparedIsQuiet'
  <2> SUFFICES ASSUME NEW b \in Auditors, NEW u \in Tasks,
                      goroutine'[b][u] \notin {"none", "waiting", "killed"}
               PROVE  Quiet(u)'
    BY DEF ComparedIsQuiet
  <2>1. goroutine[b][u] \notin {"none", "waiting", "killed"}
    BY <1>5, <1>6
  <2> QED
    BY <1>12, <2>1 DEF TimelyInv, ComparedIsQuiet
<1>14. WinnersAreHighest'
  <2> SUFFICES ASSUME NEW b \in Auditors, NEW c \in Auditors, NEW u \in Tasks,
                      Won(b, u)', goroutine'[c][u] # "none"
               PROVE  offered[c][u] <= offered[b][u]
    BY <1>2 DEF WinnersAreHighest
  <2>1. goroutine'[b][u] \notin {"none", "waiting", "killed"}
    BY Zenon DEF Won, Outcome
  <2>2. goroutine'[b][u] = goroutine[b][u] /\ Won(b, u)
    BY <1>5, <1>6, <2>1 DEF Won
  <2>3. Quiet(u)
    BY <2>1, <2>2 DEF TimelyInv, ComparedIsQuiet
  <2>4. goroutine[c][u] # "none"
    BY <1>5, <1>12, <2>3
  <2> QED
    BY <2>2, <2>4 DEF TimelyInv, WinnersAreHighest
<1>15. NoWriteToResolved'
  BY <1>2, <1>5, <1>6 DEF TimelyInv, NoWriteToResolved
<1> QED
  BY <1>7, <1>8, <1>9, <1>11, <1>13, <1>14, <1>15 DEF TimelyInv

(* The bids are compared when all that were made have arrived, so the      *)
(* winner's is the highest of them.                                        *)
LEMMA CompareBidsKeepsTimely ==
    ASSUME TopicIsTimely, AuditorInv, AuditorInv', TimelyInv,
           NEW a \in Auditors, NEW t \in Tasks, CompareBids(a, t)
    PROVE  TimelyInv'
<1>1. /\ goroutine[a][t] = "waiting"
      /\ Settled(t)
      /\ goroutine' = [goroutine EXCEPT ![a][t] =
            IF OwnBidIsHighest(a, t) THEN "winning" ELSE "losing"]
      /\ UNCHANGED <<up, trustees, inbox, listener, current, bidding, offered>>
  BY DEF CompareBids, TopicIsTimely, env
<1>2. \A b \in Auditors, u \in Tasks :
        ~(b = a /\ u = t) => goroutine'[b][u] = goroutine[b][u]
  BY <1>1 DEF AuditorInv, TypeOK
<1>3. goroutine'[a][t] = IF OwnBidIsHighest(a, t) THEN "winning" ELSE "losing"
  BY <1>1 DEF AuditorInv, TypeOK
<1>4. \A b \in Auditors, u \in Tasks :
        goroutine'[b][u] # "none" => goroutine[b][u] # "none"
  BY <1>1, <1>2
<1>5. Quiet(t)
  <2> SUFFICES ASSUME NEW b \in Auditors
               PROVE  (\A m \in inbox[b] : m.task # t) /\ ~Handles(b, t)
    BY DEF Quiet
  <2>1. CASE b \notin up
    BY <2>1 DEF TimelyInv, DeadAreEmpty, Handles
  <2>2. CASE b \in up
    <3>1. /\ \A m \in inbox[b] : m.task # t
          /\ current[b] # NoMessage => current[b].task # t
      BY <1>1, <2>2 DEF Settled, TimelyInv, ListenersGoOn
    <3> QED
      BY <3>1, NoMessageAssumption
         DEF Handles, AuditorInv, ListenersAreSound
  <2> QED
    BY <2>1, <2>2
<1>6. /\ ListenersGoOn' /\ DeadAreEmpty' /\ EntriesAreOwn'
      /\ NoWriteToResolved'
  BY <1>1 DEF TimelyInv, ListenersGoOn, DeadAreEmpty, EntriesAreOwn,
              NoWriteToResolved
<1>7. BidsArrive'
  BY <1>1, <1>4 DEF TimelyInv, BidsArrive, Told, BidIsOnItsWay, TaskIsOnItsWay
<1>8. ComparedIsQuiet'
  <2> SUFFICES ASSUME NEW b \in Auditors, NEW u \in Tasks,
                      goroutine'[b][u] \notin {"none", "waiting", "killed"}
               PROVE  Quiet(u)'
    BY DEF ComparedIsQuiet
  <2>1. Quiet(u)
    BY <1>2, <1>5 DEF TimelyInv, ComparedIsQuiet
  <2> QED
    BY <1>1, <2>1 DEF Quiet, Handles
<1>9. WinnersAreHighest'
  <2> SUFFICES ASSUME NEW b \in Auditors, NEW c \in Auditors, NEW u \in Tasks,
                      Won(b, u)', goroutine[c][u] # "none"
               PROVE  offered[c][u] <= offered[b][u]
    BY <1>1, <1>4 DEF WinnersAreHighest
  <2>1. CASE ~(b = a /\ u = t)
    BY <1>2, <2>1 DEF TimelyInv, WinnersAreHighest, Won
  <2>2. CASE b = a /\ u = t
    <3>1. goroutine'[a][t] # "losing"
      BY <2>2, Zenon DEF Won, Outcome
    <3>2. OwnBidIsHighest(a, t)
      BY <1>3, <3>1
    <3>3. /\ bidding[a][t] # NoEntry
          /\ bidding[a][t][a] = offered[a][t]
      BY <1>1 DEF AuditorInv, WaiterHoldsOwnBid, OwnBidIsHeld
    <3>4. bidding[a][t][c] = offered[c][t]
      <4>1. ~BidIsOnItsWay(a, c, t) /\ ~Handles(a, t)
        BY <1>5 DEF Quiet, BidIsOnItsWay
      <4> QED
        BY <2>2, <3>3, <4>1 DEF TimelyInv, BidsArrive, Told, Handles
    <3>5. offered[a][t] # NoBid /\ offered[c][t] # NoBid
      BY <1>1, <2>2, PublishedBidIsANumber
    <3>6. BidHeld(a, t, a) = offered[a][t] /\ BidHeld(a, t, c) = offered[c][t]
      BY <3>3, <3>4, <3>5 DEF BidHeld
    <3> QED
      BY <2>2, <3>2, <3>6 DEF OwnBidIsHighest
  <2> QED
    BY <2>1, <2>2
<1> QED
  BY <1>6, <1>7, <1>8, <1>9 DEF TimelyInv

(* Nobody is in the middle of a bid when the map it belongs to is deleted. *)
LEMMA CloseBiddingKeepsTimely ==
    ASSUME TopicIsTimely, AuditorInv, AuditorInv', TimelyInv,
           NEW a \in Auditors, NEW t \in Tasks, CloseBidding(a, t)
    PROVE  TimelyInv'
<1>1. /\ goroutine[a][t] \in {"winning", "losing"}
      /\ bidding' = [bidding EXCEPT ![a][t] = NoEntry]
      /\ goroutine' = [goroutine EXCEPT ![a][t] =
            IF @ = "winning" THEN "validating" ELSE "lost"]
      /\ UNCHANGED <<up, trustees, inbox, listener, current, offered>>
  BY DEF CloseBidding, env
<1>2. \A b \in Auditors, u \in Tasks : ~(b = a /\ u = t) =>
        goroutine'[b][u] = goroutine[b][u] /\ bidding'[b][u] = bidding[b][u]
  BY <1>1 DEF AuditorInv, TypeOK
<1>3. /\ goroutine'[a][t] =
            IF goroutine[a][t] = "winning" THEN "validating" ELSE "lost"
      /\ bidding'[a][t] = NoEntry
  BY <1>1 DEF AuditorInv, TypeOK
<1>4. Quiet(t)
  BY <1>1 DEF TimelyInv, ComparedIsQuiet
<1>5. ListenersGoOn'
  BY <1>1 DEF TimelyInv, ListenersGoOn
<1>6. DeadAreEmpty'
  BY <1>1, <1>2, <1>3 DEF TimelyInv, DeadAreEmpty
<1>7. EntriesAreOwn'
  BY <1>1, <1>2, <1>3 DEF TimelyInv, EntriesAreOwn
<1>8. BidsArrive'
  <2> SUFFICES ASSUME NEW b \in Auditors, NEW p \in Auditors, NEW u \in Tasks,
                      goroutine'[p][u] # "none"
               PROVE  Told(b, p, u)'
    BY DEF BidsArrive
  <2>1. Told(b, p, u)
    BY <1>1, <1>2 DEF TimelyInv, BidsArrive
  <2>2. CASE b = a /\ u = t
    BY <1>1, <1>3, <1>4, <2>2 DEF Told, TaskIsOnItsWay, Quiet
  <2>3. CASE ~(b = a /\ u = t)
    BY <1>1, <1>2, <2>1, <2>3 DEF Told, BidIsOnItsWay, TaskIsOnItsWay
  <2> QED
    BY <2>2, <2>3
<1>9. ComparedIsQuiet'
  <2> SUFFICES ASSUME NEW b \in Auditors, NEW u \in Tasks,
                      goroutine'[b][u] \notin {"none", "waiting", "killed"}
               PROVE  Quiet(u)'
    BY DEF ComparedIsQuiet
  <2>1. Quiet(u)
    BY <1>2, <1>4 DEF TimelyInv, ComparedIsQuiet
  <2> QED
    BY <1>1, <2>1 DEF Quiet, Handles
<1>10. WinnersAreHighest'
  <2> SUFFICES ASSUME NEW b \in Auditors, NEW c \in Auditors, NEW u \in Tasks,
                      Won(b, u)', goroutine'[c][u] # "none"
               PROVE  offered[c][u] <= offered[b][u]
    BY <1>1 DEF WinnersAreHighest
  <2>1. goroutine[c][u] # "none"
    BY <1>1, <1>2
  <2>2. Won(b, u)
    <3>1. CASE b = a /\ u = t
      <4>1. goroutine'[a][t] # "lost"
        BY <3>1, Zenon DEF Won, Outcome
      <4>2. goroutine[a][t] = "winning"
        BY <1>3, <4>1
      <4> QED
        BY <3>1, <4>2 DEF Won, Outcome
    <3>2. CASE ~(b = a /\ u = t)
      BY <1>2, <3>2 DEF Won
    <3> QED
      BY <3>1, <3>2
  <2> QED
    BY <2>1, <2>2 DEF TimelyInv, WinnersAreHighest
<1>11. NoWriteToResolved'
  <2> SUFFICES ASSUME NEW b \in Auditors, listener[b] = "recording"
               PROVE  bidding'[b][current[b].task] # NoEntry
    BY <1>1 DEF NoWriteToResolved
  <2>1. current[b].task \in Tasks /\ current[b].task # t
    BY <1>4 DEF Quiet, Handles, AuditorInv, ListenersAreSound, Messages
  <2> QED
    BY <1>2, <2>1 DEF TimelyInv, NoWriteToResolved
<1> QED
  BY <1>5, <1>6, <1>7, <1>8, <1>9, <1>10, <1>11 DEF TimelyInv

(* The validation is no concern of the bidding.                            *)
LEMMA ValidationKeepsTimely ==
    ASSUME TopicIsTimely, AuditorInv, AuditorInv', TimelyInv,
           NEW a \in Auditors, NEW t \in Tasks,
           Validate(a, t) \/ PublishResult(a, t)
    PROVE  TimelyInv'
<1>1. /\ goroutine[a][t] \in {"validating", "publishing"}
      /\ goroutine'[a][t] \in {"publishing", "published", "skipped", "failed"}
      /\ \A b \in Auditors, u \in Tasks :
            ~(b = a /\ u = t) => goroutine'[b][u] = goroutine[b][u]
      /\ UNCHANGED <<up, trustees, inbox, listener, current, bidding, offered>>
  BY DEF Validate, PublishResult, env, AuditorInv, TypeOK
<1>2. /\ ListenersGoOn' /\ DeadAreEmpty' /\ EntriesAreOwn'
      /\ NoWriteToResolved'
  BY <1>1 DEF TimelyInv, ListenersGoOn, DeadAreEmpty, EntriesAreOwn,
              NoWriteToResolved
<1>3. \A b \in Auditors, u \in Tasks :
        goroutine'[b][u] # "none" => goroutine[b][u] # "none"
  BY <1>1
<1>4. BidsArrive'
  BY <1>1, <1>3 DEF TimelyInv, BidsArrive, Told, BidIsOnItsWay, TaskIsOnItsWay
<1>5. ComparedIsQuiet'
  <2> SUFFICES ASSUME NEW b \in Auditors, NEW u \in Tasks,
                      goroutine'[b][u] \notin {"none", "waiting", "killed"}
               PROVE  Quiet(u)'
    BY DEF ComparedIsQuiet
  <2>1. goroutine[b][u] \notin {"none", "waiting", "killed"}
    BY <1>1
  <2> QED
    BY <1>1, <2>1 DEF TimelyInv, ComparedIsQuiet, Quiet, Handles
<1>6. WinnersAreHighest'
  <2> SUFFICES ASSUME NEW b \in Auditors, NEW c \in Auditors, NEW u \in Tasks,
                      Won(b, u)', goroutine[c][u] # "none"
               PROVE  offered[c][u] <= offered[b][u]
    BY <1>1, <1>3 DEF WinnersAreHighest
  <2>1. Won(a, t)
    BY <1>1 DEF Won, Outcome
  <2>2. Won(b, u)
    BY <1>1, <2>1 DEF Won
  <2> QED
    BY <2>2 DEF TimelyInv, WinnersAreHighest
<1> QED
  BY <1>2, <1>4, <1>5, <1>6 DEF TimelyInv

(* A process that dies takes its maps with it, and has nothing to record.  *)
LEMMA DyingKeepsTimely ==
    ASSUME TopicIsTimely, AuditorInv, AuditorInv', TimelyInv,
           NEW a \in Auditors, Dies(a), UNCHANGED <<trustees, offered>>
    PROVE  TimelyInv'
<1>1. \A b \in Auditors : b # a =>
        /\ inbox'[b] = inbox[b]
        /\ listener'[b] = listener[b]
        /\ current'[b] = current[b]
        /\ bidding'[b] = bidding[b]
        /\ goroutine'[b] = goroutine[b]
  BY DEF Dies, AuditorInv, TypeOK
<1>2. /\ up' = up \ {a}
      /\ inbox'[a] = {}
      /\ listener'[a] = "next"
      /\ \A t \in Tasks : bidding'[a][t] = NoEntry
  BY DEF Dies, AuditorInv, TypeOK
<1>3. \A t \in Tasks :
        \/ goroutine'[a][t] = "killed" /\ goroutine[a][t] # "none"
        \/ goroutine'[a][t] = goroutine[a][t]
        \/ goroutine'[a][t] = "lost" /\ goroutine[a][t] = "losing"
  BY DEF Dies, AuditorInv, TypeOK, Stages, Finished
<1>4. \A b \in Auditors, t \in Tasks :
        goroutine'[b][t] # "none" => goroutine[b][t] # "none"
  BY <1>1, <1>3
<1>5. ListenersGoOn'
  BY <1>1, <1>2 DEF TimelyInv, ListenersGoOn
<1>6. DeadAreEmpty'
  BY <1>1, <1>2 DEF TimelyInv, DeadAreEmpty
<1>7. EntriesAreOwn'
  BY <1>1, <1>2 DEF TimelyInv, EntriesAreOwn
<1>8. BidsArrive'
  <2> SUFFICES ASSUME NEW b \in Auditors, NEW p \in Auditors, NEW u \in Tasks,
                      goroutine[p][u] # "none"
               PROVE  Told(b, p, u)'
    BY <1>4 DEF BidsArrive
  <2>1. CASE b = a
    BY <1>2, <2>1 DEF Told, TaskIsOnItsWay
  <2>2. CASE b # a
    BY <1>1, <2>2
       DEF TimelyInv, BidsArrive, Told, BidIsOnItsWay, TaskIsOnItsWay
  <2> QED
    BY <2>1, <2>2
<1>9. ComparedIsQuiet'
  <2> SUFFICES ASSUME NEW b \in Auditors, NEW u \in Tasks,
                      goroutine'[b][u] \notin {"none", "waiting", "killed"}
               PROVE  Quiet(u)'
    BY DEF ComparedIsQuiet
  <2>1. goroutine[b][u] \notin {"none", "waiting", "killed"}
    BY <1>1, <1>3
  <2>2. Quiet(u)
    BY <2>1 DEF TimelyInv, ComparedIsQuiet
  <2> QED
    BY <1>1, <1>2, <2>2 DEF Quiet, Handles
<1>10. WinnersAreHighest'
  <2> SUFFICES ASSUME NEW b \in Auditors, NEW c \in Auditors, NEW u \in Tasks,
                      Won(b, u)', goroutine[c][u] # "none"
               PROVE  offered[c][u] <= offered[b][u]
    BY <1>4 DEF WinnersAreHighest
  <2>1. goroutine'[b][u] \notin {"killed", "lost"}
    BY Zenon DEF Won, Outcome
  <2>2. goroutine'[b][u] = goroutine[b][u]
    BY <1>1, <1>3, <2>1
  <2> QED
    BY <2>2 DEF Won, TimelyInv, WinnersAreHighest
<1>11. NoWriteToResolved'
  BY <1>1, <1>2 DEF TimelyInv, NoWriteToResolved
<1> QED
  BY <1>5, <1>6, <1>7, <1>8, <1>9, <1>10, <1>11 DEF TimelyInv

(* A process that starts, or reads the list of trusted peers again, has    *)
(* missed no bid that it will look for.                                    *)
LEMMA ProcessKeepsTimely ==
    ASSUME TopicIsTimely, AuditorInv, AuditorInv', TimelyInv,
           NEW a \in Auditors, RefreshTrustees(a) \/ Restart(a)
    PROVE  TimelyInv'
<1>1. /\ up \subseteq up'
      /\ trustees' = [trustees EXCEPT ![a] = Auditors]
      /\ UNCHANGED <<inbox, listener, current, bidding, offered, goroutine>>
  BY DEF RefreshTrustees, Restart, TopicIsTimely
<1>2. ListenersGoOn'
  BY <1>1 DEF TimelyInv, ListenersGoOn, AuditorInv, TypeOK
<1>3. DeadAreEmpty' /\ NoWriteToResolved'
  BY <1>1 DEF TimelyInv, DeadAreEmpty, NoWriteToResolved
<1>4. BidsArrive'
  BY <1>1 DEF TimelyInv, BidsArrive, Told, BidIsOnItsWay, TaskIsOnItsWay
<1>5. \A t \in Tasks : Quiet(t) => Quiet(t)'
  BY <1>1 DEF Quiet, Handles
<1> QED
  BY <1>1, <1>2, <1>3, <1>4, <1>5, TimelyQuietStep

(* A bid that could not be published is one that nobody has to hear of: no *)
(* goroutine is started for it.                                            *)
LEMMA PublishBiddingFailsKeepsTimely ==
    ASSUME AuditorInv, TimelyInv, NEW a \in Auditors, PublishBiddingFails(a)
    PROVE  TimelyInv'
<1>1. /\ listener[a] = "bidding"
      /\ listener' = [listener EXCEPT ![a] = "next"]
      /\ current' = [current EXCEPT ![a] = NoMessage]
      /\ UNCHANGED <<up, trustees, inbox, bidding, offered, goroutine>>
  BY DEF PublishBiddingFails, env
<1>2. DOMAIN listener = Auditors /\ DOMAIN current = Auditors
  BY DEF AuditorInv, TypeOK
<1>3. \A b \in Auditors :
        /\ listener'[b] = IF b = a THEN "next" ELSE listener[b]
        /\ b # a => current'[b] = current[b]
  BY <1>1, <1>2
<1>4. ListenersGoOn' /\ DeadAreEmpty'
  BY <1>1, <1>3 DEF TimelyInv, ListenersGoOn, DeadAreEmpty
<1>5. NoWriteToResolved'
  BY <1>1, <1>3 DEF TimelyInv, NoWriteToResolved
<1>6. BidsArrive'
  <2> SUFFICES ASSUME NEW b \in Auditors, NEW p \in Auditors, NEW t \in Tasks,
                      goroutine[p][t] # "none"
               PROVE  Told(b, p, t)'
    BY <1>1 DEF BidsArrive
  <2>1. Told(b, p, t)
    BY DEF TimelyInv, BidsArrive
  <2>2. listener[b] = "recording" =>
          listener'[b] = listener[b] /\ current'[b] = current[b]
    BY <1>1, <1>3
  <2> QED
    BY <1>1, <2>1, <2>2 DEF Told, BidIsOnItsWay, TaskIsOnItsWay
<1>7. \A t \in Tasks : Quiet(t) => Quiet(t)'
  BY <1>1, <1>3 DEF Quiet, Handles
<1> QED
  BY <1>1, <1>4, <1>5, <1>6, <1>7, TimelyQuietStep

(* The invariant of a timely topic is inductive.                           *)
LEMMA TimelyInductive ==
    TopicIsTimely /\ AuditorInv /\ AuditorInv' /\ TimelyInv /\ [Next]_vars
    => TimelyInv'
<1> SUFFICES ASSUME TopicIsTimely, AuditorInv, AuditorInv', TimelyInv,
                    [Next]_vars
             PROVE  TimelyInv'
  OBVIOUS
<1>1. CASE Topic
  <2>1. ~\E p \in Outsiders : \E t \in Tasks : StrayMessage(p, t)
    BY DEF TopicIsTimely
  <2>2. ~\E a \in Auditors : \E m \in inbox[a] : LoseMessage(a, m)
    BY DEF TopicIsTimely, LoseMessage
  <2> QED
    BY <1>1, <2>1, <2>2, DispatchKeepsTimely DEF Topic
<1>2. ASSUME NEW a \in Auditors, NEW m \in inbox[a], RejectUntrusted(a, m)
      PROVE  TimelyInv'
  <2>1. m.from \in Auditors \cup Trustors
    BY DEF TopicIsTimely, AuditorInv, TypeOK, Messages, Peers
  <2>2. trustees[a] = Auditors
    BY DEF TimelyInv, ListenersGoOn
  <2> QED
    BY <1>2, <2>1, <2>2 DEF RejectUntrusted, IsTrusted
<1>3. ASSUME NEW a \in Auditors, NEW m \in inbox[a],
             ReceiveBidding(a, m) \/ IgnoreTask(a, m) \/ ReceiveTask(a, m)
      PROVE  TimelyInv'
  BY <1>3, ReceiveBiddingKeepsTimely, IgnoreTaskKeepsTimely,
     ReceiveTaskKeepsTimely
<1>4. ASSUME NEW a \in Auditors, RecordBidding(a) \/ PublishBidding(a)
      PROVE  TimelyInv'
  BY <1>4, RecordBiddingKeepsTimely, PublishBiddingKeepsTimely
<1>5. ASSUME NEW a \in Auditors, RecordPanics(a) \/ PublishBiddingFails(a)
      PROVE  TimelyInv'
  BY <1>5, PublishBiddingFailsKeepsTimely
     DEF RecordPanics, TimelyInv, NoWriteToResolved
<1>6. ASSUME NEW a \in Auditors, Process(a)
      PROVE  TimelyInv'
  BY <1>6, DyingKeepsTimely, ProcessKeepsTimely DEF Process, Crash
<1>7. ASSUME NEW a \in Auditors, NEW t \in Tasks, TaskGoroutine(a, t)
      PROVE  TimelyInv'
  BY <1>7, CompareBidsKeepsTimely, CloseBiddingKeepsTimely,
     ValidationKeepsTimely DEF TaskGoroutine
<1>8. CASE UNCHANGED vars
  <2>1. /\ ListenersGoOn' /\ DeadAreEmpty' /\ NoWriteToResolved'
    BY <1>8 DEF vars, TimelyInv, ListenersGoOn, DeadAreEmpty,
                NoWriteToResolved
  <2>2. BidsArrive'
    BY <1>8 DEF vars, TimelyInv, BidsArrive, Told, BidIsOnItsWay,
                TaskIsOnItsWay
  <2>3. \A t \in Tasks : Quiet(t) => Quiet(t)'
    BY <1>8 DEF vars, Quiet, Handles
  <2> QED
    BY <1>8, <2>1, <2>2, <2>3, TimelyQuietStep DEF vars
<1> QED
  BY <1>1, <1>2, <1>3, <1>4, <1>5, <1>6, <1>7, <1>8 DEF Next, Listener

(* On a timely topic the invariant of the election always holds, whichever *)
(* processes die.                                                          *)
THEOREM TimelyCorrect ==
    ASSUME TopicIsTimely PROVE Spec => []TimelyInv
<1>1. Init => TimelyInv
  BY TimelyInit
<1>2. AuditorInv /\ AuditorInv' /\ TimelyInv /\ [Next]_vars => TimelyInv'
  BY TimelyInductive
<1> QED
  BY <1>1, <1>2, InvCorrect, PTL DEF Spec

(* On a timely topic two auditors validate the same task only when their   *)
(* bids tie.                                                               *)
THEOREM OneWinnerUnlessTiedAlways ==
    ASSUME TopicIsTimely PROVE Spec => []OneWinnerUnlessTied
<1>1. AuditorInv /\ TimelyInv => OneWinnerUnlessTied
  <2> SUFFICES ASSUME AuditorInv, TimelyInv, NEW t \in Tasks,
                      NEW a \in Auditors, NEW b \in Auditors,
                      Won(a, t), Won(b, t)
               PROVE  offered[a][t] = offered[b][t]
    BY DEF OneWinnerUnlessTied
  <2>1. goroutine[a][t] # "none" /\ goroutine[b][t] # "none"
    BY WonHasCompared
  <2>2. offered[a][t] <= offered[b][t] /\ offered[b][t] <= offered[a][t]
    BY <2>1 DEF TimelyInv, WinnersAreHighest
  <2>3. offered[a][t] \in Nat /\ offered[b][t] \in Nat
    BY <2>1, PublishedBidIsANumber DEF Bids
  <2> QED
    BY <2>2, <2>3
<1> QED
  BY <1>1, InvCorrect, TimelyCorrect, PTL

(* On a timely topic no bid is written into a map that was deleted: the    *)
(* listener does not panic.                                                *)
THEOREM NoWriteToResolvedAlways ==
    ASSUME TopicIsTimely PROVE Spec => []NoWriteToResolved
<1>1. TimelyInv => NoWriteToResolved
  BY DEF TimelyInv
<1> QED
  BY <1>1, TimelyCorrect, PTL

=============================================================================
