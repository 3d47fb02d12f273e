------------------------------- MODULE Auditor -------------------------------
(***************************************************************************)
(* role/auditor/auditor.go: a fleet of auditors that receive tasks over    *)
(* one public pubsub topic and bid for them.                               *)
(*                                                                         *)
(* Every auditor runs one listener goroutine (Start), which handles one    *)
(* message at a time, and one more goroutine per task it bid for, which    *)
(* sleeps biddingWait, compares the bids it heard of, and validates the    *)
(* task if none was higher than its own.  The two kinds of goroutine share *)
(* the map a.bidding under biddingLock; every critical section of that     *)
(* lock is one action here.  Each auditor is a process of its own: an      *)
(* unrecovered panic in any goroutine ends all of them.                    *)
(***************************************************************************)
EXTENDS Naturals, FiniteSets

CONSTANTS
    Auditors,   \* the peers that run this code
    Trustors,   \* peers trusted by configuration; they broadcast the tasks
    Outsiders,  \* peers of the public topic that nobody trusts
    Tasks,      \* task identifiers, each made by uuid.New() for one broadcast
    BidLimit,   \* bids are drawn from 0 .. BidLimit - 1
    TrustViews, \* the trustee sets a trust.Manager can hold
    TimelyTopic, \* TRUE: the topic is as quick as biddingWait hopes for
    MaxCrashes, \* bound: how many times some process dies by itself
    NoBid,      \* no number bid
    NoEntry,    \* no key in the map a.bidding
    NoMessage   \* the listener handles nothing

Bids == 0 .. (BidLimit - 1)

ASSUME AuditorAssumption ==
    /\ BidLimit \in Nat \ {0}
    /\ MaxCrashes \in Nat
    /\ TimelyTopic \in BOOLEAN
    /\ TrustViews \subseteq SUBSET Auditors
    /\ NoBid \notin Nat
    /\ NoEntry \notin [Auditors -> Bids \cup {NoBid}]
    /\ Auditors \cap Trustors = {}
    /\ Outsiders \cap (Auditors \cup Trustors) = {}

Peers == Auditors \cup Trustors \cup Outsiders

\* A broadcast task carries no number: its value is NoBid.
Messages ==
    [kind : {"task", "bidding"}, from : Peers, task : Tasks,
     value : Bids \cup {NoBid}]

ASSUME NoMessageAssumption == NoMessage \notin Messages

VARIABLES
    up,         \* the auditors whose process is running
    crashes,    \* how many processes died by themselves so far
    dispatched, \* the tasks a trustor has broadcast
    inbox,      \* inbox[a]: messages the topic has still to hand to a
    trustees,   \* trustees[a]: trustManager.trustees of a
    listener,   \* listener[a]: where the goroutine of Start is
    current,    \* current[a]: the message that goroutine is in the middle of
    bidding,    \* bidding[a][t]: a.bidding[t], or NoEntry
    offered,    \* offered[a][t]: history, the number a drew for t
    goroutine   \* goroutine[a][t]: where a's goroutine for task t is

env == <<up, crashes, trustees>>
vars == <<up, crashes, dispatched, inbox, trustees, listener, current,
          bidding, offered, goroutine>>

Finished == {"lost", "published", "failed", "skipped", "killed"}
Stages == Finished \cup
    {"none", "waiting", "winning", "losing", "validating", "publishing"}

\* An entry of the inner map that is absent reads as 0.
BidHeld(a, t, p) ==
    IF bidding[a][t] = NoEntry \/ bidding[a][t][p] = NoBid
    THEN 0 ELSE bidding[a][t][p]

TypeOK ==
    /\ up \subseteq Auditors
    /\ crashes \in 0 .. MaxCrashes
    /\ dispatched \subseteq Tasks
    /\ inbox \in [Auditors -> SUBSET Messages]
    /\ trustees \in [Auditors -> SUBSET Auditors]
    /\ listener \in [Auditors -> {"next", "recording", "bidding", "returned"}]
    /\ current \in [Auditors -> Messages \cup {NoMessage}]
    /\ bidding \in [Auditors ->
                      [Tasks -> [Auditors -> Bids \cup {NoBid}] \cup {NoEntry}]]
    /\ offered \in [Auditors -> [Tasks -> Bids \cup {NoBid}]]
    /\ goroutine \in [Auditors -> [Tasks -> Stages]]

Init ==
    /\ up = Auditors
    /\ crashes = 0
    /\ dispatched = {}
    /\ inbox = [a \in Auditors |-> {}]
    /\ trustees \in [Auditors -> TrustViews]
    /\ listener = [a \in Auditors |-> "next"]
    /\ current = [a \in Auditors |-> NoMessage]
    /\ bidding = [a \in Auditors |-> [t \in Tasks |-> NoEntry]]
    /\ offered = [a \in Auditors |-> [t \in Tasks |-> NoBid]]
    /\ goroutine = [a \in Auditors |-> [t \in Tasks |-> "none"]]

-----------------------------------------------------------------------------
(* The topic (external).  A message reaches each running subscriber at     *)
(* most once, the sender included, in any order, or gets lost.  The code   *)
(* is written for a topic that is better than that, one on which within    *)
(* biddingWait (10 s by default) the task reaches everybody before the     *)
(* bids for it do, and nothing published is lost: TimelyTopic asserts just *)
(* this.  That Publish may fail holds of any topic.                        *)

Broadcast(box, m) ==
    [a \in Auditors |-> IF a \in up THEN box[a] \cup {m} ELSE box[a]]

\* The dispatcher broadcasts a task (dispatcher.go:128).
DispatchTask(d, t) ==
    /\ t \notin dispatched
    /\ dispatched' = dispatched \cup {t}
    /\ inbox' = Broadcast(inbox,
          [kind |-> "task", from |-> d, task |-> t, value |-> NoBid])
    /\ UNCHANGED <<env, listener, current, bidding, offered, goroutine>>

\* A peer nobody trusts writes to the public topic.
StrayMessage(p, t) ==
    /\ inbox' = Broadcast(inbox,
          [kind |-> "task", from |-> p, task |-> t, value |-> NoBid])
    /\ UNCHANGED <<env, dispatched, listener, current, bidding, offered,
                   goroutine>>

LoseMessage(a, m) ==
    /\ ~TimelyTopic
    /\ inbox' = [inbox EXCEPT ![a] = @ \ {m}]
    /\ UNCHANGED <<env, dispatched, listener, current, bidding, offered,
                   goroutine>>

\* One round of trust.Manager.Start replaces the whole set (trust.go:214).
RefreshTrustees(a) ==
    /\ a \in up
    /\ \E view \in TrustViews : trustees' = [trustees EXCEPT ![a] = view]
    /\ UNCHANGED <<up, crashes, dispatched, inbox, listener, current, bidding,
                   offered, goroutine>>

-----------------------------------------------------------------------------
(* The listener goroutine                                                  *)

IsTrusted(a, p) == p \in trustees[a] \cup Trustors

\* Mutant of Takes: a message that was handed over is handed over again.
TakesCopy(a, m) ==
    /\ a \in up
    /\ listener[a] = "next"
    /\ m \in inbox[a]
    /\ UNCHANGED inbox

\* Next hands message m to the listener of a.
Takes(a, m) ==
    /\ a \in up
    /\ listener[a] = "next"
    /\ m \in inbox[a]
    /\ inbox' = [inbox EXCEPT ![a] = @ \ {m}]

\* A message of an untrusted peer: the goroutine returns, for good.
RejectUntrusted(a, m) ==
    /\ Takes(a, m)
    /\ ~IsTrusted(a, m.from)
    /\ listener' = [listener EXCEPT ![a] = "returned"]
    /\ UNCHANGED <<env, dispatched, current, bidding, offered, goroutine>>

TaskIsOnItsWay(a, t) ==
    \E m \in inbox[a] : m.kind = "task" /\ m.task = t

\* handleBiddingMessage up to the first RUnlock: is the task still open?
ReceiveBidding(a, m) ==
    /\ Takes(a, m)
    /\ IsTrusted(a, m.from)
    /\ m.kind = "bidding"
    /\ TimelyTopic => ~TaskIsOnItsWay(a, m.task)
    /\ IF bidding[a][m.task] = NoEntry
       THEN UNCHANGED <<listener, current>>
       ELSE /\ listener' = [listener EXCEPT ![a] = "recording"]
            /\ current' = [current EXCEPT ![a] = m]
    /\ UNCHANGED <<env, dispatched, bidding, offered, goroutine>>

\* The process of a is gone, with its memory and its subscription.
Dies(a) ==
    /\ up' = up \ {a}
    /\ inbox' = [inbox EXCEPT ![a] = {}]
    /\ listener' = [listener EXCEPT ![a] = "next"]
    /\ current' = [current EXCEPT ![a] = NoMessage]
    /\ bidding' = [bidding EXCEPT ![a] = [t \in Tasks |-> NoEntry]]
    /\ goroutine' = [goroutine EXCEPT ![a] =
          [t \in Tasks |-> CASE @[t] \in Finished \cup {"none"} -> @[t]
                             [] @[t] = "losing" -> "lost"
                             [] OTHER -> "killed"]]

\* Mutant of RecordBidding: the bid is entered for the receiver itself.
RecordAsOwn(a) ==
    LET m == current[a] IN
    /\ listener[a] = "recording"
    /\ bidding[a][m.task] # NoEntry
    /\ bidding' = [bidding EXCEPT ![a][m.task][a] = m.value]
    /\ listener' = [listener EXCEPT ![a] = "next"]
    /\ current' = [current EXCEPT ![a] = NoMessage]
    /\ UNCHANGED <<env, dispatched, inbox, offered, goroutine>>

\* handleBiddingMessage, the write section.
RecordBidding(a) ==
    LET m == current[a] IN
    /\ listener[a] = "recording"
    /\ bidding[a][m.task] # NoEntry
    /\ bidding' = [bidding EXCEPT ![a][m.task][m.from] = m.value]
    /\ listener' = [listener EXCEPT ![a] = "next"]
    /\ current' = [current EXCEPT ![a] = NoMessage]
    /\ UNCHANGED <<env, dispatched, inbox, offered, goroutine>>

\* The same section after resolveBidding deleted the key: a write to a nil
\* map, which panics.
RecordPanics(a) ==
    /\ listener[a] = "recording"
    /\ bidding[a][current[a].task] = NoEntry
    /\ Dies(a)
    /\ UNCHANGED <<crashes, dispatched, trustees, offered>>

\* A task that is malformed, of an unknown type, or not for this auditor
\* (ShouldValidate is false or fails).
IgnoreTask(a, m) ==
    /\ Takes(a, m)
    /\ IsTrusted(a, m.from)
    /\ m.kind = "task"
    /\ UNCHANGED <<env, dispatched, listener, current, bidding, offered,
                   goroutine>>

\* The map that makeBidding stores for a new task: the own bid alone.
FirstEntry(a, v) == [p \in Auditors |-> IF p = a THEN v ELSE NoBid]

\* makeBidding up to Unlock: draw a number and open the entry.
ReceiveTask(a, m) ==
    /\ Takes(a, m)
    /\ IsTrusted(a, m.from)
    /\ m.kind = "task"
    /\ \E v \in Bids :
          /\ bidding' = [bidding EXCEPT ![a][m.task] = FirstEntry(a, v)]
          /\ offered' = [offered EXCEPT ![a][m.task] = v]
    /\ listener' = [listener EXCEPT ![a] = "bidding"]
    /\ current' = [current EXCEPT ![a] = m]
    /\ UNCHANGED <<env, dispatched, goroutine>>

\* The rest of makeBidding when Publish succeeds, and the go statement.
PublishBidding(a) ==
    LET t == current[a].task IN
    /\ listener[a] = "bidding"
    /\ inbox' = Broadcast(inbox,
          [kind |-> "bidding", from |-> a, task |-> t,
           value |-> offered[a][t]])
    /\ goroutine' = [goroutine EXCEPT ![a][t] = "waiting"]
    /\ listener' = [listener EXCEPT ![a] = "next"]
    /\ current' = [current EXCEPT ![a] = NoMessage]
    /\ UNCHANGED <<env, dispatched, bidding, offered>>

\* Publish fails: the listener goes on, no goroutine is started, and the
\* entry stays behind for as long as the process runs.
PublishBiddingFails(a) ==
    /\ listener[a] = "bidding"
    /\ listener' = [listener EXCEPT ![a] = "next"]
    /\ current' = [current EXCEPT ![a] = NoMessage]
    /\ UNCHANGED <<env, dispatched, inbox, bidding, offered, goroutine>>

-----------------------------------------------------------------------------
(* The goroutine of one task                                               *)

\* Mutants of OwnBidIsHighest: a tie loses; not every bid is looked at.
OwnBidIsTheOnlyHighest(a, t) ==
    \A p \in Auditors \ {a} : BidHeld(a, t, p) < BidHeld(a, t, a)
OwnBidIsNotLowest(a, t) ==
    \E p \in Auditors : BidHeld(a, t, p) <= BidHeld(a, t, a)

\* No bid heard of is higher than the own one: maxBid, which starts at 0,
\* equals a.bidding[TaskID][a.peerID].
OwnBidIsHighest(a, t) ==
    \A p \in Auditors : BidHeld(a, t, p) <= BidHeld(a, t, a)

\* Mutant of Settled: resolveBidding does not sleep.
NoSleep(t) == TRUE

\* Every live listener is through with what was sent about t.
Settled(t) ==
    \A b \in up : listener[b] # "returned" =>
        /\ \A m \in inbox[b] : m.task # t
        /\ current[b] # NoMessage => current[b].task # t

\* resolveBidding after the sleep: the RLock section.
CompareBids(a, t) ==
    /\ goroutine[a][t] = "waiting"
    /\ TimelyTopic => Settled(t)
    /\ goroutine' = [goroutine EXCEPT ![a][t] =
          IF OwnBidIsHighest(a, t) THEN "winning" ELSE "losing"]
    /\ UNCHANGED <<env, dispatched, inbox, listener, current, bidding, offered>>

\* Mutant of CloseBidding: only the way out of the winner deletes the key.
CloseWonBidding(a, t) ==
    /\ goroutine[a][t] \in {"winning", "losing"}
    /\ bidding' = IF goroutine[a][t] = "winning"
                  THEN [bidding EXCEPT ![a][t] = NoEntry] ELSE bidding
    /\ goroutine' = [goroutine EXCEPT ![a][t] =
          IF @ = "winning" THEN "validating" ELSE "lost"]
    /\ UNCHANGED <<env, dispatched, inbox, listener, current, offered>>

\* resolveBidding: the deferred section that deletes the key.
CloseBidding(a, t) ==
    /\ goroutine[a][t] \in {"winning", "losing"}
    /\ bidding' = [bidding EXCEPT ![a][t] = NoEntry]
    /\ goroutine' = [goroutine EXCEPT ![a][t] =
          IF @ = "winning" THEN "validating" ELSE "lost"]
    /\ UNCHANGED <<env, dispatched, inbox, listener, current, offered>>

\* CallServer under the timeout: a result, no result, or an error.
Validate(a, t) ==
    /\ goroutine[a][t] = "validating"
    /\ \E next \in {"publishing", "skipped", "failed"} :
          goroutine' = [goroutine EXCEPT ![a][t] = next]
    /\ UNCHANGED <<env, dispatched, inbox, listener, current, bidding, offered>>

\* resultPublisher.Publish under what is left of the same timeout.
PublishResult(a, t) ==
    /\ goroutine[a][t] = "publishing"
    /\ \E next \in {"published", "failed"} :
          goroutine' = [goroutine EXCEPT ![a][t] = next]
    /\ UNCHANGED <<env, dispatched, inbox, listener, current, bidding, offered>>

-----------------------------------------------------------------------------
Crash(a) ==
    /\ a \in up
    /\ crashes < MaxCrashes
    /\ crashes' = crashes + 1
    /\ Dies(a)
    /\ UNCHANGED <<dispatched, trustees, offered>>

\* A new process: NewAuditor and NewManager start from empty maps.
Restart(a) ==
    /\ a \notin up
    /\ up' = up \cup {a}
    /\ \E view \in TrustViews : trustees' = [trustees EXCEPT ![a] = view]
    /\ UNCHANGED <<crashes, dispatched, inbox, listener, current, bidding,
                   offered, goroutine>>

Topic ==
    \/ \E t \in Tasks : \/ \E d \in Trustors : DispatchTask(d, t)
                        \/ \E p \in Outsiders : StrayMessage(p, t)
    \/ \E a \in Auditors : \E m \in inbox[a] : LoseMessage(a, m)

Listener(a) ==
    \/ \E m \in inbox[a] :
          \/ RejectUntrusted(a, m)
          \/ ReceiveBidding(a, m)
          \/ IgnoreTask(a, m)
          \/ ReceiveTask(a, m)
    \/ RecordBidding(a)
    \/ RecordPanics(a)
    \/ PublishBidding(a)
    \/ PublishBiddingFails(a)

TaskGoroutine(a, t) ==
    \/ CompareBids(a, t)
    \/ CloseBidding(a, t)
    \/ Validate(a, t)
    \/ PublishResult(a, t)

Process(a) == RefreshTrustees(a) \/ Crash(a) \/ Restart(a)

Next ==
    \/ Topic
    \/ \E a \in Auditors :
          Listener(a) \/ Process(a) \/ \E t \in Tasks : TaskGoroutine(a, t)

Spec == Init /\ [][Next]_vars

\* Both kinds of goroutine run whenever they can: Go schedules them fairly,
\* and every call they make returns (sleep, lock, publish, the timeout).
FairSpec ==
    /\ Spec
    /\ \A a \in Auditors : WF_vars(Listener(a))
    /\ \A a \in Auditors, t \in Tasks : WF_vars(TaskGoroutine(a, t))

-----------------------------------------------------------------------------
(* Safety, on any topic                                                    *)

(* A number in a.bidding is the one its owner drew: the comparison is never *)
(* made with a stale or foreign bid.                                       *)
HeldBidsAreGenuine ==
    \A a \in Auditors, t \in Tasks :
        bidding[a][t] # NoEntry =>
            \A p \in Auditors : bidding[a][t][p] \in {NoBid, offered[p][t]}

OwnBidIsHeld(a, t) ==
    /\ offered[a][t] # NoBid
    /\ bidding[a][t] # NoEntry
    /\ bidding[a][t][a] = offered[a][t]

(* A goroutine about to compare finds its own bid in the map; without the  *)
(* key both sides of the comparison read 0 and it would win unopposed.     *)
WaiterHoldsOwnBid ==
    \A a \in Auditors, t \in Tasks :
        goroutine[a][t] = "waiting" => OwnBidIsHeld(a, t)

\* A message that says what a peer really bid.
GenuineBidding(m) ==
    /\ m.kind = "bidding"
    /\ m.from \in Auditors
    /\ m.value # NoBid
    /\ m.value = offered[m.from][m.task]

\* A task from a trustor is handed to an auditor once: it has not bid yet.
TaskIsFresh(a, m) ==
    /\ m.kind = "task"
    /\ m.from \in Trustors \cup Outsiders
    /\ m.from \in Trustors =>
          /\ m.task \in dispatched
          /\ offered[a][m.task] = NoBid
          /\ \A n \in inbox[a] :
                n.kind = "task" /\ n.from \in Trustors /\ n.task = m.task
                => n = m

MessagesAreSound ==
    \A a \in Auditors : \A m \in inbox[a] :
        GenuineBidding(m) \/ TaskIsFresh(a, m)

ListenersAreSound ==
    \A a \in Auditors :
        /\ listener[a] \in {"recording", "bidding"} => current[a] \in Messages
        /\ listener[a] = "recording" => GenuineBidding(current[a])
        /\ listener[a] = "bidding" =>
              /\ OwnBidIsHeld(a, current[a].task)
              /\ goroutine[a][current[a].task] = "none"

BiddersAreSound ==
    \A a \in Auditors, t \in Tasks :
        /\ goroutine[a][t] # "none" => offered[a][t] # NoBid
        /\ offered[a][t] # NoBid => t \in dispatched
        /\ goroutine[a][t] \in {"losing", "lost"} =>
              \E p \in Auditors :
                  offered[p][t] # NoBid /\ offered[p][t] > offered[a][t]

(* The inductive invariant behind the election: what is in a message, in a *)
(* map or in the listener's hands is a bid that its owner really made, and *)
(* an auditor is handed a task only before it bids.                        *)
AuditorInv ==
    /\ TypeOK
    /\ MessagesAreSound
    /\ ListenersAreSound
    /\ BiddersAreSound
    /\ HeldBidsAreGenuine
    /\ WaiterHoldsOwnBid

\* How the stage of a goroutine reads as an outcome of the election.
Outcome(stage) ==
    CASE stage \in {"none", "waiting"} -> "undecided"
      [] stage \in {"losing", "lost"} -> "lost"
      [] stage = "killed" -> "abandoned"
      [] OTHER -> "won"

Election == INSTANCE TaskElection WITH
    bid <- offered,
    outcome <- [a \in Auditors |->
                  [t \in Tasks |-> Outcome(goroutine[a][t])]]

(* The auditors implement the election: whatever the topic loses, reorders *)
(* or delays, and whoever crashes, one bid per task, and no task is given  *)
(* up in favour of a bid that was not made.                                *)
ImplementsElection == Election!Spec

(* An auditor that lets a task go was outbid by a peer that really bid.    *)
LoserIsOutbid == Election!LoserIsOutbid

(* The bidders of a task never all leave it to one another.                *)
SomebodyWins == Election!SomebodyWins

-----------------------------------------------------------------------------
(* What the code does only on a timely topic                               *)

Won(a, t) == Outcome(goroutine[a][t]) = "won"

(* Two auditors validate the same task only when their bids tie.           *)
OneWinnerUnlessTied ==
    \A t \in Tasks : \A a, b \in Auditors :
        Won(a, t) /\ Won(b, t) => offered[a][t] = offered[b][t]

(* A bid is never written for a task whose key is gone: auditor.go:245     *)
(* takes such a bid for resolved and drops it, and writing it panics.      *)
NoWriteToResolved ==
    \A a \in Auditors :
        listener[a] = "recording" => bidding[a][current[a].task] # NoEntry

(* Every bidding that was announced is closed: whether the task is won or  *)
(* lost, and however the validation ends, its key is deleted.  A key whose *)
(* bid could not be published (auditor.go:138, :284) has no goroutine that *)
(* would delete it, and stays.                                             *)
BiddingCloses ==
    \A a \in Auditors, t \in Tasks :
        (goroutine[a][t] # "none" /\ bidding[a][t] # NoEntry)
        ~> bidding[a][t] = NoEntry

(* A task for which anybody's bid was announced is carried out by somebody *)
(* who announced one, although others drew a higher number and could not   *)
(* publish it: on a topic that hands over every published message in time, *)
(* while processes run.                                                    *)
BiddingLeadsToWork ==
    \A t \in Tasks :
        (\E a \in Auditors : goroutine[a][t] # "none")
        ~> \E a \in Auditors :
              goroutine[a][t] \in {"published", "skipped", "failed"}
=============================================================================
