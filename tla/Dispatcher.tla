----------------------------- MODULE Dispatcher ------------------------------
(***************************************************************************)
(* role/dispatcher/dispatcher.go: the polling loop of one module, and the  *)
(* calls that the HTTP handlers make (Create, Remove), over the table of   *)
(* task definitions.  Loops of different modules read disjoint rows.       *)
(*                                                                         *)
(* The loop takes a snapshot of the definitions that are due, then goes    *)
(* through it; a dispatch broadcasts the task first and records it in the  *)
(* row afterwards.  Other requests, failures and crashes come in between.  *)
(*                                                                         *)
(* Time is discrete.  Instead of updated_at a row has the time left until  *)
(* updated_at + interval_seconds < now holds.                              *)
(***************************************************************************)
EXTENDS Naturals, FiniteSets

CONSTANTS
    Definitions,   \* identifiers of task definitions
    Intervals,     \* the interval_seconds that clients ask for
    Jitter,        \* additionalJitter draws from 0 .. Jitter - 1
    CheckInterval, \* the loop sleeps this long after a round
    MaxFaults,     \* bound: failed calls of the database, and crashes
    NoRow,         \* the table has no such row
    NoDefinition   \* the loop dispatches nothing

ASSUME DispatcherAssumption ==
    /\ Intervals \subseteq Nat
    \* interval_seconds is a uint32, so one of them is the longest
    /\ \E n \in Intervals : \A m \in Intervals : m <= n
    /\ Jitter \in Nat \ {0}    \* rand.Int panics on an empty range
    /\ CheckInterval \in Nat
    /\ MaxFaults \in Nat
    /\ NoDefinition \notin Definitions

Longest == CHOOSE n \in Intervals : \A m \in Intervals : m <= n
Rows == [interval : Intervals, dispatched : BOOLEAN, left : Nat]

ASSUME NoRowAssumption == NoRow \notin Rows

VARIABLES
    rows,      \* rows[d]: the row of d; dispatched is dispatched_times # 0
    snapshot,  \* the definitions of this round not yet reached
    recording, \* the definition just broadcast whose row is to be updated
    wake,      \* time left until the loop polls again
    request,   \* request[d]: where the call of Create for d is
    faults,    \* how many of these there were so far
    since,     \* since[d]: history, time since d was last broadcast, up to
               \* Longest + 1
    sent,      \* sent[d]: history, how often d was broadcast, up to 2
    removed,   \* history: definitions whose Remove returned
    late       \* late[d]: history, broadcasts of d after that

vars == <<rows, snapshot, recording, wake, request, faults, since, sent,
          removed, late>>
tableVars == <<rows, removed>>
loopVars == <<snapshot, recording, wake>>
history == <<since, sent, late>>

Exists(d) == rows[d] # NoRow
Periodic(d) == Exists(d) /\ rows[d].interval > 0

TypeOK ==
    /\ rows \in [Definitions -> Rows \cup {NoRow}]
    /\ snapshot \subseteq Definitions
    /\ recording \in Definitions \cup {NoDefinition}
    /\ wake \in 0 .. CheckInterval
    /\ request \in [Definitions -> {"none", "inserted", "recording", "ok",
                                    "failed"}]
    /\ faults \in 0 .. MaxFaults
    /\ since \in [Definitions -> 0 .. Longest + 1]
    /\ sent \in [Definitions -> 0 .. 2]
    /\ removed \subseteq Definitions
    /\ late \in [Definitions -> Nat]

Init ==
    /\ rows = [d \in Definitions |-> NoRow]
    /\ snapshot = {}
    /\ recording = NoDefinition
    /\ wake = 0
    /\ request = [d \in Definitions |-> "none"]
    /\ faults = 0
    /\ since = [d \in Definitions |-> 0]
    /\ sent = [d \in Definitions |-> 0]
    /\ removed = {}
    /\ late = [d \in Definitions |-> 0]

\* A call of the database fails, or the process does.
Fault == faults < MaxFaults /\ faults' = faults + 1

\* Broadcasting the task of d, with a task identifier of its own.
Broadcast(d) ==
    /\ since' = [since EXCEPT ![d] = 0]
    /\ sent' = [sent EXCEPT ![d] = IF @ = 2 THEN 2 ELSE @ + 1]
    /\ late' = [late EXCEPT ![d] = IF d \in removed THEN @ + 1 ELSE @]

\* Mutant of Record: updated_at keeps its value.
RecordCountOnly(d) ==
    rows' = [rows EXCEPT ![d] =
        IF @ = NoRow THEN NoRow ELSE [@ EXCEPT !.dispatched = TRUE]]

\* UPDATE definitions SET dispatched_times = dispatched_times + 1,
\* updated_at = now + jitter WHERE id = d.
Record(d) ==
    \E jitter \in 0 .. (Jitter - 1) :
        rows' = [rows EXCEPT ![d] =
            IF @ = NoRow THEN NoRow
            ELSE [@ EXCEPT !.dispatched = TRUE,
                           !.left = jitter + rows[d].interval + 1]]

-----------------------------------------------------------------------------
Minus1(n) == IF n = 0 THEN 0 ELSE n - 1

Tick ==
    /\ rows' = [d \in Definitions |->
          IF Exists(d) THEN [rows[d] EXCEPT !.left = Minus1(@)] ELSE NoRow]
    /\ wake' = Minus1(wake)
    /\ since' = [d \in Definitions |->
          IF since[d] > Longest THEN since[d] ELSE since[d] + 1]
    /\ UNCHANGED <<snapshot, recording, request, faults, sent, removed, late>>

-----------------------------------------------------------------------------
(* The loop of Start                                                       *)

\* Mutants of Due: one-off definitions are polled too; periodic ones are
\* not polled a second time.
DueWithoutInterval(d) ==
    /\ Exists(d)
    /\ ~rows[d].dispatched \/ rows[d].left = 0
DueOnce(d) == Periodic(d) /\ ~rows[d].dispatched

\* The WHERE clause of the poll.
Due(d) ==
    /\ Periodic(d)
    /\ ~rows[d].dispatched \/ rows[d].left = 0

AtRest == recording = NoDefinition /\ snapshot = {}

\* A round with nothing due leads straight back to the sleep.
PollDefinitions ==
    /\ AtRest
    /\ wake = 0
    /\ snapshot' = {d \in Definitions : Due(d)}
    /\ wake' = IF snapshot' = {} THEN CheckInterval ELSE 0
    /\ UNCHANGED <<tableVars, recording, request, faults, history>>

PollFails ==
    /\ AtRest
    /\ wake = 0
    /\ Fault
    /\ wake' = CheckInterval
    /\ UNCHANGED <<tableVars, snapshot, recording, request, history>>

\* Mutant of GoOn: the sleep is lengthened by the jitter.
GoOnWithJitter(d) ==
    /\ snapshot' = snapshot \ {d}
    /\ wake' = IF snapshot' = {} THEN CheckInterval + Jitter ELSE 0

\* What the loop does about d is done; the last one is followed by the sleep.
GoOn(d) ==
    /\ snapshot' = snapshot \ {d}
    /\ wake' = IF snapshot' = {} THEN CheckInterval ELSE 0

\* dispatchOnce up to the end of Publish.
DispatchTask(d) ==
    /\ recording = NoDefinition
    /\ d \in snapshot
    /\ Broadcast(d)
    /\ recording' = d
    /\ UNCHANGED <<tableVars, snapshot, wake, request, faults>>

\* GetTask makes no task (no deal of the provider is known) or fails, or
\* Publish fails: on to the next one.  This may happen in every round.
SkipTask(d) ==
    /\ recording = NoDefinition
    /\ d \in snapshot
    /\ GoOn(d)
    /\ UNCHANGED <<tableVars, recording, request, faults, history>>

RecordDispatch ==
    /\ recording # NoDefinition
    /\ Record(recording)
    /\ GoOn(recording)
    /\ recording' = NoDefinition
    /\ UNCHANGED <<removed, request, faults, history>>

RecordDispatchFails ==
    /\ recording # NoDefinition
    /\ Fault
    /\ GoOn(recording)
    /\ recording' = NoDefinition
    /\ UNCHANGED <<tableVars, request, history>>

-----------------------------------------------------------------------------
(* Requests                                                                *)

\* Create up to the INSERT; only an interval of 0 is dispatched at once.
\* A client may post a row that counts as dispatched before.
Create(d) ==
    /\ request[d] = "none"
    /\ \E interval \in Intervals, dispatched \in BOOLEAN :
          /\ rows' = [rows EXCEPT ![d] =
                [interval |-> interval, dispatched |-> dispatched,
                 left |-> interval + 1]]
          /\ request' = [request EXCEPT ![d] =
                IF interval = 0 THEN "inserted" ELSE "ok"]
    /\ UNCHANGED <<removed, loopVars, faults, history>>

CreateDispatches(d) ==
    /\ request[d] = "inserted"
    /\ Broadcast(d)
    /\ request' = [request EXCEPT ![d] = "recording"]
    /\ UNCHANGED <<tableVars, loopVars, faults>>

CreateRecords(d) ==
    /\ request[d] = "recording"
    /\ Record(d)
    /\ request' = [request EXCEPT ![d] = "ok"]
    /\ UNCHANGED <<removed, loopVars, faults, history>>

\* GetTask makes no task or fails, or Publish fails; the row stays.
CreateSkipsTask(d) ==
    /\ request[d] = "inserted"
    /\ request' = [request EXCEPT ![d] = "failed"]
    /\ UNCHANGED <<tableVars, loopVars, faults, history>>

\* The UPDATE fails.
CreateFails(d) ==
    /\ request[d] = "recording"
    /\ Fault
    /\ request' = [request EXCEPT ![d] = "failed"]
    /\ UNCHANGED <<tableVars, loopVars, history>>

\* Mutant of Remove: the row stays, as with an id that is not found.
RemoveNothing(d) ==
    /\ Exists(d)
    /\ removed' = removed \cup {d}
    /\ UNCHANGED <<rows, loopVars, request, faults, history>>

Remove(d) ==
    /\ Exists(d)
    /\ rows' = [rows EXCEPT ![d] = NoRow]
    /\ removed' = removed \cup {d}
    /\ UNCHANGED <<loopVars, request, faults, history>>

-----------------------------------------------------------------------------
\* The process ends and is started again; only the table remains.
Crash ==
    /\ Fault
    /\ snapshot' = {}
    /\ recording' = NoDefinition
    /\ wake' = 0
    /\ request' = [d \in Definitions |->
          IF request[d] \in {"inserted", "recording"} THEN "failed"
          ELSE request[d]]
    /\ UNCHANGED <<tableVars, history>>

Loop ==
    \/ PollDefinitions
    \/ PollFails
    \/ \E d \in Definitions : DispatchTask(d) \/ SkipTask(d)
    \/ RecordDispatch
    \/ RecordDispatchFails

Request(d) ==
    \/ Create(d)
    \/ CreateDispatches(d)
    \/ CreateRecords(d)
    \/ CreateSkipsTask(d)
    \/ CreateFails(d)
    \/ Remove(d)

Next ==
    \/ Tick
    \/ Loop
    \/ \E d \in Definitions : Request(d)
    \/ Crash

Spec == Init /\ [][Next]_vars

\* Time passes, and the loop goes on when its sleep is over.
FairSpec == Spec /\ WF_vars(Tick) /\ WF_vars(Loop)

-----------------------------------------------------------------------------
(* A task definition without an interval is broadcast at most once: no     *)
(* failure, crash or poll makes the dispatcher send it again.              *)
OneOffIsSentOnce ==
    \A d \in Definitions :
        Exists(d) /\ rows[d].interval = 0 => sent[d] <= 1

(* After Remove returned at most the one broadcast follows for which the   *)
(* loop, or the request that made the definition, was already on its way.  *)
AtMostOneBroadcastAfterRemove ==
    \A d \in Definitions : late[d] <= 1

(* While nothing fails, two broadcasts of one definition are further apart *)
(* than its interval, however the loop, the requests and the clock mix.    *)
NeverTooSoon ==
    [][\A d \in Definitions :
          /\ recording' = d /\ recording # d
          /\ faults = 0 /\ sent[d] > 0 /\ Exists(d)
          => since[d] > rows[d].interval]_vars

\* When the loop comes to d over and over, GetTask makes a task, and Publish
\* takes it, over and over; any number of rounds in between may be in vain.
TaskIsMadeAtTimes(d) == SF_vars(DispatchTask(d))

(* A definition with an interval for which there is a task at times is     *)
(* broadcast over and over until it is removed, however often there was no *)
(* task for it or for the others, and whatever the database failed to do   *)
(* and crashes interrupted, as long as these come to an end.               *)
PeriodicIsSentAgain ==
    \A d \in Definitions :
        TaskIsMadeAtTimes(d) =>
            (Periodic(d) ~> (~Exists(d) \/ (sent[d] > 0 /\ since[d] = 0)))
=============================================================================
