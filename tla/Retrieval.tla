------------------------------ MODULE Retrieval ------------------------------
(***************************************************************************)
(* module/retrieval: the validations that retrieve data from a storage     *)
(* provider, in one server process.  Validate (retrieval.go) tries the     *)
(* protocols that a task prefers, one after the other, under a semaphore;  *)
(* for each, Retrieve (graphsync.go, bitswap.go) starts a goroutine and    *)
(* waits for the first result sent on the unbuffered channel done.         *)
(*                                                                         *)
(* The goroutine, and with GraphSync the event handlers of filclient,      *)
(* outlive the Retrieve that started them: nobody stops or awaits them.    *)
(***************************************************************************)
EXTENDS Naturals, Sequences

CONSTANTS
    Validations, \* calls of Validate in this process
    MaxJobs,     \* weight of the semaphore sem
    Preferences, \* the ProtocolPreference lists of tasks
    NoResult     \* the map results has no entry

Protocols == {"GraphSync", "bitswap"}

\* What a list may name: "http" stands for all that Validate has no case for.
Listed == Protocols \cup {"http"}

ASSUME RetrievalAssumption ==
    /\ MaxJobs \in Nat \ {0}
    /\ Preferences \subseteq Seq(Listed)

\* "query_failure" stands for what RetrievalQuery leads to: also for
\* query_response_unavailable, query_response_error and proposal_failure.
Failures == {"query_failure", "retrieve_failure", "data_transfer_failure"}
Sent == Failures \cup {"success"}
Statuses == Sent \cup {"skipped", "miner_error", "no_multi_address",
                       "retrieve_timeout"}
Returned == {"result", "nil", "error"}
Running == {"started", "next", "probing"} \cup Protocols

ASSUME NoResultAssumption == NoResult \notin Statuses

VARIABLES
    up,         \* the process is running
    jobs,       \* weight held of sem
    pc,         \* pc[v]: where Validate is; a protocol: in its Retrieve
    left,       \* left[v]: the protocols it has not tried yet
    results,    \* results[v][p]: the entry for p of the map results
    lastStatus, \* lastStatus[v]
    hosts,      \* hosts[v]: the protocols whose libp2p host is open, and
                \* "forgotten" if a host is that nothing refers to
    goroutine,  \* goroutine[v]: the goroutine of the latest Retrieve
    senders,    \* senders[v]: those blocked on the latest channel done, in order
    timedOut,   \* timedOut[v]: the context of the latest Retrieve is done
    completed   \* completed[v]: history, protocols that delivered the data

vars == <<up, jobs, pc, left, results, lastStatus, hosts, goroutine, senders,
          timedOut, completed>>
report == <<results, lastStatus>>
attempt == <<goroutine, senders, timedOut, completed>>

TypeOK ==
    /\ up \in BOOLEAN
    /\ jobs \in 0 .. MaxJobs
    /\ pc \in [Validations -> {"waiting"} \cup Running \cup Returned]
    /\ left \in [Validations -> Seq(Listed)]
    /\ results \in [Validations -> [Protocols -> Statuses \cup {NoResult}]]
    /\ lastStatus \in [Validations -> Statuses]
    /\ hosts \in [Validations -> SUBSET (Protocols \cup {"forgotten"})]
    /\ goroutine \in [Validations -> {"none", "querying", "transferring",
                                      "walking", "failing", "ended"}]
    /\ senders \in [Validations -> Seq(Sent)]
    /\ timedOut \in [Validations -> BOOLEAN]
    /\ completed \in [Validations -> SUBSET Protocols]

Init ==
    /\ up = TRUE
    /\ jobs = 0
    /\ pc = [v \in Validations |-> "waiting"]
    /\ left \in [Validations -> Preferences]
    /\ results = [v \in Validations |-> [p \in Protocols |-> NoResult]]
    /\ lastStatus = [v \in Validations |-> "skipped"]
    /\ hosts = [v \in Validations |-> {}]
    /\ goroutine = [v \in Validations |-> "none"]
    /\ senders = [v \in Validations |-> <<>>]
    /\ timedOut = [v \in Validations |-> FALSE]
    /\ completed = [v \in Validations |-> {}]

-----------------------------------------------------------------------------
(* Validate.                                                               *)

At(v, stage) == up /\ pc[v] = stage
GoTo(v, stage) == pc' = [pc EXCEPT ![v] = stage]

\* Mutant of Return: a Release besides the deferred one.
ReleaseTwice(v, outcome) ==
    /\ GoTo(v, outcome)
    /\ jobs' = jobs - 2

\* The deferred Release.
Return(v, outcome) ==
    /\ GoTo(v, outcome)
    /\ jobs' = jobs - 1

\* TryAcquire, or Acquire with a context that is never done.
Acquire(v) ==
    /\ At(v, "waiting")
    /\ jobs < MaxJobs
    /\ jobs' = jobs + 1
    /\ GoTo(v, "started")
    /\ UNCHANGED <<up, left, report, hosts, attempt>>

\* Mutant of NotForUs: the semaphore is not released.
NotForUsHeld(v) ==
    /\ At(v, "started")
    /\ GoTo(v, "nil")
    /\ UNCHANGED <<up, jobs, left, report, hosts, attempt>>

\* The provider's location does not match the filter.
NotForUs(v) ==
    /\ At(v, "started")
    /\ Return(v, "nil")
    /\ UNCHANGED <<up, left, report, hosts, attempt>>

\* The input cannot be read, or the lotus API fails.
CannotStart(v) ==
    /\ At(v, "started")
    /\ Return(v, "error")
    /\ UNCHANGED <<up, left, report, hosts, attempt>>

\* GetMinerInfo has no such miner, or no address of it.
NoMiner(v) ==
    /\ At(v, "started")
    /\ \E status \in {"miner_error", "no_multi_address"} :
          lastStatus' = [lastStatus EXCEPT ![v] = status]
    /\ Return(v, "result")
    /\ UNCHANGED <<up, left, results, hosts, attempt>>

\* The loop over the protocols begins.  Without a CID that can be decoded
\* each of its iterations is left by a continue.
StartLoop(v) ==
    /\ At(v, "started")
    /\ GoTo(v, "next")
    /\ left' \in {left, [left EXCEPT ![v] = <<>>]}
    /\ UNCHANGED <<up, jobs, report, hosts, attempt>>

Report(v) ==
    /\ At(v, "next")
    /\ left[v] = <<>>
    /\ Return(v, "result")
    /\ UNCHANGED <<up, left, report, hosts, attempt>>

Take(v, p) ==
    /\ At(v, "next")
    /\ left[v] # <<>>
    /\ Head(left[v]) = p
    /\ left' = [left EXCEPT ![v] = Tail(@)]

\* The default case: what the protocols before it returned is dropped.
Unsupported(v) ==
    /\ Take(v, "http")
    /\ Return(v, "error")
    /\ UNCHANGED <<up, report, hosts, attempt>>

\* Mutant of NewAttempt: one channel serves all the protocols of a task.
SameChannel(v, first) ==
    /\ goroutine' = [goroutine EXCEPT ![v] = first]
    /\ timedOut' = [timedOut EXCEPT ![v] = FALSE]
    /\ UNCHANGED <<senders, completed>>

\* A new channel, a new context and a new goroutine.  Who was blocked on the
\* old channel stays so.
NewAttempt(v, first) ==
    /\ goroutine' = [goroutine EXCEPT ![v] = first]
    /\ senders' = [senders EXCEPT ![v] = <<>>]
    /\ timedOut' = [timedOut EXCEPT ![v] = FALSE]
    /\ UNCHANGED completed

\* Retrieve returned a result: it is recorded, and the host is closed.
Record(v, p, status) ==
    /\ results' = [results EXCEPT ![v][p] = status]
    /\ lastStatus' = [lastStatus EXCEPT ![v] = status]
    /\ hosts' = [hosts EXCEPT ![v] = @ \ {p}]
    /\ GoTo(v, "next")

-----------------------------------------------------------------------------
(* GraphSync.                                                              *)

\* Build makes the host and the directory; newFilClient may fail.
GraphSync(v) ==
    /\ Take(v, "GraphSync")
    /\ GoTo(v, "GraphSync")
    /\ hosts' = [hosts EXCEPT ![v] = @ \cup {"GraphSync"}]
    /\ NewAttempt(v, "querying")
    /\ UNCHANGED <<up, jobs, report>>

\* Mutant of NoFilClient: the cleanup is missing.
NoFilClientNorCleanup(v) ==
    /\ Take(v, "GraphSync")
    /\ hosts' = [hosts EXCEPT ![v] = @ \cup {"GraphSync"}]
    /\ UNCHANGED <<up, jobs, pc, report, attempt>>

NoFilClient(v) ==
    /\ Take(v, "GraphSync")
    /\ UNCHANGED <<up, jobs, pc, report, hosts, attempt>>

\* Build fails and returns no cleanup, which Validate calls all the same.  Or
\* no host can be made for Bitswap, and the nil host is used.
NilCall(v) ==
    /\ \E p \in Protocols : Take(v, p)
    /\ up' = FALSE
    /\ UNCHANGED <<jobs, pc, report, hosts, attempt>>

\* The goroutine's query, or proposal, fails; otherwise the transfer starts.
Query(v) ==
    /\ up
    /\ goroutine[v] = "querying"
    /\ \/ /\ senders' = [senders EXCEPT ![v] = Append(@, "query_failure")]
          /\ goroutine' = [goroutine EXCEPT ![v] = "ended"]
       \/ /\ goroutine' = [goroutine EXCEPT ![v] = "transferring"]
          /\ UNCHANGED senders
    /\ UNCHANGED <<up, jobs, pc, left, report, hosts, timedOut, completed>>

\* OnDataTransferEvent: an error event, and whether it ends the transfer is
\* not known; one of them stands for any number.
TransferError(v) ==
    /\ up
    /\ goroutine[v] = "transferring"
    /\ senders[v] = <<>>
    /\ senders' = [senders EXCEPT ![v] = Append(@, "data_transfer_failure")]
    /\ UNCHANGED <<up, jobs, pc, left, report, hosts, goroutine, timedOut,
                   completed>>

\* RetrieveContent ends.  OnRetrievalEvent hears of it, and an error is also
\* sent by the goroutine.
TransferEnds(v) ==
    /\ up
    /\ goroutine[v] = "transferring"
    /\ goroutine' = [goroutine EXCEPT ![v] = "ended"]
    /\ \/ /\ completed' = [completed EXCEPT ![v] = @ \cup {"GraphSync"}]
          /\ senders' = [senders EXCEPT ![v] = Append(@, "success")]
       \/ /\ senders' = [senders EXCEPT ![v] =
                @ \o <<"retrieve_failure", "retrieve_failure">>]
          /\ UNCHANGED completed
    /\ UNCHANGED <<up, jobs, pc, left, report, hosts, timedOut>>

Timeout(v) ==
    /\ At(v, "GraphSync")
    /\ ~timedOut[v]
    /\ timedOut' = [timedOut EXCEPT ![v] = TRUE]
    /\ UNCHANGED <<up, jobs, pc, left, report, hosts, goroutine, senders,
                   completed>>

\* The select of Retrieve takes either case that is ready.
GiveUp(v) ==
    /\ At(v, "GraphSync")
    /\ timedOut[v]
    /\ Record(v, "GraphSync", "retrieve_timeout")
    /\ UNCHANGED <<up, jobs, left, attempt>>

ReceiveGraphSync(v) ==
    /\ At(v, "GraphSync")
    /\ senders[v] # <<>>
    /\ Record(v, "GraphSync", Head(senders[v]))
    /\ senders' = [senders EXCEPT ![v] = Tail(@)]
    /\ timedOut' = [timedOut EXCEPT ![v] = TRUE]    \* the deferred cancel()
    /\ UNCHANGED <<up, jobs, left, goroutine, completed>>

-----------------------------------------------------------------------------
(* Bitswap.                                                                *)

MakeHost(v) ==
    /\ Take(v, "bitswap")
    /\ GoTo(v, "probing")
    /\ hosts' = [hosts EXCEPT ![v] = @ \cup {"bitswap"}]
    /\ UNCHANGED <<up, jobs, report, attempt>>

\* GetMinerProtocols fails, or does not list Bitswap: a continue that leaves
\* the host open.
NoBitswap(v) ==
    /\ At(v, "probing")
    /\ GoTo(v, "next")
    /\ hosts' = [hosts EXCEPT ![v] = (@ \ {"bitswap"}) \cup {"forgotten"}]
    /\ UNCHANGED <<up, jobs, left, report, attempt>>

\* Connect fails: no result is recorded.
ConnectFails(v) ==
    /\ At(v, "probing")
    /\ GoTo(v, "next")
    /\ hosts' = [hosts EXCEPT ![v] = @ \ {"bitswap"}]
    /\ UNCHANGED <<up, jobs, left, report, attempt>>

Connect(v) ==
    /\ At(v, "probing")
    /\ GoTo(v, "bitswap")
    /\ NewAttempt(v, "walking")
    /\ UNCHANGED <<up, jobs, left, report, hosts>>

\* merkledag.Walk returns (external), after the timeout of its context at the
\* latest.  After sending an error the goroutine runs on to the last send.
WalkEnds(v) ==
    /\ up
    /\ goroutine[v] = "walking"
    /\ \/ /\ completed' = [completed EXCEPT ![v] = @ \cup {"bitswap"}]
          /\ senders' = [senders EXCEPT ![v] = Append(@, "success")]
          /\ goroutine' = [goroutine EXCEPT ![v] = "ended"]
       \/ /\ senders' = [senders EXCEPT ![v] = Append(@, "retrieve_failure")]
          /\ goroutine' = [goroutine EXCEPT ![v] = "failing"]
          /\ UNCHANGED completed
    /\ UNCHANGED <<up, jobs, pc, left, report, hosts, timedOut>>

SendAgain(v) ==
    /\ up
    /\ goroutine[v] = "failing"
    /\ senders[v] = <<>>
    /\ senders' = [senders EXCEPT ![v] = Append(@, "success")]
    /\ goroutine' = [goroutine EXCEPT ![v] = "ended"]
    /\ UNCHANGED <<up, jobs, pc, left, report, hosts, timedOut, completed>>

\* Walk fetches concurrently, and every GetBlock writes to cidDurations: two
\* writes at once end the process.
ConcurrentWrite(v) ==
    /\ goroutine[v] = "walking"
    /\ up
    /\ up' = FALSE
    /\ UNCHANGED <<jobs, pc, left, report, hosts, attempt>>

\* The context of this select is never done.
ReceiveBitswap(v) ==
    /\ At(v, "bitswap")
    /\ senders[v] # <<>>
    /\ Record(v, "bitswap", Head(senders[v]))
    /\ senders' = [senders EXCEPT ![v] = Tail(@)]
    /\ UNCHANGED <<up, jobs, left, goroutine, timedOut, completed>>

-----------------------------------------------------------------------------
Step(v) ==
    \/ Acquire(v) \/ NotForUs(v) \/ CannotStart(v) \/ NoMiner(v)
    \/ StartLoop(v) \/ Report(v) \/ Unsupported(v)
    \/ GraphSync(v) \/ NoFilClient(v) \/ NilCall(v)
    \/ GiveUp(v) \/ ReceiveGraphSync(v)
    \/ MakeHost(v) \/ NoBitswap(v) \/ ConnectFails(v) \/ Connect(v)
    \/ ReceiveBitswap(v)

Background(v) ==
    \/ Query(v) \/ TransferError(v) \/ TransferEnds(v)
    \/ WalkEnds(v) \/ SendAgain(v) \/ ConcurrentWrite(v)

Next == \E v \in Validations : Step(v) \/ Timeout(v) \/ Background(v)

Spec == Init /\ [][Next]_vars
=============================================================================
