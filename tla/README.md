# ValidationBot: TLA+ specifications and proofs

ValidationBot measures Filecoin storage providers. Trusted *dispatchers*
broadcast validation tasks over a public pubsub topic; *auditors* bid for each
task, the winner validates it in a server process of its own and publishes the
result in a list of its own on web3.storage/IPNS; *observers* follow the lists
of the auditors they trust and copy them into a database. Who is trusted is in
lists that *trustors* publish the same way.

This directory models the concurrent and fault-tolerant core of that system and
checks it with TLC. With TLAPS it proves, for every value of the constants, the
safety invariants and action properties that the passing runs check on small
instances, and that both detailed specifications implement their abstract ones.
Paths below are relative to `src/`.

1. [Inventory](#1-inventory)
2. [Plan](#2-plan)
3. [Modules and the code](#3-modules-and-the-code)
4. [Runs, bounds, and what they show](#4-runs-bounds-and-what-they-show)
5. [Fairness](#5-fairness)
6. [Proofs](#6-proofs)
7. [Findings, and known hazards without a run](#7-findings-and-known-hazards-without-a-run)
8. [What is not modelled](#8-what-is-not-modelled)

To check: `tlc -config AuditorAnyTopic.cfg MCAuditor` (the module of each run is
in section 4); to prove: `tlapm AuditorProofs.tla`, and likewise each of the
eight modules `*Proofs.tla` (section 6).

## 1. Inventory

### Components

| Component | Source | State it keeps | Operations | Correct when |
|---|---|---|---|---|
| Auditor, bidding | `role/auditor/auditor.go` | the map `bidding` (task → peer → number) under `biddingLock`; one listener goroutine; one goroutine per task it bid for | receive a task, bid, record bids, compare after `biddingWait`, validate, publish | a task somebody bid for is carried out, by one auditor unless bids tie; only bids that were made count; the map does not grow for ever |
| Validation RPC | `role/auditor/rpc.go`, `rpcserver/rpcserver.go` | a temporary directory, a child process, `port.txt`, the channel `done`, the context | `CallServer`, `Validate`, the watcher goroutine, the server's `Start` and `Validate` | every validation ends and leaves neither process nor directory; it is answered by its own server; what came too late is not published |
| Retrieval module | `module/retrieval/*.go` | the semaphore `sem`; per validation the results by protocol, the libp2p hosts, the channel `done` of each attempt | `Validate`, `Retrieve` (GraphSync, Bitswap), event handlers, `cleanup` | a protocol is reported as successful only if it delivered the data; the semaphore balances; hosts are closed; every validation returns |
| W3Store publisher | `store/w3store.go` | `lastCid`, `lastSequence`; the blocks at the gateway; the IPNS record | `NewW3StorePublisher`, `Publish` | what was acknowledged stays in the list; every entry can be fetched |
| W3Store subscriber, Observer | `store/w3store.go`, `role/observer/observer.go` | `currentTrustees`, one pair of goroutines per peer, the rows of `validation_results` | `Start`, `downloadEntriesForAuditorPeer`, `Subscribe`, `storeResult` | the table is a copy of the list: in order, without gaps, without duplicates, in the end complete |
| Dispatcher | `role/dispatcher/dispatcher.go`, `task/types.go` | the table of task definitions (`updated_at`, `dispatched_times`) | the polling loop per module; `Create`, `List`, `Remove` over HTTP | a periodic definition is sent again and again, never before its interval is over; a one-off is sent once; a removed one is not sent any more |
| Trust list | `role/trust/trust.go`, `cmd/validation_bot.go` | a W3Store list whose newest entry is the set of trusted peers | `ModifyPeers` (create, revoke, reset), `ListPeers` | a modification that was reported as done is in the list |
| Trust manager | `role/trust/trust.go` | `trustees` | `Start`, `IsTrusted`, `Trustees` | it follows the lists: a grant and a revocation take effect, and nobody else gains or loses trust |
| Deal states | `module/dealstates.go`, `module/retrieval/retrieval.go` | the tables `deal_states` and that of client IDs; the batch of the refresh | `Start`, `refresh` in batches, upsert; `DealsByProvider`, `DealsByProviderClients`, `GetTask` | the table follows the file; no task is made of a deal known to be over |
| Query-ask, index provider, traceroute, echo | `module/*/` | per validation a libp2p host and a stream | `Validate` | what is reported is what the provider did; nothing stays open |
| Miner info, location filter | `module/minerinfo.go`, `util.go`, `locationfilter.go`, `ipinfo.go` | none | functions of other services' answers | their outcomes, in `Modules` and `Retrieval` |
| Start-up, configuration, CLI | `cmd/*.go` | `config.yaml`, the environment | `setConfig`, `run`, `runRPCServer` | a bot keeps its identity through interrupted launches; its auditor is trusted |
| Identities, hosts | `role/util.go` | none | generated keys, as in `StartUp` | the encoding is library set-up |
| Publisher/subscriber of tasks | `task/pubsub.go` | none (libp2p) | `Publish`, `Next` | unordered, lossy; appears as the `inbox` of `Auditor` |
| In-memory store, database logger | `store/inmemorystore.go`, `role/dblogger.go` | | test double, logging | not modelled |

### How they interact

```
 operator --modify-trusted-peer--> Trust list --(IPNS, W3Store)--> Trust manager
                                                                   |  IsTrusted
   market deals --> Deal states                                    |
                        |  GetTask                                 |
 client --HTTP--> Dispatcher --(topic: tasks)--> Auditor <--+------+
                                                 |  ^  bids |      |
                                                 v  +-topic-+      |
                                               Rpc (child process) |
                                                 |  Modules,       |
                                                 |  Retrieval      |
                                                 v                 v
                                              W3Store ---------> Observer --> database
```

* dispatcher to auditors, and auditors among one another: messages on one
  pubsub topic, which may get lost and overtake one another;
* auditor to its validation server: a child process, a file, and Go's `net/rpc`;
* auditor to observer, and trustor to trust manager: a linked list of immutable
  blocks, whose newest entry a mutable IPNS record names, over two HTTP services
  that may fail before or after the effect;
* trust manager to auditor and observer: a set that another goroutine replaces
  once per round.

### What is hard here

* two goroutines and one map, with the lock released between a check and the
  write it protects (`auditor.go:236-256`);
* a decision after a fixed sleep, made from whatever messages came by then
  (`auditor.go:211-232`);
* two remote calls per published entry, each of which can take effect without
  an answer (`w3store.go:393-416`, `:520-563`), and a process that restarts from
  what the name service says;
* feeds that are started by one goroutine, end by themselves, and check trust
  only between two blocking receives (`observer.go:60-125`);
* a broadcast that is recorded only afterwards (`dispatcher.go:111-144`);
* an optimistic read-publish-read protocol without a lock (`trust.go:70-125`);
* four goroutines and a foreign process around one RPC (`rpc.go:70-250`);
* goroutines that outlive the call that started them (`graphsync.go`,
  `bitswap.go`);
* a table that is written batch by batch from a download that may break, while
  tasks are made from it (`dealstates.go:180-280`);
* an identity that is generated, published and only then written to a file, by
  a program that starts itself again as a child (`bootstrap.go:173-250`).

`PROJECT.json` lists each such hazard at its line (`hazards`) with the
properties aimed at it.

## 2. Plan

The order is by importance.

| # | Module | What for |
|---|---|---|
| 1 | `TaskElection`, `Auditor` | what bidding promises, and the bidding as implemented |
| 2 | `AuditorProofs` | type correctness, the inductive invariant, refinement of `TaskElection`; on a timely topic, one winner and no panic |
| 3 | `W3Store` | the publishing side, extended by 4 and 6 |
| 4 | `LogCopy`, `Observer` (composes `W3Store`) | replication of a list into the database |
| 5 | `Dispatcher` | time, table, requests, failures |
| 6 | `TrustList` (composes `W3Store`), `TrustManager` | modifying, and following, the lists of trust |
| 7 | `Rpc` | processes, files and contexts around one validation |
| 8 | `Retrieval` | the module with the most goroutines |
| 9 | `RpcProofs` | own server, own directory, no late answer |
| 10 | `TrustedPeers` (composes `TrustList`, `TrustManager`) | from `ModifyPeers` that reported success to `IsTrusted` |
| 11 | `Modules` (extends `Retrieval`) | everything a validation server can be asked for |
| 12 | `DealStates`, `StartUp` | refresh in batches and what tasks are made of; launches, keys and files |
| 13 | `ObserverProofs` | acknowledged entries stay, names are walkable, no gaps, refinement of `LogCopy` |
| 14 | `TrustedPeersProofs` | a round changes trust only as the lists justify; what was reported sticks; the composition implements the manager |
| 15 | `DispatcherProofs`, `ModulesProofs`, `StartUpProofs`, `DealStatesProofs` | the invariants of these modules, and the action properties of two |

All of it exists. What remains is in section 8 and, for the proofs, at the end of
section 6.

Each module that is to be proved about has its parameters as CONSTANTS with a
named assumption, one action per operation or critical section, invariants as
conjunctions of named parts, and no recursive operator.

Two abstract specifications are stated: `TaskElection` (one bid per task and
auditor, nobody lets a task go except in favour of a higher bid that was made)
and `LogCopy` (a growing log, and a copy made in order, one entry at a time).

## 3. Modules and the code

`map` in `PROJECT.json` gives the lines of every definition.

### `Auditor` (implements `TaskElection`)

| Model | Code |
|---|---|
| `bidding[a][t]`, `NoEntry` | `a.bidding[TaskID]`, the key is absent |
| `BidHeld` = 0 for an absent peer | reading a missing key of the inner map |
| `listener`, `current` | where the goroutine of `Start` is, and the message in its hands |
| `ReceiveTask`; `PublishBidding`, `PublishBiddingFails` | `makeBidding`: draw, open the entry, publish, start the goroutine |
| `ReceiveBidding`; `RecordBidding`, `RecordPanics` | the two lock sections of `handleBiddingMessage`; the panic is the write to the nil inner map |
| `RejectUntrusted` | the `return` at `auditor.go:93-96` |
| `CompareBids`, `CloseBidding` | `resolveBidding`: the RLock section, and the deferred delete |
| `Validate`, `PublishResult` | `CallServer` and the result publisher, in outcomes (their own models are `Rpc` and `W3Store`) |
| `RefreshTrustees` | a round of the trust manager (its own model is `TrustManager`) |
| `Crash`, `Restart`, `Dies` | a process ends, with all its memory |

The topic is external: a set of undelivered messages per auditor, delivered in
any order, at most once, or lost. `TimelyTopic = TRUE` makes it the topic that
the code's `biddingWait` hopes for, a task before its bids, nothing lost, and
no comparison before everything sent has been handled. `Publish` of a bid may
fail on either topic: the listener goes on, no goroutine is started, and the key
stays in the map. Bids are drawn from a small range, so ties happen; the code
draws a number below `math.MaxUint32` (`auditor.go:261`).

### `W3Store`, `Observer`, `LogCopy`

A CID is a hash of the payload and the CID before it, so it is modelled as the
sequence of payloads that it stands for. `Publish` is four steps (call, upload,
post the name, answer), because the process may end, or the answer get lost,
between any two. The name service (external) keeps the record with the higher
sequence number, then the later one. `Acknowledged` is the only place that
changes `lastCid` and `lastSequence`, as in the code.

`Observer` has one auditor peer, for feeds of different peers share nothing.
A feed is the goroutine `downloadEntriesForAuditorPeer` (`consumer`) and the one
that `Subscribe` starts (`polling`, `last`, `todo`); they meet on an unbuffered
channel in `HandOver`. `ChainedEntries` is the walk of `downloadChainedEntries`,
which ends at the last CID or at the start of the list.

### `Dispatcher`

One loop, for one module's rows. `updated_at + interval < now` is a timer per
row that counts down. `PollDefinitions` takes the snapshot, `DispatchTask` and
`RecordDispatch` are the two halves of a dispatch, with everything else
possible in between; `Create` is the INSERT, and for an interval of 0 goes on
with the same two halves. `SkipTask` and `CreateSkipsTask` are the other end of
the first half: `GetTask` has no task, which is ordinary (no deal of the provider
is known), or it or `Publish` fails. They are no faults and not bounded: a
definition may go without a task round after round. `MaxFaults` bounds what the
database fails to do, and crashes. `since`, `sent` and `late` are history.

### `TrustList`, `TrustManager`, `TrustedPeers`

`TrustList` lets several processes with one trustor's key run
`modify-trusted-peer` at once, on top of `W3Store`. `Conflict` includes that two
equal sets can compare as different: the code compares slices in map order.
`TrustManager` is a round that reads list after list while they change, and then
replaces the set. `TrustedPeers` puts them together: each step of the tool, its
publisher or the name service (`ToolStep`) is, for the manager, a change of one
trustor's list or nothing, and the round (`ManagerStep`) reads what the name
service says at that moment. Every behaviour of it is one of `TrustManager`'s
`Spec` as far as that module's variables go (theorem `TheToolChangesLists`), so
what holds of the manager whatever the lists are holds of the composition too.

### `Rpc`

The goroutine of a won task (`pc`), its context (`ctx`), the watcher, the
goroutine of `os/exec`, and the server process are separate actors. `MakeDir`
may fail, and the goroutine goes on with the directory `""`, which is the
auditor's own (`Here`). `OpenPortFile` and `WritePort` are the two effects of
`os.WriteFile`. `KillServer` is the rest of `CallServer` after the reply.
`WatcherSends` on a closed channel ends the auditor (`up`).

### `Retrieval`, `Modules`

Validations in one server process share the semaphore. `left` is the list of
protocols still to try; `NewAttempt` makes a channel, a context and a goroutine.
A list may also name a protocol that `Validate` has no case for (`Unsupported`),
although the dispatcher refuses such definitions; what was retrieved before it is
then dropped. Who was blocked on an old channel stays so for ever, and is
forgotten with it.
`senders` is who is blocked on the current one. `hosts` has the open libp2p host
of each protocol, and `"forgotten"` if one is open that no variable refers to any
more: the `continue` after `GetMinerProtocols` goes on without closing its host,
and a preference list that names Bitswap twice then makes another.

`Modules` adds the other modules to the same process: `stage` is where a probe
is, `host` and `stream` what it holds open, and `Leave` runs the deferred calls.
`LookUp`, `NoMinerInfo` and `NotAMiner` are the outcomes of `GetMinerInfo`.
`Classify` is the `errors.Is` of `indexprovider.go:115` as it stands. `Unlimited`
collects the steps that nothing limits in time. `NilResult` is the panic of
`*reply = *result` after a retrieval that was not for this location.

### `DealStates`

The file is a stage per deal (`proposed`, `active`, `slashed`); `body` is the
file as the download began, `unread` what the decoder has not come to. `CutShort`
ends the stream early, which the code cannot tell from the end of the file.
`Save` is the upsert of a full batch, or of the last one; `SaveFails` may have
taken effect. `GetTask` is one query of the table; that the API fails to look up
a client, or that a definition lists CIDs, is `GetNoDeal`. The model starts the
refresh where `Start` is called; `bootstrap.go:436` calls it only on an error
(section 7).

### `StartUp`

A pair of generated keys is a number. `Launch` looks for the file and generates;
`Publish` and `PublishFails` are `ModifyPeers` under the dispatcher's new key;
`WriteFile` and `WriteFileStops` the two ends of `os.WriteFile`; `ReadFile` what
viper makes of it. Roles start in the order of `run`, each if it has what its
constructor needs. The child is `validation-rpc`, launched in an empty directory:
it goes through the same steps with a file of its own. The environment is
chosen at each launch, as far as keys and the token go.

## 4. Runs, bounds, and what they show

| Run | Module | Properties | Shows |
|---|---|---|---|
| `AuditorAnyTopic` | `MCAuditor` | `AuditorInv`, `LoserIsOutbid`, `SomebodyWins`, `ImplementsElection` | whatever is lost, late or reordered, whoever crashes or is untrusted, the comparison is made with real bids and not everybody leaves a task |
| `AuditorTimely` | `MCAuditor` | `OneWinnerUnlessTied`, `NoWriteToResolved`, `BiddingCloses`, `BiddingLeadsToWork` | on a topic as quick as the code hopes for: one winner, no panic, work gets done, and announced biddings are closed, though some bids cannot be published |
| `ObserverAnyFailure` | `MCObserver` | `TypeOK`, `AckedEntriesStay`, `NameIsWalkable`, `NoGaps` | lost answers, late records, restarts of both sides and changing trust lose nothing |
| `ObserverCopy` | `MCObserver` | `ReplicatesTheList`, `ListIsCopied` | with steady trust and reliable answers the table is an exact copy, through crashes |
| `DispatcherFaults` | `MCDispatcher` | `TypeOK`, `OneOffIsSentOnce`, `AtMostOneBroadcastAfterRemove`, `NeverTooSoon`, `PeriodicIsSentAgain` | the loop, the requests, the clock, failures, crashes and rounds without a task, in any mixture |
| `TrustedPeers` | `MCTrustedPeers` | `SystemTypeOK`, `SuccessSticks`, `OnlyListedBecomeTrusted`, `ListedPeersAreKept`, `ReportsTakeEffect` | what a command reported that ran alone stays, and reaches `IsTrusted`, however later ones overlap and reads fail |
| `RpcValidation` | `MCRpc` | `TypeOK`, `OwnServer`, `DirsAreRemoved`, `LateAnswerIsDropped`, `ValidationsEnd` | timeouts, hanging or dying servers, half-written files |
| `Modules` | `MCModules` | `ServerTypeOK`, `ReportsAreGenuine`, `ValidateCleansUp`, `ValidateReturns` | leftover senders, double sends, silent providers, and every way out of a probe |
| `StartUp` | `StartUp` | `TypeOK`, `OneIdentity`, `AuditorIsOnItsList` | launches that are interrupted anywhere, and children that start up as well |
| `DealStates` | `MCDealStates` | `TypeOK`, `RefreshIsComplete`, `TasksAreOfLiveDeals`, `TableFollowsFile` | failed, cut-short and killed refreshes against a market that moves on |
| `AuditorLateBid` | `MCAuditor` | `NoWriteToResolved` (violated) | finding 1 |
| `ObserverFlaps` | `MCObserver` | `NoDuplicates` (violated) | finding 2 |

`AuditorInv` is the inductive invariant of section 6 and contains that module's
`TypeOK`, `HeldBidsAreGenuine` and `WaiterHoldsOwnBid`; `SystemTypeOK` those of
`TrustList`, `W3Store` and `TrustManager`; `ServerTypeOK` that of `Retrieval`.

Every property of a passing run has a mutant: a definition of the model with a
plausible bug in it (`RecordAsOwn`, `SameChannel`, ...), stated just before the
definition it stands for, under which the property is violated.

**Bounds, and why they are enough.**

* `Auditors`: two on the free topic, three on the timely one. An error of the
  comparison needs two bidders; a third can see others' bids in another order.
  The proofs cover any number. `BidLimit = 2`: equal, lower, higher. One task:
  distinct tasks share only the listener, and the proofs cover any number.
  `MaxCrashes = 1`; restarts are not bounded.
* `MaxPublishes` 3 or 4: a lost answer, an entry that supersedes it, and one
  more behind. `MaxRestarts`, `MaxCrashes` 1–2. `Feeds` 2: the second feed is
  the one that can meet the first. `MaxTrustFlips` 2: off and on.
* `Dispatcher`: two definitions, so that one is reached late in a round;
  `Intervals` one-off and periodic; `Jitter = 2` draws 0 or 1; `MaxFaults = 2`
  database failures or crashes (a failed update, and a crash after it). Rounds in
  which there is no task for a definition are not bounded.
  `since` and `sent` saturate above what the properties compare.
* `TrustedPeers`: two operators with commands that add, remove and replace, over
  two peers, two published entries and one restart, so that a command overlaps,
  follows or repeats another; reads fail as often as they like. One trustor:
  that the lists of several mix as they should is what `TrustedPeersProofs`
  proves for any number. `MaxChanges` is above what the tool can do and never
  stops it: the list changes at most once per call of `Publish`
  (`MaxPublishes <= MaxChanges`, part of `TrustedPeersAssumption`).
* `Rpc`: two tasks, so that one may read another's file; `RetryMax = 2`: a read
  that is not the last, and one that is.
* `Modules`: two validations of any two types, and for retrievals one place in
  the semaphore, both protocols in either order, Bitswap tried twice (each
  definition may list what it likes, `types.go:49`), and a protocol without a
  case; two addresses to trace, so
  that one fails after another succeeded. (The auditor asks each server for one
  task; the server itself takes any number, and `MaxJobs` is about that.)
* `DealStates`: two deals of two clients, in batches of one, so that a refresh
  has a batch before and one after a failure, and of two, so that the last
  batch is full, partly filled or missing. Deals share nothing but batches.
* `StartUp`: `MaxPairs = 4`, two generations by the bot or its child before
  and after the one that is kept. One child at a time.

Symmetry is used only in runs without liveness (auditors). `CHECK_DEADLOCK
FALSE` stands where the system may stop: all tasks handled and every bound used
up, or a process that has ended for good. `Dispatcher` never stops and is
checked for deadlock.

## 5. Fairness

| Module | Assumed | Why |
|---|---|---|
| `Auditor` | each listener, and each task's goroutine, goes on when it can | Go schedules them; each call they make returns (lock, publish, sleep, the timeout of the context). Nothing is assumed of the topic, of `Crash`, or of the trust manager |
| `Observer` | `TrackTrustees` and each feed's goroutines | the loops of `Start` and `Subscribe` retry for ever. A poll succeeds in the end, unless the name has no record or a block is missing. Nothing is assumed of the publisher |
| `Dispatcher` | `Tick` and the loop | time passes; the loop's calls return, well or not. No request is assumed. That there is a task for a definition is not assumed of the system but a premise of `PeriodicIsSentAgain` (`TaskIsMadeAtTimes`, strong fairness of `DispatchTask(d)`): if the loop comes to it over and over, some of those rounds make and publish a task |
| `TrustedPeers` | the manager's round | reads return, well or not: fairness is on the round as a whole, so every single read may fail for ever, and `ReportsTakeEffect` expects a listed peer to be trusted only if reads of the list succeed in the end. Nothing is assumed of the tool, its publisher or the name service |
| `Rpc` | the goroutine, the timer, the watcher, `os/exec`'s killing | timers fire; nothing is asked of the server process |
| `Modules` | `Validate`'s own steps, the timer, the end of a Bitswap walk, and of a query-ask whatever its minute limits | a walk and a query-ask have a context with a timeout; nothing is asked of a provider in a GraphSync query or transfer. The index provider's answer and the traceroute command may never come, and `ValidateReturns` does not claim that those validations return |
| `DealStates` | the goroutine of `Start` | each of its calls is answered or fails in the end. (`http.DefaultClient` has no timeout: a connection that stays open without data is outside this assumption.) `TableFollowsFile` has as its premise that the refresher runs and, from some time on, no longer fails |

`StartUp` has no liveness property.

## 6. Proofs

Eight modules hold the theorems, each beside the module it is about. In all of
them the argument has the same form: an invariant that is a conjunction of named
parts, a lemma that `Init` establishes it, one lemma or step per action that the
action keeps it, and a theorem `Spec => []Inv` from which the properties follow.
TLC checked each invariant on small instances before it was proved. The constants
are arbitrary but for the named assumptions, which TLC evaluates on the runs of
modules that extend them.

### Assumptions on the constants

| Assumption | Says, and why the code justifies it |
|---|---|
| `AuditorAssumption`, `NoMessageAssumption` | auditors, trustors and outsiders are different peers, as the roles are deployed; there is at least one bid; the sentinels are not values |
| `DispatcherAssumption`, `NoRowAssumption` | intervals are naturals and one is the longest (`interval_seconds` is a `uint32`, `task/types.go:37`); the jitter's range is not empty (`rand.Int` panics otherwise); sentinels |
| `W3StoreAssumption`, `ObserverAssumption` | bounds are naturals, switches Boolean; the absent record and sequence number are not values |
| `TrustManagerAssumption`, `TrustedPeersAssumption` | commands are of the three types; the list may change as often as it is published; the tool's key is a trustor's; sentinels |
| `RetrievalAssumption`, `NoResultAssumption`, `ModulesAssumption` | the semaphore has room for one; preference lists are finite sequences of the two protocols and others; a provider has an address |
| `DealStatesAssumption` | a deal has one client; a batch holds a deal; sentinels |
| `RpcAssumption`, `StartUpAssumption` | there is a try; the bound on generated pairs is a natural |

Three hypotheses are stated in theorems, because the property is false without
them:

* `TopicIsTimely` (`AuditorProofs`): messages about a task are handled before its
  bids are compared, and only trusted peers write. It is what `biddingWait` is
  for. It says nothing of bids that could not be published; without it `NoWriteToResolved` fails, as the run `AuditorLateBid` shows.
  The run `AuditorTimely` satisfies it; the theorems also allow any number of
  crashes, which that run does not.
* `OnePublisher` (`ObserverProofs`): one process at a time has the key of an
  auditor, which is how an auditor is deployed (all runs of `Observer` have one).
  Only `AckedEntriesStayAlways` needs it: two auditors with one key fork their
  list.
* `NothingIsLost` (`ObserverProofs`, the setting of the run `ObserverCopy`): one
  publisher, answers do not get lost, results can be stored, trust is steady.
  Without it there are forks, skips and, in `ObserverFlaps`, duplicates, so the
  table is no exact copy.

### `AuditorProofs`

For any sets of auditors, trustors, outsiders and tasks, any number of bids and
any views of trust:

| Theorem | Says |
|---|---|
| `InvCorrect`, `TypeCorrect` | `AuditorInv`, and with it `TypeOK`, always holds |
| `ComparisonIsGenuine` | `HeldBidsAreGenuine` and `WaiterHoldsOwnBid` always hold |
| `LoserIsOutbidAlways` | who lets a task go was outbid by a bid that was made |
| `SomebodyWinsAlways` | the bidders of a task never all leave it to one another |
| `Implements` | `Spec` implements `TaskElection!Spec` |
| `OneWinnerUnlessTiedAlways` | on a timely topic, two auditors carry out a task only if their bids tie |
| `NoWriteToResolvedAlways` | on a timely topic, no write to a deleted map |

**The inductive invariant.** What one wants, `LoserIsOutbid`, is about numbers
that crossed the topic. `AuditorInv` follows them: a number in a message
(`MessagesAreSound`) was drawn by its sender, so the listener has a real one in
its hands (`ListenersAreSound`), so the map holds real ones
(`HeldBidsAreGenuine`). That a goroutine compares against its own bid
(`WaiterHoldsOwnBid`) needs that nothing deletes or overwrites the entry while it
sleeps, which in turn needs that an auditor is handed a task only before it bid
for it (`TaskIsFresh` in `MessagesAreSound`), and that between the entry and the
`go` statement no goroutine of that task exists (`ListenersAreSound`).
`BiddersAreSound` records what a lost comparison showed at the time.

**`SomebodyWins`.** If all bidders had lost, each would have been outbid by
another one, without end; the numbers drawn are below `BidLimit`, so the set of
those not below some drawn bid has a least element (well-founded induction on
the naturals), and its bidder was outbid by nobody.

**Refinement.** `outcome` of `TaskElection` is a function of the goroutine's
stage (`Outcome`), and `bid` is the history `offered`. `OutcomeMap` states how
steps of stages read as steps of outcomes, `StepRefines` that every action is a
step of `TaskElection` or leaves its variables alone; the guard of *lose* is
`BiddersAreSound` after the step.

**The timely topic.** That the loser was outbid does not yet make the winner the
highest bidder: a bid may be under way. `TimelyInv` follows each announced bid:
for each auditor it is in the inbox, in the listener's hands, in the map, or the
auditor has no map for the task and will not make one (`BidsArrive`). Once one
goroutine has compared, nothing is said about the task any more
(`ComparedIsQuiet`), so the map it compared in held every bid, and who won is
highest among all who bid (`WinnersAreHighest`). A dead auditor holds nothing
(`DeadAreEmpty`), which is what lets a crash happen anywhere.

### `ObserverProofs`

For any number of publishers, calls, restarts, feeds and changes of trust:

| Theorem | Says |
|---|---|
| `ObserverCorrect`, `ObserverTypeCorrect` | `StoreInv` and `ObserverInv`, and with them `TypeOK`, always hold |
| `NameIsWalkableAlways` | no name points at or past a block that was not uploaded |
| `NoGapsAlways` | the entry before a stored one was stored or tried |
| `AckedEntriesStayAlways` | (`OnePublisher`) acknowledged entries stay in the list |
| `ReplicatesTheListAlways` | (`NothingIsLost`) `Spec` implements `LogCopy` |

`StoreInv` is about the publishing half alone: a record is *well made*
(`WellMade`), its sequence number counts the entries before the one it names, and
every prefix of its chain has been uploaded; a publisher remembers such a chain,
and what it builds is one entry longer (`PublisherOK`). Names can then only move
to walkable chains. `AckedInv` adds what one publisher guarantees: a record still
on its way is at most one entry longer than the list, so one that could still
replace the list was made on top of it and holds all that was acknowledged. For
the observer, `FeedOK` says that a feed hands over one entry after the other.
For the refinement, `ListInv` says that an open publisher remembers the list
itself and that no record is without a publisher waiting for it, so the list only
grows; `CopyInv`, that the rows are a prefix of it and that the one feed at work
stands where they end. The log and the copy of `LogCopy` are the list and the
rows; `LogCopy` appends, or copies the next entry, exactly when these do.

### `TrustedPeersProofs`

For any number of trustors, peers, processes of the tool, commands, calls,
restarts and late answers:

| Theorem | Says |
|---|---|
| `ManagerTypeCorrect`, `OnlyListedBecomeTrustedAlways`, `ListedPeersAreKeptAlways` | of the manager, whatever the lists are |
| `SystemCorrect`, `SystemTypeCorrect` | `SystemInv`, and with it `SystemTypeOK`, always holds of the composition |
| `SuccessSticksAlways` | what a command reported that ran alone stays so |
| `TheToolChangesLists` | `SystemSpec` implements the `Spec` of `TrustManager` |
| `OnlyListedBecomeTrustedHere`, `ListedPeersAreKeptHere` | so both action properties hold of the composition |

**The manager.** Both action properties speak of a moment, the replacement of the
set, and of histories of the whole round. `RoundInv` says what holds in
mid-round: the histories contain the present state of the lists, what was
collected was listed, and a peer that a list already read did not contribute is
one which that list could do without. `OnlyReplaceWrites` shows that no other
step touches `trustees`.

**The tool.** `ListInv` rests on `StoreInv` of `ObserverProofs`, instantiated
without an observer (`StoreInvOfTool` maps each step of the tool to one of the
publishing half). `PromiseOK` says of each peer whose state was reported: the
list agrees with the report, so does every record on its way that could still
replace the list, and so does whatever a running process has read, made or
published, none of which concerns that peer. It is kept because a process changes
in a list only what its command concerns (`NewStateIs`). It is established when
a process that was alone succeeds: by `AloneOK` its entry is the newest of all
and no record on its way is longer than its own, hence none can supersede it.
That is where a late record of an earlier process could do harm, and `LateInv`
bounds how far ahead one can be.

**The refinement.** A step of the tool changes what the list says only when the
name service accepts a record (`OnlyAcceptChanges`). `PendingInv`, no entry is on
its way twice, shows that each entry is accepted at most once, so the list changes
no more often than `Publish` was called, and `ChangeList` never meets its bound.

### `DispatcherProofs`

For any definitions, intervals, faults and crashes: `DispatcherTypeCorrect`,
`OneOffIsSentOnceAlways`, `AtMostOneBroadcastAfterRemoveAlways`,
`NeverTooSoonAlways` (an action property). `LoopIsPeriodic` says who sends what:
the loop has only periodic definitions in its hands, whose request is over, so a
one-off is sent by its request alone (`OneOffInv`). `LateInv` counts: after
`Remove` the row is gone, and who still sends the definition had it in hand.
`Spaced` is a sum over two clocks: the time since the last broadcast and the time
the row has left cover the interval, unless the row is still to be updated; it
holds only while nothing failed, as a failed update leaves the old timer.

### `ModulesProofs`

For any number of validations of any type, any weight of the semaphore, and any
preference lists: `ServerTypeCorrect`, `ReportsAreGenuineAlways`,
`ValidateCleansUpAlways`. `JobsInv` makes the semaphore's count the number of
validations past `Acquire`. `SendersInv` is what makes reports genuine: whoever
is blocked on the channel of the attempt under way with *success* belongs to that
attempt and its protocol delivered; a failed Bitswap walk, which sends success
after its failure, can do so only once its failure was received, and then its
attempt is over. `HostsInv` and `ClosedInv` are about what is open.

The `continue` of `retrieval.go:390` goes on without closing its host. The proof
showed that this is not the end of it: a preference list may name Bitswap twice,
and then a second host is opened while the first is still open and forgotten. The
model keeps such a host as `"forgotten"`, the run has such a list, and
`ValidateCleansUp` excepts that host and no other.

### `StartUpProofs`, `DealStatesProofs`, `RpcProofs`

*Start-up*, for any number of generated pairs: `StartUpTypeCorrect`,
`OneIdentityAlways`, `AuditorIsOnItsListAlways`. Keys are generated only while
there is no file, and then nothing has run (`FileInv`); the pair in hand was
announced before it is written (`PairInv`); so every pair that was ever used is
the file's (`ServedInv`), although children generate others.

*Deal states*, for any deals, clients and batch sizes: `DealStatesTypeCorrect`,
`RefreshIsCompleteAlways`, `TasksAreOfLiveDealsAlways` (an action property).
`TableInv` says that what a refresh has read and no longer holds in its batch is
in the table, as long as nothing was lost; `MetInv` that what is active in the
table was met active.

*Validation*, for any number of tasks and any `RetryMax > 0`: `RpcTypeCorrect`,
`OwnServerAlways`, `DirsAreRemovedAlways`, `LateAnswerIsDroppedAlways`.
`DirectoryInv`: the directory of a task is its own or the auditor's, exists only
if it was made for it, and no server runs before it is started. `PortInv`:
nobody but the server of `t` writes in the directory of `t`. `LateInv`: a call
under way is waited for, so a late answer finds its goroutine still calling, with
a context that stays done until it ends. `GiveUpStep` is the lemma for all the
ways out of `CallServer` that end the goroutine without a server to kill.

### Only model-checked

* **Liveness** (`BiddingCloses`, `BiddingLeadsToWork`, `ListIsCopied`,
  `PeriodicIsSentAgain`, `ValidationsEnd`, `ReportsTakeEffect`,
  `ValidateReturns`, `TableFollowsFile`): fairness means ENABLED, which this
  prover cannot reason about.
* **The two violations** (`AuditorLateBid`, `ObserverFlaps`), which are
  counterexamples.

Every other property of a run is a theorem's. What a theorem leaves open is what
its hypothesis leaves out (above), and whatever the models leave out (section 8).

## 7. Findings, and known hazards without a run

1. **A late bid panics the auditor** (`auditor.go:236-256`, run
   `AuditorLateBid`). `handleBiddingMessage` means to drop a bid for a resolved
   task, but checks under `RLock` and writes under a later `Lock`; when
   `resolveBidding` deletes the key in between, it writes to a nil map.
2. **Trust that flaps makes the observer store entries twice**
   (`observer.go:95-125`, run `ObserverFlaps`). The first feed is blocked in its
   select and never sees that trust was gone; the second starts from the same
   last CID.

**Known limitations.** Found by reading, or by a run that has since been
replaced; no run expects them to be absent:

* a bid that cannot be published leaves its key in the map for as long as the
  auditor runs: the entry is made first (`auditor.go:279-282`), and after the
  error no goroutine is started that would delete it (`:284`, `:138`).
  `BiddingCloses` is stated for announced bids;
* a definition whose update failed is broadcast again before its interval is
  over (`dispatcher.go:128-140`). `NeverTooSoon` is stated for when nothing
  failed;
* of two overlapping `modify-trusted-peer` commands one may lose its peer
  although both report success: a run that has read its own list back is done
  before the other replaces it (`trust.go:94-110`). `SuccessSticks` is stated
  for commands that ran alone;
* the deal states are never refreshed: `bootstrap.go:436` has `err != nil` where
  it needs `err == nil`, so `Start` is called only on a resolver that could not
  be made, and that is nil. `DealStates` says what holds once `Start` runs;
* a deal that leaves the file without having been listed as slashed keeps its
  row, and tasks are made of it until its end epoch (`dealstates.go:131-147`);
* an operator's `config.yaml` does not reach the validation server, whose working
  directory is empty: it runs on the defaults, and without keys in the
  environment generates a pair and publishes a list for each task (`rpc.go:89`,
  `bootstrap.go:173`). `OneIdentity` says that no role ever runs under them;
* a start-up that is killed while it writes `config.yaml` leaves a file that no
  later launch completes (`bootstrap.go:173`, `:246`);
* the index provider's two outcomes are swapped: a provider that was reached and
  does not speak the protocol is `cannot_connect`, any other error is `disabled`
  (`indexprovider.go:115`). The test of the first case expects `disabled`, and is
  skipped because it gets `cannot_connect` (`indexprovider_test.go:24`, `:32`).
  `Classify` is the code as it stands, and no property says that it is right;
* an address that cannot be resolved drops the traces of those before it
  (`traceroute.go:98`).

Steps that the models contain, and that no document of the repository rules out,
so that no run expects them to be absent:

* one message of an untrusted peer ends the listener for good (`auditor.go:93`);
* after a fork the walk back misses the last CID and yields entries again
  (`w3store.go:179`);
* a result that cannot be stored is skipped, and the next stored CID hides it
  (`observer.go:115`; `NoGaps` makes an exception for what was tried);
* the watcher sends on a closed channel and ends the auditor (`rpc.go:216`,
  `:238`);
* a module that returns nil ends the server process (`rpcserver.go:65`);
* the directory stays when `cmd.Start` fails, as `errors.Is(err, fs.ErrExist)`
  never holds of `os.Stat` (`auditor.go:163`);
* each validation leaves a zombie until the auditor ends (`rpc.go:88`);
* concurrent walkers write one map (`bitswap.go:222`);
* a `continue` leaves a libp2p host open (`retrieval.go:390`), and one more for
  each time that the preference list names Bitswap;
* `Build` returns no cleanup with its error, and it is called (`retrieval.go:335`).

## 8. What is not modelled

* **Location filter, IP info:** functions of other services' answers; the models
  choose among their outcomes (`NotForUs`, `IgnoreTask`).
* **The conversions of `module/retrieval/utils.go` and `protocolprovider.go`:**
  string functions between URLs and multiaddresses, without state.
* **Most settings, the API's authentication, and the commands that print keys or
  lists:** no modelled step depends on them.
* **The logger, the in-memory store, JSON:** wording, a test double, and the
  library's.
* **Both ends in one model:** dispatcher, auditor and observer meet only in
  messages and in lists; each is checked against any behaviour of what it
  reads, and their product is beyond TLC.
* **Statistics of a retrieval** (bytes, times, events): the status is modelled,
  the measurements are not.
* **The internals of libp2p, IPNS, web3.storage, `net/rpc`, `os/exec` and
  PostgreSQL:** modelled by what the code sees of them, and marked external.
