------------------------------ MODULE DealStates ------------------------------
(***************************************************************************)
(* The deals that retrieval tasks are made of: GlifDealStatesResolver of   *)
(* module/dealstates.go and Dispatcher.GetTask of                          *)
(* module/retrieval/retrieval.go.                                          *)
(*                                                                         *)
(* A goroutine downloads a file with the state of every deal of the        *)
(* market, again and again, and writes what it reads into a table, batch   *)
(* by batch.  GetTask, on other goroutines, picks a deal of the table.     *)
(***************************************************************************)
EXTENDS Naturals, FiniteSets

CONSTANTS
    Deals,     \* deals of the provider that tasks are about
    Clients,   \* the addresses that definitions name in fromClients
    ClientOf,  \* ClientOf[d]: the client of deal d
    BatchSizes, \* the values that the configuration gives s.batchSize
    NoDeal,    \* GetTask returned an error, nil or a task without a deal
    NoTask     \* GetTask has not been called

\* What the file says of a deal it names: its sector has not started yet, it
\* is active, or slashed.
Stages == {"proposed", "active", "slashed"}

ASSUME DealStatesAssumption ==
    /\ ClientOf \in [Deals -> Clients]
    /\ BatchSizes \subseteq Nat \ {0}
    /\ NoDeal \notin Deals /\ NoTask \notin Deals

VARIABLES
    file,      \* file[d]: what the file on the server says of deal d
    ended,     \* deals whose end epoch is not after currentEpoch()
    rows,      \* rows[d]: the row of d in the table deal_states, or "none"
    refresher, \* where the goroutine of Start is
    batchSize, \* s.batchSize
    body,      \* the file as it was when the download began
    unread,    \* deals of body that the decoder has not come to
    batch,     \* the deals in batch
    task,      \* the deal of the task that GetTask returned
    whole,     \* history: the refresh has lost nothing
    met        \* met[d]: history, what downloads have said of d

downloadVars == <<body, unread, batch, whole>>
vars == <<file, ended, rows, refresher, batchSize, downloadVars, task, met>>

Files == [Deals -> Stages \cup {"absent", "gone"}]
NoFile == [d \in Deals |-> "absent"]

TypeOK ==
    /\ file \in Files
    /\ ended \subseteq Deals
    /\ rows \in [Deals -> Stages \cup {"none"}]
    /\ refresher \in {"off", "waiting", "streaming"}
    /\ batchSize \in BatchSizes
    /\ body \in Files
    /\ unread \subseteq Deals
    /\ batch \subseteq Deals
    /\ Cardinality(batch) <= batchSize
    /\ task \in Deals \cup {NoDeal, NoTask}
    /\ whole \in BOOLEAN
    /\ met \in [Deals -> {"never", "active", "slashed"}]

Init ==
    /\ file = NoFile
    /\ ended = {}
    /\ rows = [d \in Deals |-> "none"]
    /\ refresher = "off"
    /\ batchSize \in BatchSizes
    /\ body = NoFile
    /\ unread = {}
    /\ batch = {}
    /\ task = NoTask
    /\ whole = FALSE
    /\ met = [d \in Deals |-> "never"]

InFile(f) == {d \in Deals : f[d] \in Stages}

-----------------------------------------------------------------------------
(* The market (external).  A deal may leave the file without ever being    *)
(* listed as slashed.                                                      *)

Successors(stage) ==
    CASE stage = "absent"   -> {"proposed", "active"}
      [] stage = "proposed" -> {"active", "gone"}
      [] stage = "active"   -> {"slashed", "gone"}
      [] stage = "slashed"  -> {"gone"}
      [] stage = "gone"     -> {}

MarketMoves(d) ==
    /\ \E stage \in Successors(file[d]) :
          file' = [file EXCEPT ![d] = stage]
    /\ UNCHANGED <<ended, batchSize, rows, refresher, downloadVars, task, met>>

EndEpochPasses(d) ==
    /\ file[d] # "absent"
    /\ ended' = ended \cup {d}
    /\ UNCHANGED <<file, batchSize, rows, refresher, downloadVars, task, met>>

-----------------------------------------------------------------------------
(* Start and refresh.                                                      *)

Start ==
    /\ refresher = "off"
    /\ refresher' = "waiting"
    /\ UNCHANGED <<file, ended, batchSize, rows, downloadVars, task, met>>

\* The request is answered with status 200; but for the first, it is made
\* after time.After(s.refreshInterval).
Request ==
    /\ refresher = "waiting"
    /\ refresher' = "streaming"
    /\ body' = file
    /\ unread' = InFile(file)
    /\ batch' = {}
    /\ whole' = TRUE
    /\ met' = [d \in Deals |->
          IF file[d] = "active" THEN "active" ELSE met[d]]
    /\ UNCHANGED <<file, ended, batchSize, rows, task>>

\* The goroutine's download is over before its end; its batch is lost.
Abandon ==
    /\ body' = NoFile
    /\ unread' = {}
    /\ batch' = {}
    /\ whole' = FALSE
    /\ UNCHANGED <<file, ended, batchSize, met>>

RequestFails ==
    /\ refresher = "waiting"
    /\ Abandon
    /\ UNCHANGED <<rows, refresher, task>>

\* The decoder hands over a deal, and it becomes part of the batch.
Decode(d) ==
    /\ refresher = "streaming"
    /\ d \in unread
    /\ Cardinality(batch) < batchSize
    /\ unread' = unread \ {d}
    /\ batch' = batch \cup {d}
    /\ UNCHANGED <<file, ended, batchSize, rows, refresher, body, whole, task,
                   met>>

\* What the decoder hands over is not a deal: refresh returns an error.
Undecodable ==
    /\ refresher = "streaming"
    /\ unread # {}
    /\ Cardinality(batch) < batchSize
    /\ refresher' = "waiting"
    /\ Abandon
    /\ UNCHANGED <<rows, task>>

\* The connection breaks.  The decoder ends its stream as at the end of the
\* file, and nobody asks it for an error.
CutShort ==
    /\ refresher = "streaming"
    /\ unread # {}
    /\ unread' = {}
    /\ whole' = FALSE
    /\ UNCHANGED <<file, ended, batchSize, rows, refresher, body, batch, task,
                   met>>

\* A full batch is saved at once, what remains at the end of the stream.
BatchIsDue ==
    /\ refresher = "streaming"
    /\ batch # {}
    /\ Cardinality(batch) = batchSize \/ unread = {}

\* Mutants of Upserted: rows that exist are left as they are; the table is
\* replaced by the file.
InsertedOnly ==
    [d \in Deals |->
        IF d \in batch /\ rows[d] = "none" THEN body[d] ELSE rows[d]]
Overwritten == body

\* INSERT ... ON CONFLICT (deal_id) DO UPDATE.
Upserted == [d \in Deals |-> IF d \in batch THEN body[d] ELSE rows[d]]

Save ==
    /\ BatchIsDue
    /\ rows' = Upserted
    /\ batch' = {}
    /\ UNCHANGED <<file, ended, batchSize, refresher, body, unread, whole,
                   task, met>>

\* The database answers with an error, or its answer is lost.
SaveFails ==
    /\ BatchIsDue
    /\ rows' \in {rows, Upserted}
    /\ refresher' = "waiting"
    /\ Abandon
    /\ UNCHANGED task

\* Mutant of Finish: the batch that is left at the end is not saved.
FinishAtOnce ==
    /\ refresher = "streaming"
    /\ unread = {}
    /\ refresher' = "waiting"
    /\ batch' = {}
    /\ met' = [d \in Deals |->
          IF whole /\ body[d] = "slashed" THEN "slashed" ELSE met[d]]
    /\ UNCHANGED <<file, ended, batchSize, rows, body, unread, whole, task>>

\* The end of refresh.  Whether it returns an error ("no deals downloaded")
\* makes no difference to Start.
Finish ==
    /\ refresher = "streaming"
    /\ unread = {}
    /\ batch = {}
    /\ refresher' = "waiting"
    /\ met' = [d \in Deals |->
          IF whole /\ body[d] = "slashed" THEN "slashed" ELSE met[d]]
    /\ UNCHANGED <<file, ended, batchSize, rows, downloadVars, task>>

\* The process ends, and with it the goroutine; the table stays.
Crash ==
    /\ refresher # "off"
    /\ refresher' = "off"
    /\ task' = NoTask
    /\ Abandon
    /\ UNCHANGED rows

-----------------------------------------------------------------------------
(* GetTask.                                                                *)

\* Mutant of Eligible: the epoch at which a deal was slashed is not compared.
EligibleOnceStarted(d) == rows[d] \in {"active", "slashed"} /\ d \notin ended

\* end_epoch > ? and slash_epoch < 0 and sector_start_epoch > 0
Eligible(d) == rows[d] = "active" /\ d \notin ended

\* DealsByProvider, or DealsByProviderClients when the definition names
\* clients: one of the eligible deals; nil or an error without one.
GetTask(clients) ==
    /\ task = NoTask
    /\ LET deals == {d \in Deals : Eligible(d) /\ ClientOf[d] \in clients} IN
       task' \in IF deals = {} THEN {NoDeal} ELSE deals
    /\ UNCHANGED <<file, ended, batchSize, rows, refresher, downloadVars, met>>

\* A client's address has no ID in the table and the lookup fails, a query
\* fails, or the definition lists CIDs and no deal is needed.
GetNoDeal ==
    /\ task = NoTask
    /\ task' = NoDeal
    /\ UNCHANGED <<file, ended, batchSize, rows, refresher, downloadVars, met>>

\* The dispatcher publishes the task, or logs what it got instead.
TakeTask ==
    /\ task # NoTask
    /\ task' = NoTask
    /\ UNCHANGED <<file, ended, batchSize, rows, refresher, downloadVars, met>>

-----------------------------------------------------------------------------
Market == \E d \in Deals : MarketMoves(d) \/ EndEpochPasses(d)

Refresh ==
    \/ Request \/ RequestFails
    \/ \E d \in Deals : Decode(d)
    \/ Undecodable \/ CutShort
    \/ Save \/ SaveFails \/ Finish

Next ==
    \/ Market \/ Start \/ Refresh \/ Crash
    \/ \E clients \in SUBSET Clients \ {{}} : GetTask(clients)
    \/ GetNoDeal \/ TakeTask

Spec == Init /\ [][Next]_vars

\* The goroutine goes on: no request and no query is left without an answer
\* for ever.
FairSpec == Spec /\ WF_vars(Refresh)

-----------------------------------------------------------------------------
(* After a refresh that lost nothing the table holds every deal of the     *)
(* download as it was there, however the batches fell.                     *)
RefreshIsComplete ==
    refresher = "waiting" /\ whole =>
        \A d \in InFile(body) : rows[d] = body[d]

(* A task is made of a deal that was active when it was downloaded and has *)
(* not ended; and once a complete refresh has met it slashed, no later     *)
(* failure, cut-short download or restart makes it a task again.           *)
TasksAreOfLiveDeals ==
    [][task = NoTask /\ task' \in Deals =>
          met[task'] = "active" /\ task' \notin ended]_vars

(* A deal that stays as it is ends up so in the table, if the refresher is *)
(* not stopped and its refreshes no longer fail: an active deal can become *)
(* a task, a slashed one cannot.                                           *)
TableFollowsFile ==
    <>[](refresher # "off" /\ (refresher = "waiting" => whole)) =>
        \A d \in Deals, stage \in Stages :
            <>[](file[d] = stage) => <>[](rows[d] = stage)
=============================================================================
