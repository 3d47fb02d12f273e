--------------------------- MODULE DealStatesProofs ---------------------------
(***************************************************************************)
(* For any number of deals, clients and batch sizes: a refresh that lost   *)
(* nothing leaves the table as the file was, and a task is made of a deal  *)
(* that was active when it was downloaded and has not ended (module        *)
(* DealStates).                                                            *)
(***************************************************************************)
EXTENDS DealStates, FiniteSetTheorems, TLAPS

(* What the download still has to bring: deals of the file, of which the   *)
(* batch holds finitely many; between refreshes there is nothing, unless   *)
(* one was cut short.                                                      *)
DownloadInv ==
    /\ unread \subseteq InFile(body)
    /\ batch \subseteq InFile(body)
    /\ IsFiniteSet(batch)
    /\ refresher # "streaming" => unread = {} /\ batch = {}

(* All that the refresh has read and saved is in the table.                *)
TableInv ==
    whole => \A d \in InFile(body) \ (unread \cup batch) : rows[d] = body[d]

(* What is active in the table or in the download has been met active, and *)
(* not slashed since.                                                      *)
MetInv ==
    \A d \in Deals :
        /\ rows[d] = "active" => met[d] = "active"
        /\ body[d] = "active" => met[d] = "active"

DealStatesInv == TypeOK /\ DownloadInv /\ TableInv /\ MetInv

-----------------------------------------------------------------------------
(* The file before there is one names no deal.                             *)
LEMMA NoFileIsEmpty ==
    /\ NoFile \in Files
    /\ InFile(NoFile) = {}
    /\ \A d \in Deals : NoFile[d] # "active"
  BY DEF NoFile, Files, InFile, Stages

(* A batch that is not full has room for one deal more.                    *)
LEMMA BatchGrows ==
    ASSUME TypeOK, IsFiniteSet(batch), Cardinality(batch) < batchSize,
           NEW d \in Deals
    PROVE  /\ IsFiniteSet(batch \cup {d})
           /\ Cardinality(batch \cup {d}) <= batchSize
<1>1. Cardinality(batch) \in Nat /\ batchSize \in Nat
  BY FS_CardinalityType, DealStatesAssumption DEF TypeOK
<1> QED
  BY <1>1, FS_AddElement

LEMMA EmptyBatch ==
    ASSUME TypeOK
    PROVE  IsFiniteSet({}) /\ Cardinality({}) <= batchSize
<1>1. batchSize \in Nat
  BY DealStatesAssumption DEF TypeOK
<1> QED
  BY <1>1, FS_EmptySet

(* Saving the batch keeps the types, and what is active was met so.        *)
LEMMA UpsertedRows ==
    ASSUME DealStatesInv
    PROVE  /\ Upserted \in [Deals -> Stages \cup {"none"}]
           /\ \A d \in Deals : Upserted[d] = "active" => met[d] = "active"
           /\ \A d \in Deals :
                 Upserted[d] = IF d \in batch THEN body[d] ELSE rows[d]
  BY DEF DealStatesInv, TypeOK, DownloadInv, MetInv, Upserted, InFile

(* Whatever ends a download early leaves nothing of it behind.             *)
LEMMA AbandonStep ==
    ASSUME DealStatesInv, Abandon,
           rows' \in {rows, Upserted},
           refresher' \in {"off", "waiting"},
           task' \in Deals \cup {NoDeal, NoTask}
    PROVE  DealStatesInv'
<1>1. TypeOK'
  BY UpsertedRows, NoFileIsEmpty, EmptyBatch DEF DealStatesInv, TypeOK, Abandon
<1>2. DownloadInv'
  BY FS_EmptySet DEF DownloadInv, Abandon
<1>3. TableInv'
  BY DEF TableInv, Abandon
<1>4. MetInv'
  BY UpsertedRows, NoFileIsEmpty DEF DealStatesInv, MetInv, Abandon
<1> QED
  BY <1>1, <1>2, <1>3, <1>4 DEF DealStatesInv

(* The steps of the goroutine.                                             *)
LEMMA RefreshStep ==
    ASSUME DealStatesInv, Refresh
    PROVE  DealStatesInv'
<1>1. CASE Request
  <2>1. TypeOK'
    BY <1>1, EmptyBatch, FS_EmptySet DEF DealStatesInv, TypeOK, Request,
       InFile, Files
  <2>2. DownloadInv'
    BY <1>1, EmptyBatch, FS_EmptySet DEF DealStatesInv, DownloadInv, TypeOK,
       Request, InFile, Files
  <2>3. TableInv'
    BY <1>1, EmptyBatch, FS_EmptySet DEF DealStatesInv, TableInv, TypeOK,
       Request, InFile, Files
  <2>4. MetInv'
    BY <1>1, EmptyBatch, FS_EmptySet DEF DealStatesInv, MetInv, TypeOK,
       Request, InFile, Files
  <2> QED
    BY <2>1, <2>2, <2>3, <2>4 DEF DealStatesInv
<1>2. CASE RequestFails \/ Undecodable
  BY <1>2, AbandonStep DEF RequestFails, Undecodable, DealStatesInv, TypeOK
<1>3. ASSUME NEW d \in Deals, Decode(d)
      PROVE  DealStatesInv'
  <2>1. TypeOK'
    BY <1>3, BatchGrows DEF DealStatesInv, TypeOK, DownloadInv, Decode
  <2>2. DownloadInv'
    BY <1>3, BatchGrows DEF DealStatesInv, DownloadInv, TypeOK, Decode
  <2>3. TableInv'
    BY <1>3, BatchGrows DEF DealStatesInv, TableInv, TypeOK, DownloadInv,
       Decode
  <2>4. MetInv'
    BY <1>3, BatchGrows DEF DealStatesInv, MetInv, TypeOK, DownloadInv, Decode
  <2> QED
    BY <2>1, <2>2, <2>3, <2>4 DEF DealStatesInv
<1>4. CASE CutShort
  <2>1. TypeOK'
    BY <1>4 DEF DealStatesInv, TypeOK, CutShort
  <2>2. DownloadInv'
    BY <1>4 DEF DealStatesInv, DownloadInv, TypeOK, CutShort
  <2>3. TableInv'
    BY <1>4 DEF DealStatesInv, TableInv, TypeOK, CutShort
  <2>4. MetInv'
    BY <1>4 DEF DealStatesInv, MetInv, TypeOK, CutShort
  <2> QED
    BY <2>1, <2>2, <2>3, <2>4 DEF DealStatesInv
<1>5. CASE Save
  <2>1. TypeOK'
    BY <1>5, UpsertedRows, EmptyBatch, FS_EmptySet DEF DealStatesInv, TypeOK,
       Save, BatchIsDue, InFile
  <2>2. DownloadInv'
    BY <1>5, UpsertedRows, EmptyBatch, FS_EmptySet DEF DealStatesInv,
       DownloadInv, TypeOK, Save, BatchIsDue, InFile
  <2>3. TableInv'
    BY <1>5, UpsertedRows, EmptyBatch, FS_EmptySet DEF DealStatesInv, TableInv,
       TypeOK, Save, BatchIsDue, InFile
  <2>4. MetInv'
    BY <1>5, UpsertedRows, EmptyBatch, FS_EmptySet DEF DealStatesInv, MetInv,
       TypeOK, Save, BatchIsDue, InFile
  <2> QED
    BY <2>1, <2>2, <2>3, <2>4 DEF DealStatesInv
<1>6. CASE SaveFails
  BY <1>6, AbandonStep DEF SaveFails, DealStatesInv, TypeOK
<1>7. CASE Finish
  <2>1. TypeOK'
    BY <1>7 DEF DealStatesInv, TypeOK, Finish, downloadVars
  <2>2. DownloadInv'
    BY <1>7 DEF DealStatesInv, DownloadInv, TypeOK, Finish, downloadVars
  <2>3. TableInv'
    BY <1>7 DEF DealStatesInv, TableInv, TypeOK, Finish, downloadVars
  <2>4. MetInv'
    <3>1. ASSUME NEW d \in Deals, whole, body[d] = "slashed"
          PROVE  rows[d] = "slashed"
      BY <1>7, <3>1 DEF Finish, DealStatesInv, TableInv, InFile, Stages
    <3> QED
      BY <1>7, <3>1 DEF DealStatesInv, MetInv, TypeOK, Finish, downloadVars
  <2> QED
    BY <2>1, <2>2, <2>3, <2>4 DEF DealStatesInv
<1> QED
  BY <1>1, <1>2, <1>3, <1>4, <1>5, <1>6, <1>7 DEF Refresh

(* GetTask makes a task of a deal that is eligible, or of none.            *)
LEMMA GetTaskPicks ==
    ASSUME NEW clients \in SUBSET Clients, GetTask(clients)
    PROVE  \/ task' = NoDeal
           \/ task' \in Deals /\ Eligible(task')
  BY DEF GetTask

(* Steps that leave the table, the download and its history alone.         *)
LEMMA AsideStep ==
    ASSUME DealStatesInv,
           batchSize' = batchSize, rows' = rows,
           downloadVars' = downloadVars, met' = met,
           file' \in Files, ended' \subseteq Deals,
           \/ refresher' = refresher
           \/ refresher = "off" /\ refresher' = "waiting",
           task' \in Deals \cup {NoDeal, NoTask}
    PROVE  DealStatesInv'
<1>1. TypeOK'
  BY DEF DealStatesInv, TypeOK, downloadVars
<1>2. DownloadInv'
  BY DEF DealStatesInv, DownloadInv, InFile, downloadVars
<1>3. TableInv' /\ MetInv'
  BY DEF DealStatesInv, TableInv, MetInv, InFile, downloadVars
<1> QED
  BY <1>1, <1>2, <1>3 DEF DealStatesInv

LEMMA NextKeepsDealStatesInv ==
    DealStatesInv /\ [Next]_vars => DealStatesInv'
<1> SUFFICES ASSUME DealStatesInv, [Next]_vars PROVE DealStatesInv'
  OBVIOUS
<1>0. /\ file \in Files /\ ended \subseteq Deals
      /\ task \in Deals \cup {NoDeal, NoTask}
  BY DEF DealStatesInv, TypeOK
<1>1. ASSUME NEW d \in Deals, MarketMoves(d)
      PROVE  DealStatesInv'
  <2>1. \A stage \in Stages \cup {"absent", "gone"} :
            Successors(stage) \subseteq Stages \cup {"gone"}
    BY DEF Successors, Stages
  <2>2. PICK stage \in Successors(file[d]) : file' = [file EXCEPT ![d] = stage]
    BY <1>1 DEF MarketMoves
  <2>3. file' \in Files
    BY <1>0, <2>1, <2>2 DEF Files
  <2> QED
    BY <1>0, <1>1, <2>3, AsideStep DEF MarketMoves
<1>2. ASSUME NEW d \in Deals, EndEpochPasses(d)
      PROVE  DealStatesInv'
  BY <1>0, <1>2, AsideStep DEF EndEpochPasses
<1>3. CASE Start
  BY <1>0, <1>3, AsideStep DEF Start
<1>4. CASE Refresh
  BY <1>4, RefreshStep
<1>5. CASE Crash
  BY <1>0, <1>5, AbandonStep DEF Crash, Abandon
<1>6. ASSUME NEW clients \in SUBSET Clients, GetTask(clients)
      PROVE  DealStatesInv'
  <2>1. task' \in Deals \cup {NoDeal}
    BY <1>6, GetTaskPicks
  <2> QED
    BY <1>0, <1>6, <2>1, AsideStep DEF GetTask
<1>7. CASE GetNoDeal \/ TakeTask
  BY <1>0, <1>7, AsideStep DEF GetNoDeal, TakeTask
<1>8. CASE UNCHANGED vars
  BY <1>0, <1>8, AsideStep DEF vars
<1> QED
  BY <1>1, <1>2, <1>3, <1>4, <1>5, <1>6, <1>7, <1>8 DEF Next, Market

-----------------------------------------------------------------------------
(* The table is empty, and nothing is downloaded, at first.                *)
LEMMA InitDealStates == Init => DealStatesInv
<1> SUFFICES ASSUME Init PROVE DealStatesInv
  OBVIOUS
<1>1. TypeOK
  <2>1. batchSize \in Nat
    BY DealStatesAssumption DEF Init
  <2>2. Cardinality(batch) <= batchSize
    BY <2>1, FS_EmptySet DEF Init
  <2> QED
    BY <2>2, NoFileIsEmpty DEF Init, TypeOK
<1>2. DownloadInv
  BY FS_EmptySet DEF Init, DownloadInv
<1>3. TableInv
  BY DEF Init, TableInv
<1>4. MetInv
  BY NoFileIsEmpty DEF Init, MetInv
<1> QED
  BY <1>1, <1>2, <1>3, <1>4 DEF DealStatesInv

(* The invariant of the refreshes and the table holds throughout.          *)
THEOREM DealStatesCorrect == Spec => []DealStatesInv
<1> QED
  BY InitDealStates, NextKeepsDealStatesInv, PTL DEF Spec

(* Every step leaves each variable of DealStates in its type.              *)
THEOREM DealStatesTypeCorrect == Spec => []TypeOK
<1>1. DealStatesInv => TypeOK
  BY DEF DealStatesInv
<1> QED
  BY <1>1, DealStatesCorrect, PTL

(* After a refresh that lost nothing the table holds every deal of the     *)
(* download as it was there.                                               *)
THEOREM RefreshIsCompleteAlways == Spec => []RefreshIsComplete
<1>1. DealStatesInv => RefreshIsComplete
  BY DEF DealStatesInv, DownloadInv, TableInv, RefreshIsComplete
<1> QED
  BY <1>1, DealStatesCorrect, PTL

(* A task is made of a deal that was active when it was downloaded, was    *)
(* not met slashed since and has not ended.                                *)
THEOREM TasksAreOfLiveDealsAlways == Spec => TasksAreOfLiveDeals
<1> DEFINE Live ==
      task = NoTask /\ task' \in Deals =>
          met[task'] = "active" /\ task' \notin ended
<1>1. ASSUME DealStatesInv, [Next]_vars, task = NoTask, task' \in Deals
      PROVE  met[task'] = "active" /\ task' \notin ended
  <2>1. PICK clients \in SUBSET Clients : GetTask(clients)
    BY <1>1, DealStatesAssumption DEF Next, Market, MarketMoves,
       EndEpochPasses, Start, Refresh, Request, RequestFails, Decode,
       Undecodable, CutShort, Save, SaveFails, Finish, Crash, GetNoDeal,
       TakeTask, vars
  <2>2. Eligible(task')
    BY <1>1, <2>1, GetTaskPicks, DealStatesAssumption
  <2> QED
    BY <1>1, <2>2 DEF Eligible, DealStatesInv, MetInv
<1>2. DealStatesInv /\ [Next]_vars => [Live]_vars
  BY <1>1
<1>3. Spec => [][Live]_vars
  BY <1>2, DealStatesCorrect, PTL DEF Spec
<1> QED
  BY <1>3 DEF TasksAreOfLiveDeals
=============================================================================
