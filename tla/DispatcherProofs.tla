--------------------------- MODULE DispatcherProofs ---------------------------
(***************************************************************************)
(* For any number of task definitions, intervals, failed calls and         *)
(* crashes: a definition without an interval is broadcast at most once,    *)
(* at most one broadcast follows a Remove, and while nothing fails no      *)
(* definition is broadcast again before its interval is over (module       *)
(* Dispatcher).                                                            *)
(***************************************************************************)
EXTENDS Dispatcher, TLAPS

\* The loop has d in hand: to be dispatched, or just broadcast.
InLoop(d) == d \in snapshot \/ recording = d

(* Who dispatches d: a request does so once, if d has no interval, and the *)
(* loop does if it has one.  A row is made once and never comes back.      *)
RowsAreMadeOnce ==
    \A d \in Definitions :
        /\ request[d] = "none" => ~Exists(d) /\ d \notin removed /\ sent[d] = 0
        /\ d \in removed => ~Exists(d)

LoopIsPeriodic ==
    \A d \in Definitions :
        /\ InLoop(d) => request[d] = "ok"
        /\ InLoop(d) /\ Exists(d) => rows[d].interval > 0
        /\ Exists(d) /\ rows[d].interval > 0 => request[d] = "ok"
        /\ recording = d => d \in snapshot

OneOffInv ==
    /\ OneOffIsSentOnce
    /\ \A d \in Definitions : request[d] = "inserted" => sent[d] = 0

(* The one broadcast after a Remove is made when the loop is past d, or    *)
(* the request is.                                                         *)
LateInv ==
    /\ AtMostOneBroadcastAfterRemove
    /\ \A d \in Definitions :
          /\ d \notin removed => late[d] = 0
          /\ late[d] # 0 => /\ request[d] # "inserted"
                            /\ d \in snapshot => recording = d

DispatcherInv ==
    TypeOK /\ RowsAreMadeOnce /\ LoopIsPeriodic /\ OneOffInv /\ LateInv

(* The time since the last broadcast and the time a row has left cover the *)
(* interval, unless the row is still to be updated.                        *)
Spaced ==
    faults = 0 =>
        \A d \in Definitions :
            Periodic(d) /\ sent[d] > 0 /\ recording # d =>
                /\ rows[d].dispatched
                /\ since[d] + rows[d].left > rows[d].interval
                /\ d \in snapshot => since[d] > rows[d].interval

-----------------------------------------------------------------------------
(* There is a longest interval, and no interval is longer.                 *)
LEMMA LongestIsLongest ==
    /\ Longest \in Nat
    /\ \A n \in Intervals : n \in Nat /\ n <= Longest
<1>1. /\ Longest \in Intervals
      /\ \A m \in Intervals : m <= Longest
  BY DispatcherAssumption DEF Longest
<1> QED
  BY <1>1, DispatcherAssumption

(* What a row says of the interval, and what an UPDATE makes of it.        *)
LEMMA RowFields ==
    ASSUME NEW row \in Rows
    PROVE  /\ row.interval \in Nat
           /\ row.dispatched \in BOOLEAN
           /\ row.left \in Nat
<1>1. row.interval \in Intervals
  BY DEF Rows
<1> QED
  BY <1>1, DispatcherAssumption DEF Rows

Updated(row, n) == [row EXCEPT !.dispatched = TRUE, !.left = n]

LEMMA UpdatedRow ==
    ASSUME NEW row \in Rows, NEW n \in Nat
    PROVE  /\ Updated(row, n) \in Rows
           /\ Updated(row, n).interval = row.interval
           /\ Updated(row, n).dispatched = TRUE
           /\ Updated(row, n).left = n
  BY DEF Rows, Updated

(* Recording the dispatch of d changes its row only, and makes it due      *)
(* again when its interval is over, not before.                            *)
LEMMA RecordRow ==
    ASSUME TypeOK, NEW d \in Definitions, Record(d)
    PROVE  /\ rows' \in [Definitions -> Rows \cup {NoRow}]
           /\ \A e \in Definitions :
                 /\ Exists(e)' <=> Exists(e)
                 /\ Exists(e) => rows'[e].interval = rows[e].interval
                 /\ e # d => rows'[e] = rows[e]
           /\ Exists(d) => /\ rows'[d].dispatched = TRUE
                           /\ rows'[d].left > rows[d].interval
<1>1. PICK jitter \in 0 .. (Jitter - 1) :
        rows' = [rows EXCEPT ![d] =
            IF @ = NoRow THEN NoRow
            ELSE [@ EXCEPT !.dispatched = TRUE,
                           !.left = jitter + rows[d].interval + 1]]
  BY DEF Record
<1>2. CASE ~Exists(d)
  <2>1. rows' = rows
    BY <1>1, <1>2 DEF Exists, TypeOK
  <2> QED
    BY <2>1, <1>2 DEF TypeOK, Exists
<1>3. CASE Exists(d)
  <2>1. rows[d] \in Rows
    BY <1>3 DEF TypeOK, Exists
  <2>2. jitter \in Nat /\ rows[d].interval \in Nat
    BY <2>1, RowFields, DispatcherAssumption
  <2>3. PICK n \in Nat : n = jitter + rows[d].interval + 1
    BY <2>2
  <2> DEFINE row == Updated(rows[d], n)
  <2>4. /\ row \in Rows
        /\ row.interval = rows[d].interval
        /\ row.dispatched = TRUE
        /\ row.left = n
    BY <2>1, <2>3, UpdatedRow
  <2>5. rows' = [rows EXCEPT ![d] = row]
    BY <1>1, <1>3, <2>3 DEF Exists, Updated
  <2>6. row # NoRow
    BY <2>4, NoRowAssumption
  <2>7. row.left > rows[d].interval
    BY <2>2, <2>3, <2>4
  <2> HIDE DEF row
  <2> QED
    BY <1>3, <2>4, <2>5, <2>6, <2>7 DEF TypeOK, Exists
<1> QED
  BY <1>2, <1>3
-----------------------------------------------------------------------------
(* What the steps of the loop, and those of the requests, do to the types. *)
LEMMA LoopKeepsTypes ==
    ASSUME TypeOK, Loop
    PROVE  TypeOK'
<1> USE DispatcherAssumption, LongestIsLongest
<1>1. CASE PollDefinitions
  BY <1>1 DEF PollDefinitions, TypeOK, tableVars, history
<1>2. CASE PollFails
  BY <1>2 DEF PollFails, Fault, TypeOK, tableVars, history
<1>3. ASSUME NEW d \in Definitions, DispatchTask(d)
      PROVE  TypeOK'
  BY <1>3 DEF DispatchTask, Broadcast, TypeOK, tableVars
<1>4. ASSUME NEW d \in Definitions, SkipTask(d)
      PROVE  TypeOK'
  BY <1>4 DEF SkipTask, GoOn, TypeOK, tableVars, history
<1>5. CASE RecordDispatch
  <2>1. recording \in Definitions
    BY <1>5 DEF RecordDispatch, TypeOK
  <2>2. rows' \in [Definitions -> Rows \cup {NoRow}]
    BY <1>5, <2>1, RecordRow DEF RecordDispatch
  <2> QED
    BY <1>5, <2>1, <2>2 DEF RecordDispatch, GoOn, TypeOK, history
<1>6. CASE RecordDispatchFails
  BY <1>6 DEF RecordDispatchFails, Fault, GoOn, TypeOK, tableVars, history
<1> QED
  BY <1>1, <1>2, <1>3, <1>4, <1>5, <1>6 DEF Loop

LEMMA RequestKeepsTypes ==
    ASSUME TypeOK, NEW d \in Definitions, Request(d)
    PROVE  TypeOK'
<1> USE DispatcherAssumption, LongestIsLongest
<1>1. CASE Create(d)
  <2>1. PICK interval \in Intervals, dispatched \in BOOLEAN :
          /\ rows' = [rows EXCEPT ![d] =
                [interval |-> interval, dispatched |-> dispatched,
                 left |-> interval + 1]]
          /\ request' = [request EXCEPT ![d] =
                IF interval = 0 THEN "inserted" ELSE "ok"]
    BY <1>1 DEF Create
  <2>2. [interval |-> interval, dispatched |-> dispatched,
         left |-> interval + 1] \in Rows
    BY DEF Rows
  <2> QED
    BY <1>1, <2>1, <2>2 DEF Create, TypeOK, loopVars, history
<1>2. CASE CreateDispatches(d)
  BY <1>2 DEF CreateDispatches, Broadcast, TypeOK, tableVars, loopVars
<1>3. CASE CreateRecords(d)
  BY <1>3, RecordRow DEF CreateRecords, TypeOK, loopVars, history
<1>4. CASE CreateSkipsTask(d)
  BY <1>4 DEF CreateSkipsTask, TypeOK, tableVars, loopVars, history
<1>5. CASE CreateFails(d)
  BY <1>5 DEF CreateFails, Fault, TypeOK, tableVars, loopVars, history
<1>6. CASE Remove(d)
  BY <1>6 DEF Remove, TypeOK, loopVars, history
<1> QED
  BY <1>1, <1>2, <1>3, <1>4, <1>5, <1>6 DEF Request

(* Time runs out in each row, and no row appears or disappears.            *)
LEMMA TickRows ==
    ASSUME TypeOK, Tick
    PROVE  /\ rows' \in [Definitions -> Rows \cup {NoRow}]
           /\ \A d \in Definitions :
                 /\ Exists(d)' <=> Exists(d)
                 /\ Exists(d) =>
                       /\ rows'[d].interval = rows[d].interval
                       /\ rows'[d].dispatched = rows[d].dispatched
                       /\ rows'[d].left = Minus1(rows[d].left)
<1>1. ASSUME NEW row \in Rows
      PROVE  LET new == [row EXCEPT !.left = Minus1(@)]
             IN  /\ new \in Rows
                 /\ new.interval = row.interval
                 /\ new.dispatched = row.dispatched
                 /\ new.left = Minus1(row.left)
  BY DEF Rows, Minus1
<1>2. ASSUME NEW d \in Definitions, Exists(d)
      PROVE  /\ rows'[d] \in Rows
             /\ rows'[d] # NoRow
             /\ rows'[d].interval = rows[d].interval
             /\ rows'[d].dispatched = rows[d].dispatched
             /\ rows'[d].left = Minus1(rows[d].left)
  <2>1. rows[d] \in Rows
    BY <1>2 DEF TypeOK, Exists
  <2>2. rows'[d] = [rows[d] EXCEPT !.left = Minus1(@)]
    BY <1>2 DEF Tick
  <2> QED
    BY <1>1, <2>1, <2>2, NoRowAssumption
<1>3. ASSUME NEW d \in Definitions, ~Exists(d)
      PROVE  rows'[d] = NoRow
  BY <1>3 DEF Tick
<1>4. rows' = [d \in Definitions |-> rows'[d]]
  BY DEF Tick
<1> QED
  BY <1>2, <1>3, <1>4 DEF Exists

(* TypeOK is an invariant.                                                 *)
LEMMA NextKeepsTypes ==
    TypeOK /\ [Next]_vars => TypeOK'
<1> SUFFICES ASSUME TypeOK, [Next]_vars PROVE TypeOK'
  OBVIOUS
<1> USE DispatcherAssumption, LongestIsLongest
<1>1. CASE Tick
  BY <1>1, TickRows DEF Tick, Minus1, TypeOK
<1>2. CASE Loop
  BY <1>2, LoopKeepsTypes
<1>3. ASSUME NEW d \in Definitions, Request(d)
      PROVE  TypeOK'
  BY <1>3, RequestKeepsTypes
<1>4. CASE Crash
  BY <1>4 DEF Crash, Fault, TypeOK, tableVars, history
<1>5. CASE UNCHANGED vars
  BY <1>5 DEF vars, TypeOK
<1> QED
  BY <1>1, <1>2, <1>3, <1>4, <1>5 DEF Next

-----------------------------------------------------------------------------
\* What is to be shown of a step, its types aside.
SafeParts == RowsAreMadeOnce /\ LoopIsPeriodic /\ OneOffInv /\ LateInv

LEMMA LoopKeepsSafeParts ==
    ASSUME DispatcherInv, Loop
    PROVE  SafeParts'
<1> USE DispatcherAssumption DEF DispatcherInv
<1>1. CASE PollDefinitions
  <2>1. RowsAreMadeOnce'
    BY <1>1 DEF RowsAreMadeOnce, DispatcherInv, TypeOK, Exists,
       PollDefinitions, AtRest, Due, Periodic, tableVars, history
  <2>2. LoopIsPeriodic'
    BY <1>1 DEF RowsAreMadeOnce, LoopIsPeriodic, InLoop, DispatcherInv, TypeOK,
       Exists, PollDefinitions, AtRest, Due, Periodic, tableVars, history
  <2>3. OneOffInv'
    BY <1>1 DEF RowsAreMadeOnce, LoopIsPeriodic, InLoop, OneOffInv,
       OneOffIsSentOnce, DispatcherInv, TypeOK, Exists, PollDefinitions,
       AtRest, Due, Periodic, tableVars, history
  <2>4. LateInv'
    BY <1>1 DEF RowsAreMadeOnce, LoopIsPeriodic, InLoop, LateInv,
       AtMostOneBroadcastAfterRemove, DispatcherInv, TypeOK, Exists,
       PollDefinitions, AtRest, Due, Periodic, tableVars, history
  <2> QED
    BY <2>1, <2>2, <2>3, <2>4 DEF SafeParts
<1>2. CASE PollFails
  <2>1. RowsAreMadeOnce'
    BY <1>2 DEF RowsAreMadeOnce, DispatcherInv, TypeOK, Exists, PollFails,
       AtRest, tableVars, history
  <2>2. LoopIsPeriodic'
    BY <1>2 DEF RowsAreMadeOnce, LoopIsPeriodic, InLoop, DispatcherInv, TypeOK,
       Exists, PollFails, AtRest, tableVars, history
  <2>3. OneOffInv'
    BY <1>2 DEF RowsAreMadeOnce, LoopIsPeriodic, InLoop, OneOffInv,
       OneOffIsSentOnce, DispatcherInv, TypeOK, Exists, PollFails, AtRest,
       tableVars, history
  <2>4. LateInv'
    BY <1>2 DEF RowsAreMadeOnce, LoopIsPeriodic, InLoop, LateInv,
       AtMostOneBroadcastAfterRemove, DispatcherInv, TypeOK, Exists, PollFails,
       AtRest, tableVars, history
  <2> QED
    BY <2>1, <2>2, <2>3, <2>4 DEF SafeParts
<1>3. ASSUME NEW d \in Definitions, DispatchTask(d)
      PROVE  SafeParts'
  <2>1. RowsAreMadeOnce'
    BY <1>3 DEF RowsAreMadeOnce, LoopIsPeriodic, InLoop, DispatcherInv, TypeOK,
       Exists, DispatchTask, Broadcast, tableVars
  <2>2. LoopIsPeriodic'
    BY <1>3 DEF RowsAreMadeOnce, LoopIsPeriodic, InLoop, DispatcherInv, TypeOK,
       Exists, DispatchTask, Broadcast, tableVars
  <2>3. OneOffInv'
    BY <1>3 DEF RowsAreMadeOnce, LoopIsPeriodic, InLoop, OneOffInv,
       OneOffIsSentOnce, DispatcherInv, TypeOK, Exists, DispatchTask,
       Broadcast, tableVars
  <2>4. LateInv'
    BY <1>3 DEF RowsAreMadeOnce, LoopIsPeriodic, InLoop, LateInv,
       AtMostOneBroadcastAfterRemove, DispatcherInv, TypeOK, Exists,
       DispatchTask, Broadcast, tableVars
  <2> QED
    BY <2>1, <2>2, <2>3, <2>4 DEF SafeParts
<1>4. ASSUME NEW d \in Definitions, SkipTask(d)
      PROVE  SafeParts'
  <2>1. RowsAreMadeOnce'
    BY <1>4 DEF RowsAreMadeOnce, DispatcherInv, TypeOK, Exists, SkipTask, GoOn,
       tableVars, history
  <2>2. LoopIsPeriodic'
    BY <1>4 DEF RowsAreMadeOnce, LoopIsPeriodic, InLoop, DispatcherInv, TypeOK,
       Exists, SkipTask, GoOn, tableVars, history
  <2>3. OneOffInv'
    BY <1>4 DEF RowsAreMadeOnce, LoopIsPeriodic, InLoop, OneOffInv,
       OneOffIsSentOnce, DispatcherInv, TypeOK, Exists, SkipTask, GoOn,
       tableVars, history
  <2>4. LateInv'
    BY <1>4 DEF RowsAreMadeOnce, LoopIsPeriodic, InLoop, LateInv,
       AtMostOneBroadcastAfterRemove, DispatcherInv, TypeOK, Exists, SkipTask,
       GoOn, tableVars, history
  <2> QED
    BY <2>1, <2>2, <2>3, <2>4 DEF SafeParts
<1>5. CASE RecordDispatch
  <2>0. /\ recording \in Definitions
        /\ \A e \in Definitions :
              /\ Exists(e)' <=> Exists(e)
              /\ Exists(e) => rows'[e].interval = rows[e].interval
    BY <1>5, RecordRow DEF RecordDispatch, TypeOK
  <2>1. RowsAreMadeOnce'
    BY <1>5, <2>0 DEF RowsAreMadeOnce, DispatcherInv, TypeOK, RecordDispatch,
       GoOn, history
  <2>2. LoopIsPeriodic'
    BY <1>5, <2>0 DEF RowsAreMadeOnce, LoopIsPeriodic, InLoop, DispatcherInv,
       TypeOK, RecordDispatch, GoOn, history
  <2>3. OneOffInv'
    BY <1>5, <2>0 DEF RowsAreMadeOnce, LoopIsPeriodic, InLoop, OneOffInv,
       OneOffIsSentOnce, DispatcherInv, TypeOK, RecordDispatch, GoOn, history
  <2>4. LateInv'
    BY <1>5, <2>0 DEF RowsAreMadeOnce, LoopIsPeriodic, InLoop, LateInv,
       AtMostOneBroadcastAfterRemove, DispatcherInv, TypeOK, RecordDispatch,
       GoOn, history
  <2> QED
    BY <2>1, <2>2, <2>3, <2>4 DEF SafeParts
<1>6. CASE RecordDispatchFails
  <2>1. RowsAreMadeOnce'
    BY <1>6 DEF RowsAreMadeOnce, DispatcherInv, TypeOK, Exists,
       RecordDispatchFails, GoOn, tableVars, history
  <2>2. LoopIsPeriodic'
    BY <1>6 DEF RowsAreMadeOnce, LoopIsPeriodic, InLoop, DispatcherInv, TypeOK,
       Exists, RecordDispatchFails, GoOn, tableVars, history
  <2>3. OneOffInv'
    BY <1>6 DEF RowsAreMadeOnce, LoopIsPeriodic, InLoop, OneOffInv,
       OneOffIsSentOnce, DispatcherInv, TypeOK, Exists, RecordDispatchFails,
       GoOn, tableVars, history
  <2>4. LateInv'
    BY <1>6 DEF RowsAreMadeOnce, LoopIsPeriodic, InLoop, LateInv,
       AtMostOneBroadcastAfterRemove, DispatcherInv, TypeOK, Exists,
       RecordDispatchFails, GoOn, tableVars, history
  <2> QED
    BY <2>1, <2>2, <2>3, <2>4 DEF SafeParts
<1> QED
  BY <1>1, <1>2, <1>3, <1>4, <1>5, <1>6 DEF Loop

LEMMA RequestKeepsSafeParts ==
    ASSUME DispatcherInv, NEW d \in Definitions, Request(d)
    PROVE  SafeParts'
<1> USE DispatcherAssumption DEF DispatcherInv
<1>1. CASE Create(d)
  <2>0. PICK row \in Rows :
          /\ rows' = [rows EXCEPT ![d] = row]
          /\ row # NoRow
          /\ request' = [request EXCEPT ![d] =
                IF row.interval = 0 THEN "inserted" ELSE "ok"]
          /\ row.interval \in Nat
    <3>1. PICK interval \in Intervals, dispatched \in BOOLEAN :
            /\ rows' = [rows EXCEPT ![d] =
                  [interval |-> interval, dispatched |-> dispatched,
                   left |-> interval + 1]]
            /\ request' = [request EXCEPT ![d] =
                  IF interval = 0 THEN "inserted" ELSE "ok"]
      BY <1>1 DEF Create
    <3> DEFINE row == [interval |-> interval, dispatched |-> dispatched,
                       left |-> interval + 1]
    <3>2. row \in Rows /\ row.interval = interval
      BY DEF Rows
    <3> HIDE DEF row
    <3> QED
      BY <3>1, <3>2, NoRowAssumption DEF row
  <2>1. RowsAreMadeOnce'
    BY <1>1, <2>0 DEF RowsAreMadeOnce, LoopIsPeriodic, InLoop, DispatcherInv,
       TypeOK, Exists, Create, loopVars, history
  <2>2. LoopIsPeriodic'
    BY <1>1, <2>0 DEF RowsAreMadeOnce, LoopIsPeriodic, InLoop, DispatcherInv,
       TypeOK, Exists, Create, loopVars, history
  <2>3. OneOffInv'
    BY <1>1, <2>0 DEF RowsAreMadeOnce, LoopIsPeriodic, InLoop, OneOffInv,
       OneOffIsSentOnce, DispatcherInv, TypeOK, Exists, Create, loopVars,
       history
  <2>4. LateInv'
    BY <1>1, <2>0 DEF RowsAreMadeOnce, LoopIsPeriodic, InLoop, LateInv,
       AtMostOneBroadcastAfterRemove, DispatcherInv, TypeOK, Exists, Create,
       loopVars, history
  <2> QED
    BY <2>1, <2>2, <2>3, <2>4 DEF SafeParts
<1>2. CASE CreateDispatches(d)
  <2>1. RowsAreMadeOnce'
    BY <1>2 DEF RowsAreMadeOnce, LoopIsPeriodic, InLoop, DispatcherInv, TypeOK,
       Exists, CreateDispatches, Broadcast, tableVars, loopVars
  <2>2. LoopIsPeriodic'
    BY <1>2 DEF RowsAreMadeOnce, LoopIsPeriodic, InLoop, DispatcherInv, TypeOK,
       Exists, CreateDispatches, Broadcast, tableVars, loopVars
  <2>3. OneOffInv'
    BY <1>2 DEF RowsAreMadeOnce, LoopIsPeriodic, InLoop, OneOffInv,
       OneOffIsSentOnce, DispatcherInv, TypeOK, Exists, CreateDispatches,
       Broadcast, tableVars, loopVars
  <2>4. LateInv'
    BY <1>2 DEF RowsAreMadeOnce, LoopIsPeriodic, InLoop, LateInv,
       AtMostOneBroadcastAfterRemove, DispatcherInv, TypeOK, Exists,
       CreateDispatches, Broadcast, tableVars, loopVars
  <2> QED
    BY <2>1, <2>2, <2>3, <2>4 DEF SafeParts
<1>3. CASE CreateRecords(d)
  <2>0. \A e \in Definitions :
              /\ Exists(e)' <=> Exists(e)
              /\ Exists(e) => rows'[e].interval = rows[e].interval
    BY <1>3, RecordRow DEF CreateRecords
  <2>1. RowsAreMadeOnce'
    BY <1>3, <2>0 DEF RowsAreMadeOnce, LoopIsPeriodic, InLoop, DispatcherInv,
       TypeOK, CreateRecords, loopVars, history
  <2>2. LoopIsPeriodic'
    BY <1>3, <2>0 DEF RowsAreMadeOnce, LoopIsPeriodic, InLoop, DispatcherInv,
       TypeOK, CreateRecords, loopVars, history
  <2>3. OneOffInv'
    BY <1>3, <2>0 DEF RowsAreMadeOnce, LoopIsPeriodic, InLoop, OneOffInv,
       OneOffIsSentOnce, DispatcherInv, TypeOK, CreateRecords, loopVars,
       history
  <2>4. LateInv'
    BY <1>3, <2>0 DEF RowsAreMadeOnce, LoopIsPeriodic, InLoop, LateInv,
       AtMostOneBroadcastAfterRemove, DispatcherInv, TypeOK, CreateRecords,
       loopVars, history
  <2> QED
    BY <2>1, <2>2, <2>3, <2>4 DEF SafeParts
<1>4. CASE CreateSkipsTask(d) \/ CreateFails(d)
  <2>1. RowsAreMadeOnce'
    BY <1>4 DEF RowsAreMadeOnce, LoopIsPeriodic, InLoop, DispatcherInv, TypeOK,
       Exists, CreateSkipsTask, CreateFails, tableVars, loopVars,
       history
  <2>2. LoopIsPeriodic'
    BY <1>4 DEF RowsAreMadeOnce, LoopIsPeriodic, InLoop, DispatcherInv, TypeOK,
       Exists, CreateSkipsTask, CreateFails, tableVars, loopVars,
       history
  <2>3. OneOffInv'
    BY <1>4 DEF RowsAreMadeOnce, LoopIsPeriodic, InLoop, OneOffInv,
       OneOffIsSentOnce, DispatcherInv, TypeOK, Exists, CreateSkipsTask,
       CreateFails, tableVars, loopVars, history
  <2>4. LateInv'
    BY <1>4 DEF RowsAreMadeOnce, LoopIsPeriodic, InLoop, LateInv,
       AtMostOneBroadcastAfterRemove, DispatcherInv, TypeOK, Exists,
       CreateSkipsTask, CreateFails, tableVars, loopVars, history
  <2> QED
    BY <2>1, <2>2, <2>3, <2>4 DEF SafeParts
<1>5. CASE Remove(d)
  <2>1. RowsAreMadeOnce'
    BY <1>5 DEF RowsAreMadeOnce, LoopIsPeriodic, InLoop, DispatcherInv, TypeOK,
       Exists, Remove, loopVars, history
  <2>2. LoopIsPeriodic'
    BY <1>5 DEF RowsAreMadeOnce, LoopIsPeriodic, InLoop, DispatcherInv, TypeOK,
       Exists, Remove, loopVars, history
  <2>3. OneOffInv'
    BY <1>5 DEF RowsAreMadeOnce, LoopIsPeriodic, InLoop, OneOffInv,
       OneOffIsSentOnce, DispatcherInv, TypeOK, Exists, Remove, loopVars,
       history
  <2>4. LateInv'
    BY <1>5 DEF RowsAreMadeOnce, LoopIsPeriodic, InLoop, LateInv,
       AtMostOneBroadcastAfterRemove, DispatcherInv, TypeOK, Exists, Remove,
       loopVars, history
  <2> QED
    BY <2>1, <2>2, <2>3, <2>4 DEF SafeParts
<1> QED
  BY <1>1, <1>2, <1>3, <1>4, <1>5 DEF Request

(* The inductive invariant.                                                *)
LEMMA NextKeepsDispatcherInv ==
    DispatcherInv /\ [Next]_vars => DispatcherInv'
<1> SUFFICES ASSUME DispatcherInv, [Next]_vars PROVE DispatcherInv'
  OBVIOUS
<1>1. TypeOK'
  BY NextKeepsTypes DEF DispatcherInv
<1>2. CASE Tick
  <2>0. \A e \in Definitions :
              /\ Exists(e)' <=> Exists(e)
              /\ Exists(e) => rows'[e].interval = rows[e].interval
    BY <1>2, TickRows DEF DispatcherInv
  <2>1. RowsAreMadeOnce'
    BY <1>2, <2>0 DEF RowsAreMadeOnce, LoopIsPeriodic, InLoop, DispatcherInv,
       TypeOK, Tick
  <2>2. LoopIsPeriodic'
    BY <1>2, <2>0 DEF RowsAreMadeOnce, LoopIsPeriodic, InLoop, DispatcherInv,
       TypeOK, Tick
  <2>3. OneOffInv'
    BY <1>2, <2>0 DEF RowsAreMadeOnce, LoopIsPeriodic, InLoop, OneOffInv,
       OneOffIsSentOnce, DispatcherInv, TypeOK, Tick
  <2>4. LateInv'
    BY <1>2, <2>0 DEF RowsAreMadeOnce, LoopIsPeriodic, InLoop, LateInv,
       AtMostOneBroadcastAfterRemove, DispatcherInv, TypeOK, Tick
  <2> QED
    BY <2>1, <2>2, <2>3, <2>4, <1>1 DEF DispatcherInv
<1>3. CASE Loop
  BY <1>1, <1>3, LoopKeepsSafeParts DEF DispatcherInv, SafeParts
<1>4. ASSUME NEW d \in Definitions, Request(d)
      PROVE  DispatcherInv'
  BY <1>1, <1>4, RequestKeepsSafeParts DEF DispatcherInv, SafeParts
<1>5. CASE Crash
  <2>1. RowsAreMadeOnce'
    BY <1>5, DispatcherAssumption DEF RowsAreMadeOnce, LoopIsPeriodic, InLoop,
       DispatcherInv, TypeOK, Exists, Crash, tableVars, history
  <2>2. LoopIsPeriodic'
    BY <1>5, DispatcherAssumption DEF RowsAreMadeOnce, LoopIsPeriodic, InLoop,
       DispatcherInv, TypeOK, Exists, Crash, tableVars, history
  <2>3. OneOffInv'
    BY <1>5, DispatcherAssumption DEF RowsAreMadeOnce, LoopIsPeriodic, InLoop,
       OneOffInv, OneOffIsSentOnce, DispatcherInv, TypeOK, Exists, Crash,
       tableVars, history
  <2>4. LateInv'
    BY <1>5, DispatcherAssumption DEF RowsAreMadeOnce, LoopIsPeriodic, InLoop,
       LateInv, AtMostOneBroadcastAfterRemove, DispatcherInv, TypeOK, Exists,
       Crash, tableVars, history
  <2> QED
    BY <2>1, <2>2, <2>3, <2>4, <1>1 DEF DispatcherInv
<1>6. CASE UNCHANGED vars
  <2>1. RowsAreMadeOnce'
    BY <1>6 DEF RowsAreMadeOnce, LoopIsPeriodic, InLoop, DispatcherInv, TypeOK,
       Exists, vars
  <2>2. LoopIsPeriodic'
    BY <1>6 DEF RowsAreMadeOnce, LoopIsPeriodic, InLoop, DispatcherInv, TypeOK,
       Exists, vars
  <2>3. OneOffInv'
    BY <1>6 DEF RowsAreMadeOnce, LoopIsPeriodic, InLoop, OneOffInv,
       OneOffIsSentOnce, DispatcherInv, TypeOK, Exists, vars
  <2>4. LateInv'
    BY <1>6 DEF RowsAreMadeOnce, LoopIsPeriodic, InLoop, LateInv,
       AtMostOneBroadcastAfterRemove, DispatcherInv, TypeOK, Exists, vars
  <2> QED
    BY <2>1, <2>2, <2>3, <2>4, <1>1 DEF DispatcherInv
<1> QED
  BY <1>2, <1>3, <1>4, <1>5, <1>6 DEF Next

-----------------------------------------------------------------------------
(* While nothing fails, a definition is due only when its interval is over *)
(* since the last broadcast.                                               *)
LEMMA LoopKeepsSpaced ==
    ASSUME DispatcherInv, Spaced, Loop, faults' = 0
    PROVE  Spaced'
<1> USE DispatcherAssumption DEF DispatcherInv
<1>0. faults = 0
  <2>1. CASE PollFails
    BY <2>1 DEF PollFails, Fault, TypeOK
  <2>2. ASSUME NEW d \in Definitions, SkipTask(d)
        PROVE  faults = 0
    BY <2>2 DEF SkipTask
  <2>3. CASE RecordDispatchFails
    BY <2>3 DEF RecordDispatchFails, Fault, TypeOK
  <2> QED
    BY <2>1, <2>2, <2>3 DEF Loop, PollDefinitions, DispatchTask,
       RecordDispatch
<1>1. CASE PollDefinitions
  <2>1. ASSUME NEW d \in Definitions, Periodic(d), sent[d] > 0,
               recording # d, d \in snapshot'
        PROVE  since[d] > rows[d].interval
    <3>1. rows[d].dispatched /\ since[d] + rows[d].left > rows[d].interval
      BY <1>0, <2>1 DEF Spaced
    <3>2. rows[d].left = 0
      BY <1>1, <2>1, <3>1 DEF PollDefinitions, Due
    <3> QED
      BY <3>1, <3>2, LongestIsLongest DEF TypeOK
  <2> QED
    BY <1>0, <1>1, <2>1 DEF PollDefinitions, Spaced, Periodic, Exists,
       tableVars, history
<1>2. ASSUME NEW d \in Definitions, DispatchTask(d)
      PROVE  Spaced'
  BY <1>0, <1>2 DEF DispatchTask, Broadcast, Spaced, Periodic, Exists, TypeOK,
     tableVars
<1>3. CASE RecordDispatch
  <2>1. /\ recording \in Definitions
        /\ Record(recording)
    BY <1>3 DEF RecordDispatch, TypeOK
  <2>2. ASSUME NEW d \in Definitions, Periodic(d)', sent[d] > 0
        PROVE  /\ rows'[d].dispatched
               /\ since[d] + rows'[d].left > rows'[d].interval
               /\ d \in snapshot' => since[d] > rows'[d].interval
    <3>1. Exists(d)
      BY <2>1, <2>2, RecordRow DEF Periodic
    <3>2. CASE d = recording
      <4>1. /\ rows'[d] \in Rows
            /\ rows'[d].dispatched = TRUE
            /\ rows'[d].left > rows[d].interval
            /\ rows'[d].interval = rows[d].interval
        BY <2>1, <2>2, <3>1, <3>2, RecordRow DEF Periodic, Exists
      <4>2. rows[d] \in Rows /\ since[d] \in Nat
        BY <3>1, LongestIsLongest DEF TypeOK, Exists
      <4> QED
        BY <1>3, <3>2, <4>1, <4>2, RowFields DEF RecordDispatch, GoOn
    <3>3. CASE d # recording
      BY <1>0, <1>3, <2>1, <2>2, <3>1, <3>3, RecordRow
         DEF RecordDispatch, GoOn, Spaced, Periodic, Exists
    <3> QED
      BY <3>2, <3>3
  <2> QED
    BY <1>3, <2>2 DEF RecordDispatch, Spaced, history
<1>4. ASSUME NEW d \in Definitions, SkipTask(d)
      PROVE  Spaced'
  BY <1>0, <1>4 DEF SkipTask, GoOn, Spaced, Periodic, Exists, tableVars,
     history
<1> QED
  BY <1>0, <1>1, <1>2, <1>3, <1>4
     DEF Loop, PollFails, RecordDispatchFails, Fault, TypeOK

LEMMA NextKeepsSpaced ==
    ASSUME DispatcherInv, Spaced, [Next]_vars
    PROVE  Spaced'
<1> USE DispatcherAssumption DEF DispatcherInv
<1>1. SUFFICES ASSUME faults' = 0
               PROVE  Spaced'
  BY DEF Spaced
<1>2. CASE Tick
  <2>1. faults = 0
    BY <1>1, <1>2 DEF Tick
  <2>2. ASSUME NEW d \in Definitions, Periodic(d)', sent[d] > 0,
               recording # d
        PROVE  /\ rows'[d].dispatched
               /\ since'[d] + rows'[d].left > rows'[d].interval
               /\ d \in snapshot => since'[d] > rows'[d].interval
    <3>1. /\ Periodic(d)
          /\ rows[d] \in Rows
          /\ rows'[d].interval = rows[d].interval
          /\ rows'[d].dispatched = rows[d].dispatched
          /\ rows'[d].left = Minus1(rows[d].left)
      BY <1>2, <2>2, TickRows DEF Periodic, Exists, TypeOK
    <3>2. /\ rows[d].dispatched
          /\ since[d] + rows[d].left > rows[d].interval
          /\ d \in snapshot => since[d] > rows[d].interval
      BY <2>1, <2>2, <3>1 DEF Spaced
    <3>3. /\ rows[d].interval \in Nat /\ rows[d].interval <= Longest
          /\ rows[d].left \in Nat
          /\ since[d] \in Nat /\ Longest \in Nat
      <4>1. rows[d].interval \in Intervals
        BY <3>1 DEF Rows
      <4> QED
        BY <3>1, <4>1, RowFields, LongestIsLongest DEF TypeOK
    <3>4. since'[d] = IF since[d] > Longest THEN since[d] ELSE since[d] + 1
      BY <1>2 DEF Tick
    <3> QED
      BY <3>1, <3>2, <3>3, <3>4 DEF Minus1
  <2> QED
    BY <1>2, <2>2 DEF Tick, Spaced
<1>3. CASE Loop
  BY <1>1, <1>3, LoopKeepsSpaced
<1>4. ASSUME NEW d \in Definitions, Request(d)
      PROVE  Spaced'
  <2>1. CASE Create(d)
    <3>1. sent'[d] = 0
      BY <2>1 DEF Create, history, RowsAreMadeOnce
    <3>2. \A e \in Definitions : e # d => rows'[e] = rows[e]
      BY <2>1 DEF Create, TypeOK
    <3> QED
      BY <2>1, <3>1, <3>2
         DEF Create, Spaced, Periodic, Exists, loopVars, history
  <2>2. CASE CreateDispatches(d)
    <3>1. ~Periodic(d)
      BY <2>2 DEF CreateDispatches, LoopIsPeriodic, Periodic
    <3> QED
      BY <2>2, <3>1 DEF CreateDispatches, Broadcast, Spaced, Periodic, Exists,
         TypeOK, tableVars, loopVars
  <2>3. CASE CreateRecords(d)
    <3>1. ~Periodic(d)
      BY <2>3 DEF CreateRecords, LoopIsPeriodic, Periodic
    <3>2. \A e \in Definitions :
            /\ Periodic(e)' => Periodic(e) /\ e # d
            /\ e # d => rows'[e] = rows[e]
      BY <2>3, <3>1, RecordRow DEF CreateRecords, Periodic
    <3> QED
      BY <2>3, <3>2 DEF CreateRecords, Spaced, loopVars, history
  <2>4. CASE CreateFails(d)
    BY <1>1, <2>4 DEF CreateFails, Fault, TypeOK
  <2>5. CASE CreateSkipsTask(d)
    BY <2>5 DEF CreateSkipsTask, Spaced, Periodic, Exists, tableVars,
       loopVars, history
  <2>6. CASE Remove(d)
    BY <2>6 DEF Remove, Spaced, Periodic, Exists, TypeOK, loopVars, history
  <2> QED
    BY <1>4, <2>1, <2>2, <2>3, <2>4, <2>5, <2>6 DEF Request
<1>5. CASE Crash
  BY <1>1, <1>5 DEF Crash, Fault, TypeOK
<1>6. CASE UNCHANGED vars
  BY <1>6 DEF vars, Spaced, Periodic, Exists
<1> QED
  BY <1>2, <1>3, <1>4, <1>5, <1>6 DEF Next

-----------------------------------------------------------------------------
(* Nothing is in the table, and nothing in hand, at first.                 *)
LEMMA InitDispatcher == Init => DispatcherInv /\ Spaced
<1> SUFFICES ASSUME Init PROVE DispatcherInv /\ Spaced
  OBVIOUS
<1>1. TypeOK
  BY DispatcherAssumption, LongestIsLongest DEF Init, TypeOK
<1>2. RowsAreMadeOnce /\ LoopIsPeriodic /\ Spaced
  BY DispatcherAssumption DEF Init, RowsAreMadeOnce, LoopIsPeriodic, Spaced,
     InLoop, Periodic, Exists
<1>3. OneOffInv /\ LateInv
  BY DEF Init, OneOffInv, OneOffIsSentOnce, LateInv,
     AtMostOneBroadcastAfterRemove, Exists
<1> QED
  BY <1>1, <1>2, <1>3 DEF DispatcherInv

(* The invariant of the table, the loop and the requests holds throughout. *)
THEOREM DispatcherCorrect == Spec => [](DispatcherInv /\ Spaced)
<1> QED
  BY InitDispatcher, NextKeepsDispatcherInv, NextKeepsSpaced, PTL DEF Spec

(* Every step leaves each variable of Dispatcher in its type.              *)
THEOREM DispatcherTypeCorrect == Spec => []TypeOK
<1>1. DispatcherInv => TypeOK
  BY DEF DispatcherInv
<1> QED
  BY <1>1, DispatcherCorrect, PTL

(* No failure, crash or poll makes the dispatcher send a definition        *)
(* without an interval twice.                                              *)
THEOREM OneOffIsSentOnceAlways == Spec => []OneOffIsSentOnce
<1>1. DispatcherInv => OneOffIsSentOnce
  BY DEF DispatcherInv, OneOffInv
<1> QED
  BY <1>1, DispatcherCorrect, PTL

(* One broadcast at most follows a Remove, whatever was on its way.        *)
THEOREM AtMostOneBroadcastAfterRemoveAlways ==
    Spec => []AtMostOneBroadcastAfterRemove
<1>1. DispatcherInv => AtMostOneBroadcastAfterRemove
  BY DEF DispatcherInv, LateInv
<1> QED
  BY <1>1, DispatcherCorrect, PTL

(* While nothing fails, broadcasts of one definition are further apart     *)
(* than its interval.                                                      *)
THEOREM NeverTooSoonAlways == Spec => NeverTooSoon
<1> DEFINE TooSoon(d) ==
      /\ recording' = d /\ recording # d
      /\ faults = 0 /\ sent[d] > 0 /\ Exists(d)
      /\ ~(since[d] > rows[d].interval)
<1>1. ASSUME DispatcherInv, Spaced, [Next]_vars,
             NEW d \in Definitions, TooSoon(d)
      PROVE  FALSE
  <2>1. d \in snapshot
    BY <1>1, DispatcherAssumption DEF Next, Loop, Tick, PollDefinitions,
       PollFails, DispatchTask, SkipTask, RecordDispatch,
       RecordDispatchFails, Request, Create, CreateDispatches,
       CreateRecords, CreateSkipsTask, CreateFails, Remove, Crash, loopVars,
       vars
  <2>2. Periodic(d)
    BY <1>1, <2>1 DEF DispatcherInv, LoopIsPeriodic, InLoop, Periodic
  <2> QED
    BY <1>1, <2>1, <2>2 DEF Spaced
<1>2. DispatcherInv /\ Spaced /\ [Next]_vars =>
        [\A d \in Definitions : ~TooSoon(d)]_vars
  BY <1>1
<1>3. Spec => [][\A d \in Definitions : ~TooSoon(d)]_vars
  BY <1>2, DispatcherCorrect, PTL DEF Spec
<1>4. (\A d \in Definitions : ~TooSoon(d)) <=>
        \A d \in Definitions :
          /\ recording' = d /\ recording # d
          /\ faults = 0 /\ sent[d] > 0 /\ Exists(d)
          => since[d] > rows[d].interval
  OBVIOUS
<1> QED
  BY <1>3, <1>4, PTL DEF NeverTooSoon
=============================================================================
