------------------------------ MODULE RpcProofs ------------------------------
(***************************************************************************)
(* For any number of tasks and reads of port.txt: a task is validated by   *)
(* its own server, leaves no directory behind, and publishes no answer     *)
(* that came when its time was over (module Rpc).                          *)
(***************************************************************************)
EXTENDS Rpc, TLAPS

(* Directories: that of a task is its own or the auditor's, and exists     *)
(* only if it was made for it; no server runs before it is started.        *)
DirsAreTheirs ==
    \A t \in Tasks :
        /\ dir[t] \in {t, Here}
        /\ t \in present => dir[t] = t
        /\ pc[t] \in {"won", "starting"} => server[t] = "none"

DirectoryInv == DirsAreTheirs /\ DirsAreRemoved

(* Ports: only the server of t writes one into the directory of t, and it  *)
(* is known only once port.txt was read.                                   *)
ServersWriteOwnFiles ==
    \A t \in Tasks : portFile[t] \in {NoFile, NoPort, t}

NoPortYet ==
    \A t \in Tasks :
        pc[t] \in {"won", "starting", "polling"} => port[t] = NoPort

PortInv == ServersWriteOwnFiles /\ NoPortYet /\ OwnServer

(* Answers: a call that is under way is waited for, and a context that is  *)
(* done stays so until the goroutine ends.                                 *)
CallsAreAwaited == \A t \in Tasks : call[t] = "sent" => pc[t] = "calling"

LateIsDone == \A t \in late : ctx[t] = "done"

LateInv == CallsAreAwaited /\ LateIsDone /\ LateAnswerIsDropped

RpcInv == TypeOK /\ DirectoryInv /\ PortInv /\ LateInv

(* Nothing is started, and no directory made, at first.                    *)
LEMMA InitRpc == Init => RpcInv
<1> SUFFICES ASSUME Init PROVE RpcInv
  OBVIOUS
<1>1. TypeOK
  BY RpcAssumption DEF Init, TypeOK, Dirs, Ended, Alive
<1>2. DirectoryInv
  BY DEF Init, DirectoryInv, DirsAreTheirs, DirsAreRemoved, Ended
<1>3. PortInv
  BY DEF Init, PortInv, ServersWriteOwnFiles, NoPortYet, OwnServer, Dirs
<1>4. LateInv
  BY DEF Init, LateInv, CallsAreAwaited, LateIsDone, LateAnswerIsDropped
<1> QED
  BY <1>1, <1>2, <1>3, <1>4 DEF RpcInv

-----------------------------------------------------------------------------
\* The ways out of CallServer that have nothing to kill: the goroutine ends,
\* and its directory is removed.
GiveUp(t) ==
    /\ EndTask(t, "failed")
    /\ RemoveDir(t)
    /\ done' \in [Tasks -> {"open", "full", "closed"}]
    /\ UNCHANGED <<up, dir, watcher, server>>

(* A directory that is made is the task's own.                             *)
LEMMA MakeDirStep ==
    ASSUME RpcInv, NEW t \in Tasks, MakeDir(t)
    PROVE  RpcInv'
<1>1. TypeOK'
  BY DEF RpcInv, TypeOK, Dirs, Ended, Alive, MakeDir, At, GoTo, locals,
     channel, files
<1>2. DirectoryInv'
  BY DEF RpcInv, TypeOK, DirectoryInv, DirsAreTheirs, DirsAreRemoved,
     MakeDir, At, GoTo, locals, channel, files, Ended
<1>3. PortInv'
  BY DEF RpcInv, TypeOK, PortInv, ServersWriteOwnFiles, NoPortYet, OwnServer,
     MakeDir, At, GoTo, locals, channel, files
<1>4. LateInv'
  BY DEF RpcInv, TypeOK, LateInv, CallsAreAwaited, LateIsDone,
     LateAnswerIsDropped, MakeDir, At, GoTo, locals, channel, files
<1> QED
  BY <1>1, <1>2, <1>3, <1>4 DEF RpcInv

(* A server is started in a directory that stays its own.                  *)
LEMMA StartServerStep ==
    ASSUME RpcInv, NEW t \in Tasks, StartServer(t)
    PROVE  RpcInv'
<1>1. TypeOK'
  BY RpcAssumption DEF RpcInv, TypeOK, Dirs, Ended, Alive, StartServer, At,
     GoTo, EndTask, locals, channel, files
<1>2. DirectoryInv'
  BY DEF RpcInv, TypeOK, DirectoryInv, DirsAreTheirs, DirsAreRemoved,
     StartServer, At, GoTo, EndTask, locals, channel, files, Ended
<1>3. PortInv'
  BY DEF RpcInv, TypeOK, PortInv, ServersWriteOwnFiles, NoPortYet, OwnServer,
     StartServer, At, GoTo, EndTask, locals, channel, files, Ended
<1>4. LateInv'
  BY DEF RpcInv, TypeOK, LateInv, CallsAreAwaited, LateIsDone,
     LateAnswerIsDropped, StartServer, At, GoTo, EndTask, locals, channel,
     files, Ended
<1> QED
  BY <1>1, <1>2, <1>3, <1>4 DEF RpcInv

(* Giving up leaves no directory, and nothing of an answer.                *)
LEMMA GiveUpStep ==
    ASSUME RpcInv, NEW t \in Tasks, GiveUp(t)
    PROVE  RpcInv'
<1>1. TypeOK'
  BY RpcAssumption DEF RpcInv, TypeOK, Dirs, Ended, Alive, GiveUp, GoTo,
     EndTask, RemoveDir, locals, channel, files
<1>2. DirectoryInv'
  BY DEF RpcInv, TypeOK, DirectoryInv, DirsAreTheirs, DirsAreRemoved, GiveUp,
     GoTo, EndTask, RemoveDir, locals, channel, files, Ended
<1>3. PortInv'
  BY DEF RpcInv, TypeOK, PortInv, ServersWriteOwnFiles, NoPortYet, OwnServer,
     GiveUp, GoTo, EndTask, RemoveDir, locals, channel, files, Ended
<1>4. LateInv'
  BY DEF RpcInv, TypeOK, LateInv, CallsAreAwaited, LateIsDone,
     LateAnswerIsDropped, GiveUp, GoTo, EndTask, RemoveDir, locals, channel,
     files, Ended
<1> QED
  BY <1>1, <1>2, <1>3, <1>4 DEF RpcInv

(* The last read gives up; another one only counts.                        *)
LEMMA ReadNoFileStep ==
    ASSUME RpcInv, NEW t \in Tasks, ReadNoFile(t)
    PROVE  RpcInv'
<1>1. CASE reads[t] + 1 >= RetryMax
  BY <1>1, GiveUpStep DEF RpcInv, TypeOK, GiveUp, ReadNoFile, channel
<1>2. CASE ~(reads[t] + 1 >= RetryMax)
  <2>1. /\ reads' = [reads EXCEPT ![t] = @ + 1]
        /\ UNCHANGED <<up, pc, ctx, dir, port, call, late, done, watcher,
                       server, present, portFile>>
    BY <1>2 DEF ReadNoFile, channel, files
  <2>2. TypeOK'
    BY <1>2, <2>1, RpcAssumption DEF RpcInv, TypeOK
  <2> QED
    BY <2>1, <2>2 DEF RpcInv, DirectoryInv, DirsAreTheirs, DirsAreRemoved,
       PortInv, ServersWriteOwnFiles, NoPortYet, OwnServer, LateInv,
       CallsAreAwaited, LateIsDone, LateAnswerIsDropped
<1> QED
  BY <1>1, <1>2

(* An empty port.txt is a reason to give up.                               *)
LEMMA ReadEmptyFileStep ==
    ASSUME RpcInv, NEW t \in Tasks, ReadEmptyFile(t)
    PROVE  RpcInv'
BY GiveUpStep DEF RpcInv, TypeOK, GiveUp, ReadEmptyFile, channel

(* A port read from a directory of its own is that of its own server.      *)
LEMMA ReadPortStep ==
    ASSUME RpcInv, NEW t \in Tasks, ReadPort(t)
    PROVE  RpcInv'
<1>1. TypeOK'
  BY DEF RpcInv, TypeOK, Dirs, Ended, Alive, ReadPort, At, GoTo, locals,
     channel, files
<1>2. DirectoryInv'
  BY DEF RpcInv, TypeOK, DirectoryInv, DirsAreTheirs, DirsAreRemoved,
     ReadPort, At, GoTo, locals, channel, files, Ended
<1>3. PortInv'
  BY RpcAssumption DEF RpcInv, TypeOK, PortInv, ServersWriteOwnFiles,
     NoPortYet, OwnServer, ReadPort, At, GoTo, locals, channel, files
<1>4. LateInv'
  BY DEF RpcInv, TypeOK, LateInv, CallsAreAwaited, LateIsDone,
     LateAnswerIsDropped, ReadPort, At, GoTo, locals, channel, files
<1> QED
  BY <1>1, <1>2, <1>3, <1>4 DEF RpcInv

(* Connecting starts a call that the goroutine waits for.                  *)
LEMMA ConnectStep ==
    ASSUME RpcInv, NEW t \in Tasks, Connect(t)
    PROVE  RpcInv'
<1>1. TypeOK'
  BY DEF RpcInv, TypeOK, Dirs, Ended, Alive, Connect, At, GoTo, locals,
     channel, files
<1>2. DirectoryInv'
  BY DEF RpcInv, TypeOK, DirectoryInv, DirsAreTheirs, DirsAreRemoved,
     Connect, At, GoTo, locals, channel, files, Ended
<1>3. PortInv'
  BY DEF RpcInv, TypeOK, PortInv, ServersWriteOwnFiles, NoPortYet, OwnServer,
     Connect, At, GoTo, locals, channel, files
<1>4. LateInv'
  BY DEF RpcInv, TypeOK, LateInv, CallsAreAwaited, LateIsDone,
     LateAnswerIsDropped, Connect, At, GoTo, locals, channel, files
<1> QED
  BY <1>1, <1>2, <1>3, <1>4 DEF RpcInv

(* A server that is gone is a reason to give up.                           *)
LEMMA CannotConnectStep ==
    ASSUME RpcInv, NEW t \in Tasks, CannotConnect(t)
    PROVE  RpcInv'
BY GiveUpStep DEF RpcInv, TypeOK, GiveUp, CannotConnect, channel

(* A call that fails is a reason to give up.                               *)
LEMMA CallFailsStep ==
    ASSUME RpcInv, NEW t \in Tasks, CallFails(t)
    PROVE  RpcInv'
BY GiveUpStep DEF RpcInv, TypeOK, GiveUp, CallFails, channel

(* A watcher that has sent is a reason to give up; else the answer is kept. *)
LEMMA CallReturnsStep ==
    ASSUME RpcInv, NEW t \in Tasks, CallReturns(t)
    PROVE  RpcInv'
<1>1. CASE done[t] = "full"
  BY <1>1, GiveUpStep DEF RpcInv, TypeOK, GiveUp, CallReturns
<1>2. CASE done[t] # "full"
  <2>1. /\ call[t] = "result"
        /\ done' = [done EXCEPT ![t] = "closed"]
        /\ pc' = [pc EXCEPT ![t] = "killing"]
        /\ UNCHANGED <<up, ctx, dir, reads, port, call, late, watcher, server,
                       present, portFile>>
    BY <1>2 DEF CallReturns, GoTo, locals, files
  <2>2. TypeOK'
    BY <2>1 DEF RpcInv, TypeOK
  <2>3. DirectoryInv'
    BY <2>1 DEF RpcInv, TypeOK, DirectoryInv, DirsAreTheirs, DirsAreRemoved,
       Ended
  <2>4. PortInv'
    BY <2>1 DEF RpcInv, TypeOK, PortInv, ServersWriteOwnFiles, NoPortYet,
       OwnServer
  <2>5. LateInv'
    BY <2>1 DEF RpcInv, TypeOK, LateInv, CallsAreAwaited, LateIsDone,
       LateAnswerIsDropped
  <2> QED
    BY <2>2, <2>3, <2>4, <2>5 DEF RpcInv
<1> QED
  BY <1>1, <1>2

(* An answer is kept only while the context is live, and no directory.     *)
LEMMA KillServerStep ==
    ASSUME RpcInv, NEW t \in Tasks, KillServer(t)
    PROVE  RpcInv'
<1>1. TypeOK'
  BY RpcAssumption DEF RpcInv, TypeOK, Dirs, Ended, Alive, KillServer, At,
     GoTo, EndTask, RemoveDir, locals, channel, files
<1>2. DirectoryInv'
  BY DEF RpcInv, TypeOK, DirectoryInv, DirsAreTheirs, DirsAreRemoved,
     KillServer, At, GoTo, EndTask, RemoveDir, locals, channel, files, Ended
<1>3. PortInv'
  BY DEF RpcInv, TypeOK, PortInv, ServersWriteOwnFiles, NoPortYet, OwnServer,
     KillServer, At, GoTo, EndTask, RemoveDir, locals, channel, files, Ended
<1>4. LateInv'
  BY DEF RpcInv, TypeOK, LateInv, CallsAreAwaited, LateIsDone,
     LateAnswerIsDropped, KillServer, At, GoTo, EndTask, RemoveDir, locals,
     channel, files, Ended
<1> QED
  BY <1>1, <1>2, <1>3, <1>4 DEF RpcInv

(* Publishing is the end of the goroutine, on time or not.                 *)
LEMMA PublishResultStep ==
    ASSUME RpcInv, NEW t \in Tasks, PublishResult(t)
    PROVE  RpcInv'
<1>1. TypeOK'
  BY RpcAssumption DEF RpcInv, TypeOK, Dirs, Ended, Alive, PublishResult, At,
     GoTo, EndTask, locals, channel, files
<1>2. DirectoryInv'
  BY DEF RpcInv, TypeOK, DirectoryInv, DirsAreTheirs, DirsAreRemoved,
     PublishResult, At, GoTo, EndTask, locals, channel, files, Ended
<1>3. PortInv'
  BY DEF RpcInv, TypeOK, PortInv, ServersWriteOwnFiles, NoPortYet, OwnServer,
     PublishResult, At, GoTo, EndTask, locals, channel, files, Ended
<1>4. LateInv'
  BY DEF RpcInv, TypeOK, LateInv, CallsAreAwaited, LateIsDone,
     LateAnswerIsDropped, PublishResult, At, GoTo, EndTask, locals, channel,
     files, Ended
<1> QED
  BY <1>1, <1>2, <1>3, <1>4 DEF RpcInv

(* A timeout touches no directory, port or answer.                         *)
LEMMA ExpireStep ==
    ASSUME RpcInv, NEW t \in Tasks, Expire(t)
    PROVE  RpcInv'
<1>1. TypeOK'
  BY DEF RpcInv, TypeOK, Dirs, Ended, Alive, Expire, locals, channel, files
<1>2. LateInv'
  BY DEF RpcInv, TypeOK, LateInv, CallsAreAwaited, LateIsDone,
     LateAnswerIsDropped, Expire, locals, channel, files
<1>3. DirectoryInv' /\ PortInv'
  BY DEF RpcInv, TypeOK, DirectoryInv, DirsAreTheirs, DirsAreRemoved,
     PortInv, ServersWriteOwnFiles, NoPortYet, OwnServer, Expire, locals,
     channel, files, Ended
<1> QED
  BY <1>1, <1>2, <1>3 DEF RpcInv

(* The watcher touches no directory, port or answer when it wakes.         *)
LEMMA WatcherWakesStep ==
    ASSUME RpcInv, NEW t \in Tasks, WatcherWakes(t)
    PROVE  RpcInv'
<1>1. TypeOK'
  BY DEF RpcInv, TypeOK, Dirs, Ended, Alive, WatcherWakes, locals, channel,
     files
<1>2. DirectoryInv' /\ PortInv' /\ LateInv'
  BY DEF RpcInv, TypeOK, DirectoryInv, DirsAreTheirs, DirsAreRemoved,
     PortInv, ServersWriteOwnFiles, NoPortYet, OwnServer, LateInv,
     CallsAreAwaited, LateIsDone, LateAnswerIsDropped, WatcherWakes, locals,
     channel, files, Ended
<1> QED
  BY <1>1, <1>2 DEF RpcInv

(* The watcher can only close a call that is still under way.              *)
LEMMA WatcherSendsStep ==
    ASSUME RpcInv, NEW t \in Tasks, WatcherSends(t)
    PROVE  RpcInv'
<1>1. TypeOK'
  BY DEF RpcInv, TypeOK, Dirs, Ended, Alive, WatcherSends, locals, channel,
     files
<1>2. LateInv'
  BY DEF RpcInv, TypeOK, LateInv, CallsAreAwaited, LateIsDone,
     LateAnswerIsDropped, WatcherSends, locals, channel, files
<1>3. DirectoryInv' /\ PortInv'
  BY DEF RpcInv, TypeOK, DirectoryInv, DirsAreTheirs, DirsAreRemoved,
     PortInv, ServersWriteOwnFiles, NoPortYet, OwnServer, WatcherSends,
     locals, channel, files, Ended
<1> QED
  BY <1>1, <1>2, <1>3 DEF RpcInv

(* Killing a server touches nothing but the server.                        *)
LEMMA ExecKillsStep ==
    ASSUME RpcInv, NEW t \in Tasks, ExecKills(t)
    PROVE  RpcInv'
<1>1. TypeOK'
  BY DEF RpcInv, TypeOK, Dirs, Ended, Alive, ExecKills, locals, channel,
     files
<1>2. DirectoryInv'
  BY DEF RpcInv, TypeOK, DirectoryInv, DirsAreTheirs, DirsAreRemoved, Alive,
     ExecKills, locals, channel, files, Ended
<1>3. PortInv' /\ LateInv'
  BY DEF RpcInv, TypeOK, PortInv, ServersWriteOwnFiles, NoPortYet, OwnServer,
     LateInv, CallsAreAwaited, LateIsDone, LateAnswerIsDropped, ExecKills,
     locals, channel, files
<1> QED
  BY <1>1, <1>2, <1>3 DEF RpcInv

(* A server opens port.txt in its own directory, or in the auditor's.      *)
LEMMA OpenPortFileStep ==
    ASSUME RpcInv, NEW t \in Tasks, OpenPortFile(t)
    PROVE  RpcInv'
<1>1. TypeOK'
  BY DEF RpcInv, TypeOK, Dirs, Ended, Alive, OpenPortFile, locals, channel,
     files
<1>2. DirectoryInv'
  BY DEF RpcInv, TypeOK, DirectoryInv, DirsAreTheirs, DirsAreRemoved,
     OpenPortFile, locals, channel, files, Ended
<1>3. PortInv'
  BY RpcAssumption DEF RpcInv, TypeOK, PortInv, ServersWriteOwnFiles,
     NoPortYet, OwnServer, OpenPortFile, locals, channel, files
<1>4. LateInv'
  BY DEF RpcInv, TypeOK, LateInv, CallsAreAwaited, LateIsDone,
     LateAnswerIsDropped, OpenPortFile, locals, channel, files
<1> QED
  BY <1>1, <1>2, <1>3, <1>4 DEF RpcInv

(* A server writes its port in its own directory, or in the auditor's.     *)
LEMMA WritePortStep ==
    ASSUME RpcInv, NEW t \in Tasks, WritePort(t)
    PROVE  RpcInv'
<1>1. TypeOK'
  BY DEF RpcInv, TypeOK, Dirs, Ended, Alive, WritePort, locals, channel,
     files
<1>2. DirectoryInv'
  BY DEF RpcInv, TypeOK, DirectoryInv, DirsAreTheirs, DirsAreRemoved,
     WritePort, locals, channel, files, Ended
<1>3. PortInv'
  BY RpcAssumption DEF RpcInv, TypeOK, PortInv, ServersWriteOwnFiles,
     NoPortYet, OwnServer, DirectoryInv, DirsAreTheirs, WritePort, locals,
     channel, files
<1>4. LateInv'
  BY DEF RpcInv, TypeOK, LateInv, CallsAreAwaited, LateIsDone,
     LateAnswerIsDropped, WritePort, locals, channel, files
<1> QED
  BY <1>1, <1>2, <1>3, <1>4 DEF RpcInv

(* An answer that is late finds the goroutine still calling.               *)
LEMMA AnswerStep ==
    ASSUME RpcInv, NEW t \in Tasks, Answer(t)
    PROVE  RpcInv'
<1>1. TypeOK'
  BY DEF RpcInv, TypeOK, Dirs, Ended, Alive, Answer, locals, channel, files
<1>2. LateInv'
  BY DEF RpcInv, TypeOK, LateInv, CallsAreAwaited, LateIsDone,
     LateAnswerIsDropped, Answer, locals, channel, files
<1>3. DirectoryInv' /\ PortInv'
  BY DEF RpcInv, TypeOK, DirectoryInv, DirsAreTheirs, DirsAreRemoved,
     PortInv, ServersWriteOwnFiles, NoPortYet, OwnServer, Answer, locals,
     channel, files, Ended
<1> QED
  BY <1>1, <1>2, <1>3 DEF RpcInv

(* A server that dies touches nothing but itself.                          *)
LEMMA ServerDiesStep ==
    ASSUME RpcInv, NEW t \in Tasks, ServerDies(t)
    PROVE  RpcInv'
<1>1. TypeOK'
  BY DEF RpcInv, TypeOK, Dirs, Ended, Alive, ServerDies, locals, channel,
     files
<1>2. DirectoryInv'
  BY DEF RpcInv, TypeOK, DirectoryInv, DirsAreTheirs, DirsAreRemoved, Alive,
     ServerDies, locals, channel, files, Ended
<1>3. PortInv' /\ LateInv'
  BY DEF RpcInv, TypeOK, PortInv, ServersWriteOwnFiles, NoPortYet, OwnServer,
     LateInv, CallsAreAwaited, LateIsDone, LateAnswerIsDropped, ServerDies,
     locals, channel, files
<1> QED
  BY <1>1, <1>2, <1>3 DEF RpcInv

-----------------------------------------------------------------------------
(* No step leads out of the invariant.                                     *)
LEMMA StepRpc == RpcInv /\ [Next]_vars => RpcInv'
<1> SUFFICES ASSUME RpcInv, [Next]_vars PROVE RpcInv'
  OBVIOUS
<1>1. CASE \E t \in Tasks : Step(t)
  BY <1>1, MakeDirStep, StartServerStep, ReadNoFileStep, ReadEmptyFileStep,
     ReadPortStep, ConnectStep, CannotConnectStep, CallFailsStep,
     CallReturnsStep, KillServerStep, PublishResultStep DEF Step
<1>2. CASE \E t \in Tasks : Expire(t) \/ Watch(t) \/ ExecKills(t)
  BY <1>2, ExpireStep, WatcherWakesStep, WatcherSendsStep, ExecKillsStep
     DEF Watch
<1>3. CASE \E t \in Tasks : Serve(t)
  BY <1>3, OpenPortFileStep, WritePortStep, AnswerStep, ServerDiesStep
     DEF Serve
<1>4. CASE UNCHANGED vars
  BY <1>4 DEF vars, RpcInv, TypeOK, DirectoryInv, DirsAreTheirs,
     DirsAreRemoved, PortInv, ServersWriteOwnFiles, NoPortYet, OwnServer,
     LateInv, CallsAreAwaited, LateIsDone, LateAnswerIsDropped
<1> QED
  BY <1>1, <1>2, <1>3, <1>4 DEF Next

(* The invariant of the validations holds throughout.                      *)
THEOREM RpcCorrect == Spec => []RpcInv
<1> QED
  BY InitRpc, StepRpc, PTL DEF Spec

(* Every variable of the calls, the watchers and the servers has its type. *)
THEOREM RpcTypeCorrect == Spec => []TypeOK
<1>1. RpcInv => TypeOK
  BY DEF RpcInv
<1> QED
  BY <1>1, RpcCorrect, PTL

(* A task is validated by the server that was started for it.              *)
THEOREM OwnServerAlways == Spec => []OwnServer
<1>1. RpcInv => OwnServer
  BY DEF RpcInv, PortInv
<1> QED
  BY <1>1, RpcCorrect, PTL

(* No way out of CallServer leaves the directory of a started server.      *)
THEOREM DirsAreRemovedAlways == Spec => []DirsAreRemoved
<1>1. RpcInv => DirsAreRemoved
  BY DEF RpcInv, DirectoryInv
<1> QED
  BY <1>1, RpcCorrect, PTL

(* What was answered after the timeout is not published.                   *)
THEOREM LateAnswerIsDroppedAlways == Spec => []LateAnswerIsDropped
<1>1. RpcInv => LateAnswerIsDropped
  BY DEF RpcInv, LateInv
<1> QED
  BY <1>1, RpcCorrect, PTL
=============================================================================
