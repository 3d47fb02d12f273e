--------------------------------- MODULE Rpc ---------------------------------
(***************************************************************************)
(* role/auditor/rpc.go, rpcserver/rpcserver.go, and the part of            *)
(* role/auditor/auditor.go that calls them: how an auditor validates the   *)
(* tasks it won.                                                           *)
(*                                                                         *)
(* The goroutine of a task makes a directory and starts a server process   *)
(* of its own in it; the server writes the port it listens on to port.txt  *)
(* in that directory, and the goroutine polls that file, connects, and     *)
(* calls Validate.  Beside it run a watcher goroutine that closes the      *)
(* connection when the time is over, and the goroutine of os/exec that     *)
(* kills the process then.  Nothing but files, channels and signals orders *)
(* these four, and the goroutines of other tasks.                          *)
(***************************************************************************)
EXTENDS Naturals

CONSTANTS
    Tasks,    \* the tasks this auditor has won
    RetryMax, \* retryMax: how often port.txt is read
    Here,     \* the working directory of the auditor
    NoFile,   \* there is no port.txt
    NoPort    \* no port number in it (yet)

ASSUME RpcAssumption ==
    /\ RetryMax \in Nat \ {0}
    /\ Here \notin Tasks
    /\ NoFile \notin Tasks \cup {NoPort}
    /\ NoPort \notin Tasks

\* A directory made by MkdirTemp, a server and its port are all named by the
\* task they are made for.
Dirs == Tasks \cup {Here}
Ended == {"published", "failed"}
Alive == {"booting", "writing", "serving"}

VARIABLES
    up,       \* the auditor process is running
    pc,       \* pc[t]: where the goroutine of t is
    ctx,      \* ctx[t]: its context, "live" until its timeout or its end
    dir,      \* dir[t]: the directory CallServer is called with
    reads,    \* reads[t]: readCount
    port,     \* port[t]: the port CallServer read
    call,     \* call[t]: the remote call of client.Call
    late,     \* history: calls that were answered after their time was over
    done,     \* done[t]: the channel of Validate, which has room for one error
    watcher,  \* watcher[t]: where its watcher goroutine is
    server,   \* server[t]: the process started for t
    present,  \* the directories that exist, of those made by MkdirTemp
    portFile  \* portFile[d]: what d/port.txt holds

vars == <<up, pc, ctx, dir, reads, port, call, late, done, watcher, server,
          present, portFile>>
locals == <<reads, port, call, late>>
channel == <<done, watcher>>
files == <<present, portFile>>

TypeOK ==
    /\ up \in BOOLEAN
    /\ pc \in [Tasks -> {"won", "starting", "polling", "dialing", "calling",
                         "killing", "publishing"} \cup Ended]
    /\ ctx \in [Tasks -> {"live", "done"}]
    /\ dir \in [Tasks -> Dirs]
    /\ reads \in [Tasks -> 0 .. RetryMax - 1]
    /\ port \in [Tasks -> Tasks \cup {NoPort}]
    /\ call \in [Tasks -> {"none", "sent", "result", "error", "closed"}]
    /\ done \in [Tasks -> {"open", "full", "closed"}]
    /\ watcher \in [Tasks -> {"none", "armed", "woken", "gone"}]
    /\ server \in [Tasks -> {"none", "dead"} \cup Alive]
    /\ present \subseteq Tasks
    /\ portFile \in [Dirs -> Tasks \cup {NoFile, NoPort}]
    /\ late \subseteq Tasks

Init ==
    /\ up = TRUE
    /\ pc = [t \in Tasks |-> "won"]
    /\ ctx = [t \in Tasks |-> "live"]
    /\ dir = [t \in Tasks |-> Here]
    /\ reads = [t \in Tasks |-> 0]
    /\ port = [t \in Tasks |-> NoPort]
    /\ call = [t \in Tasks |-> "none"]
    /\ done = [t \in Tasks |-> "open"]
    /\ watcher = [t \in Tasks |-> "none"]
    /\ server = [t \in Tasks |-> "none"]
    /\ present = {}
    /\ portFile = [d \in Dirs |-> NoFile]
    /\ late = {}

-----------------------------------------------------------------------------
(* The goroutine of a task.                                                *)

At(t, stage) == up /\ pc[t] = stage
GoTo(t, stage) == pc' = [pc EXCEPT ![t] = stage]

\* The goroutine ends: its variables are gone, and the deferred cancel() runs.
\* The function deferred next to it removes nothing: os.Stat never returns
\* fs.ErrExist.
EndTask(t, outcome) ==
    /\ GoTo(t, outcome)
    /\ ctx' = [ctx EXCEPT ![t] = "done"]
    /\ reads' = [reads EXCEPT ![t] = 0]
    /\ port' = [port EXCEPT ![t] = NoPort]
    /\ call' = [call EXCEPT ![t] = "none"]
    /\ late' = late \ {t}

\* os.RemoveAll(dir).  A directory that could not be made has the name "",
\* for which RemoveAll does nothing, and which stands for Here elsewhere.
RemoveDir(t) ==
    /\ present' = present \ {dir[t]}
    /\ portFile' = IF dir[t] = Here THEN portFile
                   ELSE [portFile EXCEPT ![dir[t]] = NoFile]

\* Mutant of MakeDir: one directory for all tasks.
MakeSharedDir(t) ==
    /\ At(t, "won")
    /\ GoTo(t, "starting")
    /\ dir' = [dir EXCEPT ![t] = CHOOSE u \in Tasks : TRUE]
    /\ present' = present \cup {dir'[t]}
    /\ UNCHANGED <<up, ctx, locals, channel, server, portFile>>

\* CreateTmpDir.  When it fails the goroutine goes on without a directory.
MakeDir(t) ==
    /\ At(t, "won")
    /\ GoTo(t, "starting")
    /\ \/ /\ dir' = [dir EXCEPT ![t] = t]
          /\ present' = present \cup {t}
       \/ UNCHANGED <<dir, present>>
    /\ UNCHANGED <<up, ctx, locals, channel, server, portFile>>

\* cmd.Start; it may fail, and always does when the context is done.
StartServer(t) ==
    /\ At(t, "starting")
    /\ \/ /\ ctx[t] = "live"
          /\ server' = [server EXCEPT ![t] = "booting"]
          /\ GoTo(t, "polling")
          /\ UNCHANGED <<ctx, locals>>
       \/ /\ EndTask(t, "failed")
          /\ UNCHANGED server
    /\ UNCHANGED <<up, dir, channel, files>>

\* Mutants of ReadNoFile and of ReadEmptyFile: no read is the last one; the
\* directory is kept.
ReadAgain(t) ==
    /\ At(t, "polling")
    /\ portFile[dir[t]] = NoFile
    /\ reads' = [reads EXCEPT ![t] = @ + 1]
    /\ UNCHANGED <<up, pc, ctx, dir, port, call, late, channel, server, files>>
ReadEmptyFileOnly(t) ==
    /\ At(t, "polling")
    /\ portFile[dir[t]] = NoPort
    /\ EndTask(t, "failed")
    /\ UNCHANGED <<up, dir, channel, server, files>>

\* A read of port.txt finds no file, and another one is tried unless it was
\* the last; or it finds one, and Atoi fails on the empty file that is there
\* between the open and the write of os.WriteFile.
ReadNoFile(t) ==
    /\ At(t, "polling")
    /\ portFile[dir[t]] = NoFile
    /\ IF reads[t] + 1 >= RetryMax
       THEN EndTask(t, "failed") /\ RemoveDir(t)
       ELSE /\ reads' = [reads EXCEPT ![t] = @ + 1]
            /\ UNCHANGED <<pc, ctx, port, call, late, files>>
    /\ UNCHANGED <<up, dir, channel, server>>

ReadEmptyFile(t) ==
    /\ At(t, "polling")
    /\ portFile[dir[t]] = NoPort
    /\ EndTask(t, "failed")
    /\ RemoveDir(t)
    /\ UNCHANGED <<up, dir, channel, server>>

ReadPort(t) ==
    /\ At(t, "polling")
    /\ portFile[dir[t]] \in Tasks
    /\ port' = [port EXCEPT ![t] = portFile[dir[t]]]
    /\ GoTo(t, "dialing")
    /\ UNCHANGED <<up, ctx, dir, reads, call, late, channel, server, files>>

\* rpc.DialHTTP waits for the server to answer, and heeds no context.  Then
\* the watcher is started and the call is sent.
Connect(t) ==
    /\ At(t, "dialing")
    /\ server[port[t]] = "serving"
    /\ GoTo(t, "calling")
    /\ call' = [call EXCEPT ![t] = "sent"]
    /\ watcher' = [watcher EXCEPT ![t] = "armed"]
    /\ UNCHANGED <<up, ctx, dir, reads, port, late, done, server, files>>

CannotConnect(t) ==
    /\ At(t, "dialing")
    /\ server[port[t]] = "dead"
    /\ EndTask(t, "failed")
    /\ RemoveDir(t)
    /\ UNCHANGED <<up, dir, channel, server>>

\* client.Call returns with an error: the server's, or that the watcher has
\* closed the client, or that the process at the other end is gone.
CallFails(t) ==
    /\ At(t, "calling")
    /\ \/ call[t] \in {"error", "closed"}
       \/ call[t] = "sent" /\ server[port[t]] = "dead"
    /\ EndTask(t, "failed")
    /\ RemoveDir(t)
    /\ UNCHANGED <<up, dir, channel, server>>

\* client.Call returns with the reply; then
\* select { case err = <-done: default: close(done) }
CallReturns(t) ==
    /\ At(t, "calling")
    /\ call[t] = "result"
    /\ \/ /\ done[t] = "full"
          /\ done' = [done EXCEPT ![t] = "open"]
          /\ EndTask(t, "failed")
          /\ RemoveDir(t)
       \/ /\ done[t] = "open"
          /\ done' = [done EXCEPT ![t] = "closed"]
          /\ GoTo(t, "killing")
          /\ UNCHANGED <<ctx, locals, files>>
    /\ UNCHANGED <<up, dir, watcher, server>>

\* Mutant of KillServer: the context is not looked at.
KillOnly(t) ==
    /\ At(t, "killing")
    /\ server' = [server EXCEPT ![t] = "dead"]
    /\ RemoveDir(t)
    /\ GoTo(t, "publishing")
    /\ UNCHANGED <<up, ctx, dir, locals, channel>>

\* CallServer kills the process and removes the directory; the reply counts
\* if the context is live.  (Kill cannot fail: nothing calls cmd.Wait, so the
\* process stays at least as a zombie.)
KillServer(t) ==
    /\ At(t, "killing")
    /\ server' = [server EXCEPT ![t] = "dead"]
    /\ RemoveDir(t)
    /\ IF ctx[t] = "live"
       THEN GoTo(t, "publishing") /\ UNCHANGED <<ctx, locals>>
       ELSE EndTask(t, "failed")
    /\ UNCHANGED <<up, dir, channel>>

PublishResult(t) ==
    /\ At(t, "publishing")
    /\ \E outcome \in Ended : EndTask(t, outcome)
    /\ UNCHANGED <<up, dir, channel, server, files>>

\* The timeout of the context.  (Before cmd.Start it makes Start fail.)
Expire(t) ==
    /\ up
    /\ pc[t] \notin Ended \cup {"won", "starting"}
    /\ ctx[t] = "live"
    /\ ctx' = [ctx EXCEPT ![t] = "done"]
    /\ UNCHANGED <<up, pc, dir, locals, channel, server, files>>

-----------------------------------------------------------------------------
(* The watcher goroutine of Validate.  Its select takes either case that   *)
(* is ready, and nothing comes between it and the send but the scheduler.  *)

WatcherWakes(t) ==
    /\ up
    /\ watcher[t] = "armed"
    /\ \/ /\ ctx[t] = "done"
          /\ watcher' = [watcher EXCEPT ![t] = "woken"]
       \/ /\ done[t] = "closed"
          /\ watcher' = [watcher EXCEPT ![t] = "gone"]
    /\ UNCHANGED <<up, pc, ctx, dir, locals, done, server, files>>

\* done <- err; client.Close(), which fails the call if it is under way.  A
\* send on a closed channel panics, and no recover is on the stack of this
\* goroutine: the auditor ends.
WatcherSends(t) ==
    /\ up
    /\ watcher[t] = "woken"
    /\ IF done[t] = "closed"
       THEN /\ up' = FALSE
            /\ UNCHANGED <<channel, call>>
       ELSE /\ done' = [done EXCEPT ![t] = "full"]
            /\ call' = [call EXCEPT ![t] = IF @ = "sent" THEN "closed" ELSE @]
            /\ watcher' = [watcher EXCEPT ![t] = "gone"]
            /\ UNCHANGED up
    /\ UNCHANGED <<pc, ctx, dir, reads, port, late, server, files>>

\* Mutant of ExecKills: exec.Command, which has no context.
NoContext(t) == t \notin Tasks /\ UNCHANGED vars

\* exec.CommandContext (external): once the context is done, the process is
\* killed, by a goroutine of the auditor.
ExecKills(t) ==
    /\ up
    /\ ctx[t] = "done"
    /\ server[t] \in Alive
    /\ server' = [server EXCEPT ![t] = "dead"]
    /\ UNCHANGED <<up, pc, ctx, dir, locals, channel, files>>

-----------------------------------------------------------------------------
(* The server process.  It outlives an auditor that ends by a panic.       *)

\* Start: after bootstrapping, the server listens on a port of its own and
\* opens port.txt, which truncates it.
OpenPortFile(t) ==
    /\ server[t] = "booting"
    /\ dir[t] \in present \cup {Here}
    /\ server' = [server EXCEPT ![t] = "writing"]
    /\ portFile' = [portFile EXCEPT ![dir[t]] = NoPort]
    /\ UNCHANGED <<up, pc, ctx, dir, locals, channel, present>>

\* The write, into a file that may be unlinked by now, and http.Serve.
WritePort(t) ==
    /\ server[t] = "writing"
    /\ server' = [server EXCEPT ![t] = "serving"]
    /\ portFile' = IF dir[t] \in present \cup {Here}
                   THEN [portFile EXCEPT ![dir[t]] = t] ELSE portFile
    /\ UNCHANGED <<up, pc, ctx, dir, locals, channel, present>>

\* RPCServer.Validate answers t.  It may also never do: it passes the module
\* a context of its own, not the caller's.
Answer(t) ==
    /\ call[t] = "sent"
    /\ server[port[t]] = "serving"
    /\ \E reply \in {"result", "error"} : call' = [call EXCEPT ![t] = reply]
    /\ late' = IF ctx[t] = "done" THEN late \cup {t} ELSE late
    /\ UNCHANGED <<up, pc, ctx, dir, reads, port, channel, server, files>>

\* The process ends by itself: it cannot bootstrap, has no listener, finds
\* its directory gone, or panics in Validate, where a module that returns nil
\* for a task it would rather skip is dereferenced.
ServerDies(t) ==
    /\ server[t] \in Alive
    /\ server' = [server EXCEPT ![t] = "dead"]
    /\ UNCHANGED <<up, pc, ctx, dir, locals, channel, files>>

-----------------------------------------------------------------------------
Step(t) ==
    \/ MakeDir(t) \/ StartServer(t)
    \/ ReadNoFile(t) \/ ReadEmptyFile(t) \/ ReadPort(t)
    \/ Connect(t) \/ CannotConnect(t)
    \/ CallFails(t) \/ CallReturns(t)
    \/ KillServer(t) \/ PublishResult(t)

Watch(t) == WatcherWakes(t) \/ WatcherSends(t)
Serve(t) == OpenPortFile(t) \/ WritePort(t) \/ Answer(t) \/ ServerDies(t)

Next == \E t \in Tasks :
    Step(t) \/ Expire(t) \/ Watch(t) \/ ExecKills(t) \/ Serve(t)

Spec == Init /\ [][Next]_vars

\* The goroutines of the auditor are scheduled, and its timers fire.  Of the
\* server process nothing is asked: it may hang at any point.
FairSpec ==
    /\ Spec
    /\ \A t \in Tasks :
         /\ WF_vars(Step(t))
         /\ WF_vars(Expire(t))
         /\ WF_vars(Watch(t))
         /\ WF_vars(ExecKills(t))

-----------------------------------------------------------------------------
(* Properties.                                                             *)

\* A task with a directory of its own is validated by the server that was
\* started for it, whatever ports other tasks' servers write.
OwnServer ==
    \A t \in Tasks : dir[t] = t /\ port[t] # NoPort => port[t] = t

\* Whatever way CallServer took after it had started the process, it left no
\* directory behind: the deferred function of the goroutine would not.
DirsAreRemoved ==
    \A t \in Tasks :
        pc[t] \in Ended \cup {"publishing"} /\ server[t] # "none"
            => t \notin present

\* An answer that came when the validation had timed out is not published,
\* however the watcher and the goroutine are scheduled.
LateAnswerIsDropped == \A t \in late : pc[t] # "publishing"

\* Every validation ends and takes its server with it, although neither the
\* polling nor the dialling looks at the context, the server may hang, and
\* most of the ways out of CallServer do not kill it.
ValidationsEnd ==
    \A t \in Tasks :
        pc[t] = "starting"
            ~> (pc[t] \in Ended /\ server[t] \notin Alive) \/ ~up
=============================================================================
