------------------------------ MODULE TrustList ------------------------------
(***************************************************************************)
(* ModifyPeers and ListPeers of role/trust/trust.go, on the list that one  *)
(* trustor publishes through module W3Store.                               *)
(*                                                                         *)
(* Every run of "modify-trusted-peer" (cmd/validation_bot.go) is a process *)
(* that opens a publisher with the trustor's key, reads the current list,  *)
(* publishes the modified one, and reads it back: finding anything else    *)
(* there it takes for a conflict with another run, and starts over from    *)
(* what it found.                                                          *)
(***************************************************************************)
EXTENDS W3Store

CONSTANTS
    Peers,     \* peers that can be trusted
    Commands,  \* the modifications that operators ask for: [type, peers]
    NoCommand  \* no run of the tool

VARIABLES
    command, \* command[p]: what process p was started with
    step,    \* step[p]: where ModifyPeers is
    known,   \* known[p]: its currentTrustedPeers
    content, \* content[n]: TrustedPeers of the n-th published operation
    alone,   \* alone[p]: history, no other process ran since p started
    promise  \* promise[x]: history, what a command that ran alone reported
             \* of peer x

listVars == <<command, step, known, content, alone, promise>>
vars == <<storeVars, listVars>>

TypeOK ==
    /\ StoreTypeOK
    /\ command \in [Publishers -> Commands \cup {NoCommand}]
    /\ step \in [Publishers -> {"none", "listing", "ready", "publishing"}]
    /\ known \in [Publishers -> SUBSET Peers]
    /\ content \in [Payloads -> SUBSET Peers]
    /\ alone \in [Publishers -> BOOLEAN]
    /\ promise \in [Peers -> {"none", "listed", "unlisted"}]

Init ==
    /\ StoreInit
    /\ command = [p \in Publishers |-> NoCommand]
    /\ step = [p \in Publishers |-> "none"]
    /\ known = [p \in Publishers |-> {}]
    /\ content = [n \in Payloads |-> {}]
    /\ alone = [p \in Publishers |-> FALSE]
    /\ promise = [x \in Peers |-> "none"]

\* ListPeers: the list of the newest operation, empty without one.
Listed == IF record = NoRecord THEN {} ELSE content[Last(LatestCid)]

\* Mutant of NewState: the peers of the command become one element.
NewStateNested(p) == known[p] \cup {command[p].peers}

\* The list ModifyPeers makes of the one it knows.
NewState(p) ==
    LET c == command[p] IN
    CASE c.type = "reset"  -> c.peers
      [] c.type = "create" -> known[p] \cup c.peers
      [] c.type = "revoke" -> known[p] \ c.peers

\* The peers a command says something about.
Concerns(c) == IF c.type = "reset" THEN Peers ELSE c.peers

-----------------------------------------------------------------------------
\* The tool is started: NewW3StorePublisher.
StartCommand(p, c) ==
    /\ Open(p)
    /\ step[p] = "none"
    /\ command' = [command EXCEPT ![p] = c]
    /\ step' = [step EXCEPT ![p] = "listing"]
    /\ alone' = [q \in Publishers |->
          q = p /\ \A r \in Publishers : step[r] = "none"]
    /\ promise' = [x \in Peers |->
          IF x \in Concerns(c) THEN "none" ELSE promise[x]]
    /\ UNCHANGED <<known, content>>

\* Mutant of FirstList: the list is taken to be empty.
FirstListSkipped(p) ==
    /\ step[p] = "listing"
    /\ known' = [known EXCEPT ![p] = {}]
    /\ step' = [step EXCEPT ![p] = "ready"]
    /\ UNCHANGED <<storeVars, command, content, alone, promise>>

FirstList(p) ==
    /\ step[p] = "listing"
    /\ known' = [known EXCEPT ![p] = Listed]
    /\ step' = [step EXCEPT ![p] = "ready"]
    /\ UNCHANGED <<storeVars, command, content, alone, promise>>

PublishList(p) ==
    /\ step[p] = "ready"
    /\ Publish(p)
    /\ content' = [content EXCEPT ![calls'] = NewState(p)]
    /\ step' = [step EXCEPT ![p] = "publishing"]
    /\ UNCHANGED <<command, known, alone, promise>>

OwnEntry(p) == Last(building[p])

\* Publish returned nil, and p reads the list back.
ReadsBack(p) ==
    /\ step[p] = "publishing"
    /\ stage[p] = "idle"
    /\ OwnEntry(p) \in acked

\* The lists agree; the tool reports success and ends.
Succeed(p) ==
    /\ ReadsBack(p)
    /\ Listed = content[OwnEntry(p)]
    /\ promise' = [x \in Peers |->
          IF alone[p] /\ x \in Concerns(command[p])
          THEN IF x \in content[OwnEntry(p)] THEN "listed" ELSE "unlisted"
          ELSE promise[x]]
    /\ stage' = [stage EXCEPT ![p] = "closed"]
    /\ building' = [building EXCEPT ![p] = <<>>]
    /\ lastCid' = [lastCid EXCEPT ![p] = <<>>]
    /\ lastSequence' = [lastSequence EXCEPT ![p] = NoSequence]
    /\ command' = [command EXCEPT ![p] = NoCommand]
    /\ step' = [step EXCEPT ![p] = "none"]
    /\ known' = [known EXCEPT ![p] = {}]
    /\ UNCHANGED <<calls, restarts, blocks, record, posts, acked, content,
                   alone>>

\* The lists differ.  They are compared as slices whose order is that of a
\* map iteration, so equal sets of another process may differ as well.
Conflict(p) ==
    /\ ReadsBack(p)
    /\ Last(LatestCid) # OwnEntry(p)
    /\ Listed # content[OwnEntry(p)] \/ Cardinality(Listed) > 1
    /\ known' = [known EXCEPT ![p] = Listed]
    /\ step' = [step EXCEPT ![p] = "ready"]
    /\ UNCHANGED <<storeVars, command, content, alone, promise>>

\* The tool ends without success: a call failed, or it was interrupted.
Abort(p) ==
    /\ step[p] # "none"
    /\ Close(p)
    /\ command' = [command EXCEPT ![p] = NoCommand]
    /\ step' = [step EXCEPT ![p] = "none"]
    /\ known' = [known EXCEPT ![p] = {}]
    /\ UNCHANGED <<content, alone, promise>>

\* The calls that Publish makes, and the name service.
StoreStep ==
    /\ \/ \E p \in Publishers :
             Upload(p) \/ UploadFails(p) \/ PostName(p) \/ GiveUp(p)
       \/ \E r \in posts : Accept(r) \/ Refuse(r)
    /\ UNCHANGED listVars

Next ==
    \/ \E p \in Publishers :
          \/ \E c \in Commands : StartCommand(p, c)
          \/ FirstList(p)
          \/ PublishList(p)
          \/ Succeed(p)
          \/ Conflict(p)
          \/ Abort(p)
    \/ StoreStep

Spec == Init /\ [][Next]_vars

-----------------------------------------------------------------------------
(* What a command that ran by itself reported as done stays done, however  *)
(* the later commands overlap, fail or are answered late, until one of     *)
(* them concerns the same peer.                                            *)
SuccessSticks ==
    \A x \in Peers :
        /\ promise[x] = "listed" => x \in Listed
        /\ promise[x] = "unlisted" => x \notin Listed
=============================================================================
