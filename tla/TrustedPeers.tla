---------------------------- MODULE TrustedPeers -----------------------------
(***************************************************************************)
(* From an operator's "modify-trusted-peer" to IsTrusted: the tool of      *)
(* module TrustList writes one of the lists that the loop of module        *)
(* TrustManager reads, through the publisher and the name service of       *)
(* module W3Store.                                                         *)
(***************************************************************************)
EXTENDS TrustManager, Sequences, FiniteSets

CONSTANTS
    Tool,       \* the trustor whose key the operators have
    OtherLists, \* the lists that the other trustors may have published
    Publishers, MaxPublishes, MaxRestarts, AnswersGetLost, NoRecord,
    NoSequence, Commands, NoCommand

VARIABLES
    calls, restarts, blocks, record, posts, acked, stage, building, lastCid,
    lastSequence, command, step, known, content, alone, promise

TL == INSTANCE TrustList

ASSUME TrustedPeersAssumption ==
    /\ Tool \in Trustors
    /\ OtherLists \subseteq SUBSET Peers
    /\ Commands \subseteq
          [type : {"create", "revoke", "reset"}, peers : SUBSET Peers]
    /\ NoCommand \notin Commands
    /\ MaxPublishes \in Nat /\ MaxPublishes <= MaxChanges
    /\ MaxRestarts \in Nat
    /\ AnswersGetLost \in BOOLEAN
    /\ NoRecord \notin TL!Records
    /\ NoSequence \notin Nat

toolVars ==
    <<calls, restarts, blocks, record, posts, acked, stage, building, lastCid,
      lastSequence, command, step, known, content, alone, promise>>
systemVars == <<vars, toolVars>>

SystemTypeOK == TypeOK /\ TL!TypeOK

SystemInit ==
    /\ TL!Init
    /\ \E others \in [Trustors \ {Tool} -> OtherLists] :
          list = [t \in Trustors |-> IF t = Tool THEN {} ELSE others[t]]
    /\ changes = 0
    /\ toRead = Trustors
    /\ newTrustees = {}
    /\ trustees = {}
    /\ listedSince = Named
    /\ without = Missing

\* The tool, its publisher or the name service makes a step.  For the
\* manager it is ChangeList when it changes what the newest entry says.
ToolStep ==
    /\ TL!Next
    /\ list' = [list EXCEPT ![Tool] = TL!Listed']
    /\ changes' = IF TL!Listed' = TL!Listed THEN changes ELSE changes + 1
    /\ listedSince' = listedSince \cup Named'
    /\ without' = without \cup Missing'
    /\ UNCHANGED <<toRead, newTrustees, trustees>>

ManagerStep == Round /\ UNCHANGED toolVars

SystemNext == ToolStep \/ ManagerStep

\* The manager's loop goes on for ever.  Nothing is assumed of the tool.
SystemSpec == SystemInit /\ [][SystemNext]_systemVars /\ WF_systemVars(ManagerStep)

-----------------------------------------------------------------------------
(* What a command that ran by itself reported as done stays done, however  *)
(* the later commands overlap, fail or are answered late, until one of     *)
(* them concerns the same peer.                                            *)
SuccessSticks == TL!SuccessSticks

(* What such a command reported takes effect on the auditors: the peer it  *)
(* listed ends up trusted if the list can be read, and the peer it removed *)
(* ends up untrusted unless another trustor lists it, even though reads    *)
(* keep failing.                                                           *)
ReportsTakeEffect ==
    \A x \in Peers :
        /\ <>[](promise[x] = "listed" /\ <<Tool, x>> \notin without)
              => <>[](x \in trustees)
        /\ <>[](/\ promise[x] = "unlisted"
                /\ \A t \in Trustors \ {Tool} : x \notin list[t])
              => <>[](x \notin trustees)
=============================================================================
