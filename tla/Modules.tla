------------------------------- MODULE Modules -------------------------------
(***************************************************************************)
(* All that a validation server (rpcserver/rpcserver.go) can be asked for: *)
(* the retrievals of module Retrieval, and in the same process the probes  *)
(* of module/echo, module/queryask, module/indexprovider and               *)
(* module/traceroute, each on top of GetMinerInfo (module/minerinfo.go).   *)
(*                                                                         *)
(* RPCServer.Validate runs a module under a context that is never done.    *)
(* Only queryask limits its own time.                                      *)
(***************************************************************************)
EXTENDS Retrieval

CONSTANT MaxAddresses   \* bound: the addresses of a provider

ASSUME ModulesAssumption == MaxAddresses \in Nat \ {0}

Types == {"retrieval", "echo", "query_ask", "index_provider", "traceroute",
          "other"}
Ended == {"result", "error"}
MinerErrors == {"invalid_provider_id", "no_peer_id", "invalid_multi_address",
                "no_multi_address"}

VARIABLES
    type,      \* type[v]: the Type of the task
    stage,     \* stage[v]: where the probe is
    host,      \* host[v]: the probe's libp2p host is open
    stream,    \* stream[v]: its stream is open and protected
    addresses, \* addresses[v]: addresses that are still to be traced
    status,    \* status[v]: Status of its result
    answer     \* answer[v]: history, what the provider did

probeVars == <<type, stage, host, stream, addresses, status, answer>>
retrievalVars == vars
serverVars == <<vars, probeVars>>

ServerTypeOK ==
    /\ TypeOK
    /\ type \in [Validations -> Types]
    /\ stage \in [Validations -> {"called", "looking", "opening",
           "connecting", "streaming", "asking", "asking old", "tracing"}
           \cup Ended]
    /\ host \in [Validations -> BOOLEAN]
    /\ stream \in [Validations -> BOOLEAN]
    /\ addresses \in [Validations -> 0 .. MaxAddresses]
    /\ status \in [Validations -> {"none", "success", "cannot_connect",
           "stream_failure", "enabled", "disabled"} \cup MinerErrors]
    /\ answer \in [Validations -> {"none", "unreachable", "unsupported",
                                   "broken", "served"}]

ServerInit ==
    /\ Init
    /\ type \in [Validations -> Types]
    /\ stage = [v \in Validations |-> "called"]
    /\ host = [v \in Validations |-> FALSE]
    /\ stream = [v \in Validations |-> FALSE]
    /\ addresses = [v \in Validations |-> 0]
    /\ status = [v \in Validations |-> "none"]
    /\ answer = [v \in Validations |-> "none"]

-----------------------------------------------------------------------------
ProbeAt(v, types, s) == up /\ type[v] \in types /\ stage[v] = s

\* Mutant of Leave: an error returns without the deferred calls.
LeaveOnError(v, s) ==
    /\ stage' = [stage EXCEPT ![v] = s]
    /\ host' = [host EXCEPT ![v] = @ /\ s = "error"]
    /\ stream' = [stream EXCEPT ![v] = @ /\ s = "error"]

\* Validate returns; its deferred calls close the stream and the host.
Leave(v, s) ==
    /\ stage' = [stage EXCEPT ![v] = s]
    /\ host' = [host EXCEPT ![v] = FALSE]
    /\ stream' = [stream EXCEPT ![v] = FALSE]

Fail(v) ==
    /\ Leave(v, "error")
    /\ UNCHANGED <<type, addresses, status, answer>>

Conclude(v, s) ==
    /\ Leave(v, "result")
    /\ status' = [status EXCEPT ![v] = s]
    /\ UNCHANGED <<type, addresses>>

Go(v, s) == stage' = [stage EXCEPT ![v] = s]
Answers(v, a) == answer' = [answer EXCEPT ![v] = a]

\* RPCServer.Validate finds no module of the type.
NoModule(v) ==
    /\ ProbeAt(v, {"other"}, "called")
    /\ Fail(v)

\* The echo module returns its input.
Echo(v) ==
    /\ ProbeAt(v, {"echo"}, "called")
    /\ Conclude(v, "none")
    /\ UNCHANGED answer

\* queryask makes its host first, indexprovider when it knows the miner.
FirstStage(t) == IF t = "query_ask" THEN "opening" ELSE "looking"
AfterOpening(t) == IF t = "query_ask" THEN "looking" ELSE "connecting"
AfterLooking(t) ==
    CASE t = "query_ask"      -> "connecting"
      [] t = "index_provider" -> "opening"
      [] t = "traceroute"     -> "tracing"

Begin(v) ==
    /\ ProbeAt(v, {"query_ask", "index_provider", "traceroute"}, "called")
    /\ Go(v, FirstStage(type[v]))
    /\ UNCHANGED <<type, host, stream, addresses, status, answer>>

OpenHost(v) ==
    /\ ProbeAt(v, {"query_ask", "index_provider"}, "opening")
    /\ Go(v, AfterOpening(type[v]))
    /\ host' = [host EXCEPT ![v] = TRUE]
    /\ UNCHANGED <<type, stream, addresses, status, answer>>

OpenHostFails(v) ==
    /\ ProbeAt(v, {"query_ask", "index_provider"}, "opening")
    /\ Fail(v)

\* GetMinerInfo: an error of the API, an ErrorCode, no address, or some.
LookUp(v) ==
    /\ ProbeAt(v, Types, "looking")
    /\ \E n \in 1 .. MaxAddresses :
          addresses' = [addresses EXCEPT ![v] = n]
    /\ Go(v, AfterLooking(type[v]))
    /\ UNCHANGED <<type, host, stream, status, answer>>

NoMinerInfo(v) ==
    /\ ProbeAt(v, Types, "looking")
    /\ Fail(v)

NotAMiner(v) ==
    /\ ProbeAt(v, Types, "looking")
    /\ \E s \in MinerErrors : Conclude(v, s)
    /\ UNCHANGED answer

ConnectHost(v) ==
    /\ ProbeAt(v, Types, "connecting")
    /\ Go(v, IF type[v] = "query_ask" THEN "streaming" ELSE "asking")
    /\ UNCHANGED <<type, host, stream, addresses, status, answer>>

CannotConnect(v) ==
    /\ ProbeAt(v, Types, "connecting")
    /\ Answers(v, "unreachable")
    /\ Conclude(v, "cannot_connect")

-----------------------------------------------------------------------------
(* queryask.                                                               *)

OpenStream(v) ==
    /\ ProbeAt(v, {"query_ask"}, "streaming")
    /\ stream' = [stream EXCEPT ![v] = TRUE]
    /\ Go(v, "asking")
    /\ UNCHANGED <<type, host, addresses, status, answer>>

\* NewStream, or later the request or its answer, fails.
StreamFails(v) ==
    /\ \E s \in {"streaming", "asking"} : ProbeAt(v, {"query_ask"}, s)
    /\ Answers(v, "broken")
    /\ Conclude(v, "stream_failure")

DeadlineFails(v) ==
    /\ ProbeAt(v, {"query_ask"}, "asking")
    /\ Fail(v)

ReadAsk(v) ==
    /\ ProbeAt(v, {"query_ask"}, "asking")
    /\ Answers(v, "served")
    /\ Conclude(v, "success")

-----------------------------------------------------------------------------
(* indexprovider: QueryRootCid and what Enabled makes of its error.        *)

\* Mutant of Classify: every error but one means that nobody listens.
ClassifySupported(error) ==
    IF error = "unsupported" THEN "disabled" ELSE "enabled"

\* errors.Is of ErrNotSupported is "cannot_connect"; every other error, of
\* whatever kind, is "disabled".
Classify(error) ==
    IF error = "unsupported" THEN "cannot_connect" ELSE "disabled"

\* The provider does not speak the protocol: the old name of it is tried.
TryOldProtocol(v) ==
    /\ ProbeAt(v, {"index_provider"}, "asking")
    /\ Go(v, "asking old")
    /\ UNCHANGED <<type, host, stream, addresses, status, answer>>

AskingHead(v) ==
    \E s \in {"asking", "asking old"} : ProbeAt(v, {"index_provider"}, s)

GetHead(v) ==
    /\ AskingHead(v)
    /\ Answers(v, "served")
    /\ Conclude(v, "enabled")

\* The dial or the request fails, or the body is not a CID.
GetHeadFails(v) ==
    /\ AskingHead(v)
    /\ \E error \in {"broken"} \cup
             IF stage[v] = "asking old" THEN {"unsupported"} ELSE {} :
          Answers(v, error) /\ Conclude(v, Classify(error))

-----------------------------------------------------------------------------
(* traceroute.                                                             *)

TraceAddress(v) ==
    /\ ProbeAt(v, {"traceroute"}, "tracing")
    /\ addresses[v] > 0
    /\ addresses' = [addresses EXCEPT ![v] = @ - 1]
    /\ UNCHANGED <<type, stage, host, stream, status, answer>>

\* ResolveHostAndIP does not know the form of an address: the traces of the
\* addresses before it are dropped.
Unresolvable(v) ==
    /\ ProbeAt(v, {"traceroute"}, "tracing")
    /\ addresses[v] > 0
    /\ Conclude(v, "invalid_multi_address")
    /\ UNCHANGED answer

\* The command fails, or prints what cannot be unmarshalled.
TracerouteFails(v) ==
    /\ ProbeAt(v, {"traceroute"}, "tracing")
    /\ addresses[v] > 0
    /\ Fail(v)

Traced(v) ==
    /\ ProbeAt(v, {"traceroute"}, "tracing")
    /\ addresses[v] = 0
    /\ Answers(v, "served")
    /\ Conclude(v, "success")

-----------------------------------------------------------------------------
\* What a probe does that does not depend on the provider, or for which the
\* context of queryask sets a limit.
ProbeStep(v) ==
    \/ NoModule(v) \/ Echo(v) \/ Begin(v)
    \/ OpenHost(v) \/ OpenHostFails(v)
    \/ LookUp(v) \/ NoMinerInfo(v) \/ NotAMiner(v)
    \/ ConnectHost(v) \/ CannotConnect(v)
    \/ OpenStream(v) \/ StreamFails(v) \/ DeadlineFails(v) \/ ReadAsk(v)
    \/ Unresolvable(v) \/ Traced(v)

\* The provider's index, and the traceroute command: neither has a timeout.
Unlimited(v) ==
    \/ TryOldProtocol(v) \/ GetHead(v) \/ GetHeadFails(v)
    \/ TraceAddress(v) \/ TracerouteFails(v)

\* "*reply = *result": the retrieval module returned neither a result nor an
\* error, and the process ends.
NilResult(v) ==
    /\ At(v, "nil")
    /\ up' = FALSE
    /\ UNCHANGED <<jobs, pc, left, report, hosts, attempt, probeVars>>

Retrieves(v) == type[v] = "retrieval" /\ Step(v) /\ UNCHANGED probeVars

ServerNext ==
    \E v \in Validations :
        \/ Retrieves(v)
        \/ (Timeout(v) \/ Background(v)) /\ UNCHANGED probeVars
        \/ (ProbeStep(v) \/ Unlimited(v)) /\ UNCHANGED retrievalVars
        \/ NilResult(v)

ServerSpec == ServerInit /\ [][ServerNext]_serverVars

\* Timers fire and a walk ends; the process does what it can, and queryask
\* hears of the end of its minute.
ServerFairSpec ==
    /\ ServerSpec
    /\ \A v \in Validations :
         /\ WF_serverVars(Retrieves(v))
         /\ WF_serverVars(Timeout(v) /\ UNCHANGED probeVars)
         /\ WF_serverVars(WalkEnds(v) /\ UNCHANGED probeVars)
         /\ WF_serverVars(ProbeStep(v) /\ UNCHANGED retrievalVars)

-----------------------------------------------------------------------------
\* A provider is said to serve only what it did: a protocol has succeeded
\* only if it delivered the data, though the senders of an earlier attempt
\* are still about and a walk that failed ends by sending success; and it is
\* said to refuse an index only if it answered at all.
ReportsAreGenuine ==
    \A v \in Validations :
        /\ \A p \in Protocols :
              results[v][p] = "success" => p \in completed[v]
        /\ status[v] \in {"success", "enabled"} => answer[v] = "served"
        /\ status[v] = "disabled" => answer[v] # "unreachable"

\* Whatever way Validate goes on or returns, it leaves no host and no stream
\* open behind it, but for the continue after GetMinerProtocols, which
\* forgets one.
ValidateCleansUp ==
    \A v \in Validations :
        /\ stage[v] \in Ended => ~host[v] /\ ~stream[v]
        /\ \A p \in hosts[v] \cap Protocols :
              \/ pc[v] = p
              \/ p = "bitswap" /\ pc[v] = "probing"

\* Every retrieval, echo and query ask returns, those that wait for the
\* semaphore included, whatever the providers do: or the process has ended,
\* as a nil result or a concurrent write makes it, which counts as returning.
ValidateReturns ==
    \A v \in Validations :
        type[v] \in {"retrieval", "echo", "query_ask"} =>
            <>(pc[v] \in Returned \/ stage[v] \in Ended \/ ~up)
=============================================================================
