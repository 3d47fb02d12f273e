---------------------------- MODULE ModulesProofs -----------------------------
(***************************************************************************)
(* For any number of validations, lists of protocols and addresses: a      *)
(* validation server holds as many jobs as validations run, reports only   *)
(* what a provider did, and leaves no host or stream open behind it, but   *)
(* for the known continue (modules Retrieval and Modules).                 *)
(***************************************************************************)
EXTENDS Modules, FiniteSetTheorems, SequenceTheorems, TLAPS

\* The validations that hold the semaphore.
Holding == {v \in Validations : pc[v] \in Running}

(* The semaphore counts the validations that are past Acquire.             *)
JobsInv == IsFiniteSet(Holding) /\ jobs = Cardinality(Holding)

\* One of the senders has success to send.
Claims(seq) == \E i \in 1 .. Len(seq) : seq[i] = "success"

(* What the senders of the attempt under way have to say of its protocol.  *)
(* A Bitswap goroutine that failed sends success when its failure has been *)
(* received, and so after its own attempt only.                            *)
SendersInv ==
    \A v \in Validations :
        /\ pc[v] \in Protocols /\ Claims(senders[v]) => pc[v] \in completed[v]
        /\ pc[v] = "GraphSync" =>
              goroutine[v] \in {"querying", "transferring", "ended"}
        /\ pc[v] = "bitswap" =>
              /\ goroutine[v] \in {"walking", "failing", "ended"}
              /\ goroutine[v] = "failing" => senders[v] # <<>>

ResultsInv ==
    \A v \in Validations, p \in Protocols :
        results[v][p] = "success" => p \in completed[v]

HostsInv ==
    \A v \in Validations :
        /\ "GraphSync" \in hosts[v] => pc[v] = "GraphSync"
        /\ "bitswap" \in hosts[v] => pc[v] \in {"bitswap", "probing"}

RetrievalInv == TypeOK /\ JobsInv /\ SendersInv /\ ResultsInv /\ HostsInv

(* A probe is where its type leads it, holds what its stage needs, and has *)
(* a status only of what the provider did.                                 *)
ProbeTypeOK ==
    /\ type \in [Validations -> Types]
    /\ stage \in [Validations -> {"called", "looking", "opening",
           "connecting", "streaming", "asking", "asking old", "tracing"}
           \cup Ended]
    /\ host \in [Validations -> BOOLEAN]
    /\ stream \in [Validations -> BOOLEAN]
    /\ addresses \in [Validations -> 0 .. MaxAddresses]
    /\ status \in [Validations -> {"none", "success", "cannot_connect",
           "stream_failure", "enabled", "disabled"} \cup MinerErrors]
    /\ answer \in [Validations -> {"none", "unreachable", "unsupported",
                                   "broken", "served"}]

StagesInv ==
    \A v \in Validations :
        stage[v] = "looking" =>
            type[v] \in {"query_ask", "index_provider", "traceroute"}

ClosedInv ==
    \A v \in Validations : stage[v] \in Ended => ~host[v] /\ ~stream[v]

StatusInv ==
    \A v \in Validations :
        /\ stage[v] \notin Ended => status[v] = "none"
        /\ status[v] \in {"success", "enabled"} => answer[v] = "served"
        /\ status[v] = "disabled" => answer[v] # "unreachable"

ProbeInv == ProbeTypeOK /\ StagesInv /\ ClosedInv /\ StatusInv

ServerInv == RetrievalInv /\ ProbeInv

-----------------------------------------------------------------------------
(* What the senders of a channel claim when one more comes, and what who   *)
(* receives of them gets.                                                  *)
LEMMA NobodyClaims == ~Claims(<<>>)
  BY DEF Claims

LEMMA ClaimsOfAppend ==
    ASSUME NEW seq \in Seq(Sent), NEW x \in Sent
    PROVE  /\ Append(seq, x) \in Seq(Sent)
           /\ Append(seq, x) # <<>>
           /\ Claims(Append(seq, x)) => Claims(seq) \/ x = "success"
<1>1. ASSUME Claims(Append(seq, x)), x # "success"
      PROVE  Claims(seq)
  <2>1. PICK i \in 1 .. Len(seq) + 1 : Append(seq, x)[i] = "success"
    BY <1>1, AppendProperties DEF Claims
  <2>2. i # Len(seq) + 1
    BY <1>1, <2>1, AppendProperties
  <2>3. i \in 1 .. Len(seq) /\ seq[i] = "success"
    BY <2>1, <2>2, AppendProperties, LenProperties
  <2> QED
    BY <2>3 DEF Claims
<1> QED
  BY <1>1, AppendProperties

LEMMA ClaimsOfTail ==
    ASSUME NEW seq \in Seq(Sent), seq # <<>>
    PROVE  /\ Head(seq) \in Sent
           /\ Tail(seq) \in Seq(Sent)
           /\ Head(seq) = "success" => Claims(seq)
<1>1. 1 \in 1 .. Len(seq) /\ Head(seq) = seq[1]
  BY EmptySeq, LenProperties
<1> QED
  BY <1>1, HeadTailProperties DEF Claims

\* The two sends of a retrieval that ends with an error.
TwoFailures(seq) == seq \o <<"retrieve_failure", "retrieve_failure">>

LEMMA ClaimsOfTwoFailures ==
    ASSUME NEW seq \in Seq(Sent)
    PROVE  /\ TwoFailures(seq) \in Seq(Sent)
           /\ Claims(TwoFailures(seq)) => Claims(seq)
<1> DEFINE two == <<"retrieve_failure", "retrieve_failure">>
<1>1. two \in Seq(Sent) /\ Len(two) = 2
  BY DEF Sent, Failures
<1>2. \A i \in 1 .. 2 : two[i] # "success"
  OBVIOUS
<1>3. ASSUME Claims(TwoFailures(seq))
      PROVE  Claims(seq)
  <2>1. PICK i \in 1 .. Len(seq) + 2 : TwoFailures(seq)[i] = "success"
    BY <1>1, <1>3, ConcatProperties DEF Claims, TwoFailures
  <2>2. i <= Len(seq)
    <3>1. ASSUME ~(i <= Len(seq))
          PROVE  i - Len(seq) \in 1 .. 2 /\ two[i - Len(seq)] = "success"
      BY <1>1, <2>1, <3>1, ConcatProperties, LenProperties DEF TwoFailures
    <3> QED
      BY <1>2, <3>1
  <2>3. seq[i] = "success"
    BY <1>1, <2>1, <2>2, ConcatProperties DEF TwoFailures
  <2> QED
    BY <2>1, <2>2, <2>3, LenProperties DEF Claims
<1> QED
  BY <1>1, <1>3, ConcatProperties DEF TwoFailures

-----------------------------------------------------------------------------
(* The semaphore: who acquires it is counted, and who returns no longer.   *)
LEMMA AcquireJobs ==
    ASSUME RetrievalInv, NEW v \in Validations, Acquire(v)
    PROVE  JobsInv' /\ jobs' \in 0 .. MaxJobs
<1>1. v \notin Holding
  BY DEF Acquire, At, Holding, Running, Protocols
<1>2. Holding' = Holding \cup {v}
  BY DEF Acquire, GoTo, Holding, Running, RetrievalInv, TypeOK
<1>3. jobs' = jobs + 1 /\ jobs < MaxJobs /\ jobs \in 0 .. MaxJobs
  BY DEF Acquire, RetrievalInv, TypeOK
<1>4. JobsInv'
  BY <1>1, <1>2, <1>3, FS_AddElement DEF RetrievalInv, JobsInv
<1> QED
  BY <1>3, <1>4, RetrievalAssumption

LEMMA ReturnJobs ==
    ASSUME RetrievalInv, NEW v \in Validations, pc[v] \in Running,
           NEW outcome \in Returned, Return(v, outcome)
    PROVE  JobsInv' /\ jobs' \in 0 .. MaxJobs
<1>1. v \in Holding
  BY DEF Holding
<1>2. outcome \notin Running
  BY DEF Returned, Running, Protocols
<1>3. Holding' = Holding \ {v}
  BY <1>2 DEF Return, GoTo, Holding, RetrievalInv, TypeOK
<1>4. /\ IsFiniteSet(Holding)
      /\ jobs = Cardinality(Holding)
      /\ jobs' = jobs - 1
      /\ jobs \in 0 .. MaxJobs
  BY DEF Return, RetrievalInv, TypeOK, JobsInv
<1>5. IsFiniteSet(Holding') /\ Cardinality(Holding') = jobs - 1
  BY <1>1, <1>3, <1>4, FS_RemoveElement
<1>6. jobs - 1 \in Nat
  BY <1>5, FS_CardinalityType
<1> QED
  BY <1>4, <1>5, <1>6, RetrievalAssumption DEF JobsInv

LEMMA OthersKeepJobs ==
    ASSUME RetrievalInv, NEW v \in Validations, jobs' = jobs,
           \/ pc' = pc
           \/ /\ pc[v] \in Running
              /\ \E s \in Running : pc' = [pc EXCEPT ![v] = s]
    PROVE  JobsInv'
<1>1. Holding' = Holding
  BY DEF Holding, RetrievalInv, TypeOK
<1> QED
  BY <1>1 DEF RetrievalInv, JobsInv

-----------------------------------------------------------------------------
(* Validate, apart from its protocols.                                     *)
LEMMA ValidateStep ==
    ASSUME RetrievalInv, NEW v \in Validations,
           \/ Acquire(v) \/ NotForUs(v) \/ CannotStart(v) \/ NoMiner(v)
           \/ StartLoop(v) \/ Report(v)
    PROVE  RetrievalInv'
<1>1. CASE Acquire(v)
  <2>0. /\ JobsInv'
        /\ jobs' \in 0 .. MaxJobs
    BY <1>1, AcquireJobs
  <2>1. TypeOK'
    BY <1>1, <2>0 DEF RetrievalInv, TypeOK, Running, Protocols, Returned,
       Acquire, At, GoTo, report, attempt
  <2>2. SendersInv'
    BY <1>1, <2>0 DEF RetrievalInv, TypeOK, SendersInv, Protocols, Acquire, At,
       GoTo, report, attempt
  <2>3. ResultsInv'
    BY <1>1, <2>0 DEF RetrievalInv, TypeOK, ResultsInv, Acquire, At, GoTo,
       report, attempt
  <2>4. HostsInv'
    BY <1>1, <2>0 DEF RetrievalInv, TypeOK, HostsInv, Acquire, At, GoTo,
       report, attempt
  <2>5. JobsInv'
    BY <2>0
  <2> QED
    BY <2>1, <2>2, <2>3, <2>4, <2>5 DEF RetrievalInv
<1>2. CASE NotForUs(v)
  <2>0. /\ JobsInv'
        /\ jobs' \in 0 .. MaxJobs
    BY <1>2, ReturnJobs DEF NotForUs, At, Running, Returned
  <2>1. TypeOK'
    BY <1>2, <2>0 DEF RetrievalInv, TypeOK, Running, Protocols, Returned,
       NotForUs, At, Return, GoTo, report, attempt
  <2>2. SendersInv'
    BY <1>2, <2>0 DEF RetrievalInv, TypeOK, SendersInv, Protocols, NotForUs,
       At, Return, GoTo, report, attempt
  <2>3. ResultsInv'
    BY <1>2, <2>0 DEF RetrievalInv, TypeOK, ResultsInv, NotForUs, At, Return,
       GoTo, report, attempt
  <2>4. HostsInv'
    BY <1>2, <2>0 DEF RetrievalInv, TypeOK, HostsInv, NotForUs, At, Return,
       GoTo, report, attempt
  <2>5. JobsInv'
    BY <2>0
  <2> QED
    BY <2>1, <2>2, <2>3, <2>4, <2>5 DEF RetrievalInv
<1>3. CASE CannotStart(v)
  <2>0. /\ JobsInv'
        /\ jobs' \in 0 .. MaxJobs
    BY <1>3, ReturnJobs DEF CannotStart, At, Running, Returned
  <2>1. TypeOK'
    BY <1>3, <2>0 DEF RetrievalInv, TypeOK, Running, Protocols, Returned,
       CannotStart, At, Return, GoTo, report, attempt
  <2>2. SendersInv'
    BY <1>3, <2>0 DEF RetrievalInv, TypeOK, SendersInv, Protocols, CannotStart,
       At, Return, GoTo, report, attempt
  <2>3. ResultsInv'
    BY <1>3, <2>0 DEF RetrievalInv, TypeOK, ResultsInv, CannotStart, At,
       Return, GoTo, report, attempt
  <2>4. HostsInv'
    BY <1>3, <2>0 DEF RetrievalInv, TypeOK, HostsInv, CannotStart, At, Return,
       GoTo, report, attempt
  <2>5. JobsInv'
    BY <2>0
  <2> QED
    BY <2>1, <2>2, <2>3, <2>4, <2>5 DEF RetrievalInv
<1>4. CASE NoMiner(v)
  <2>0. /\ JobsInv'
        /\ jobs' \in 0 .. MaxJobs
    BY <1>4, ReturnJobs DEF NoMiner, At, Running, Returned
  <2>1. TypeOK'
    BY <1>4, <2>0 DEF RetrievalInv, TypeOK, Running, Protocols, Returned,
       Statuses, NoMiner, At, Return, GoTo, report, attempt
  <2>2. SendersInv'
    BY <1>4, <2>0 DEF RetrievalInv, TypeOK, SendersInv, Protocols, NoMiner, At,
       Return, GoTo, report, attempt
  <2>3. ResultsInv'
    BY <1>4, <2>0 DEF RetrievalInv, TypeOK, ResultsInv, NoMiner, At, Return,
       GoTo, report, attempt
  <2>4. HostsInv'
    BY <1>4, <2>0 DEF RetrievalInv, TypeOK, HostsInv, NoMiner, At, Return,
       GoTo, report, attempt
  <2>5. JobsInv'
    BY <2>0
  <2> QED
    BY <2>1, <2>2, <2>3, <2>4, <2>5 DEF RetrievalInv
<1>5. CASE StartLoop(v)
  <2>0. left' \in [Validations -> Seq(Listed)]
    <3>1. <<>> \in Seq(Listed) /\ left \in [Validations -> Seq(Listed)]
      BY EmptySeq DEF RetrievalInv, TypeOK
    <3>2. [left EXCEPT ![v] = <<>>] \in [Validations -> Seq(Listed)]
      BY <3>1
    <3> QED
      BY <1>5, <3>1, <3>2 DEF StartLoop
  <2>1. TypeOK'
    BY <1>5, <2>0 DEF RetrievalInv, TypeOK, Running, Protocols, Returned,
       StartLoop, At, GoTo, report, attempt
  <2>2. SendersInv'
    BY <1>5, <2>0 DEF RetrievalInv, TypeOK, SendersInv, Protocols, StartLoop,
       At, GoTo, report, attempt
  <2>3. ResultsInv'
    BY <1>5, <2>0 DEF RetrievalInv, TypeOK, ResultsInv, StartLoop, At, GoTo,
       report, attempt
  <2>4. HostsInv'
    BY <1>5, <2>0 DEF RetrievalInv, TypeOK, HostsInv, StartLoop, At, GoTo,
       report, attempt
  <2>5. JobsInv'
    BY <1>5, <2>0, OthersKeepJobs DEF StartLoop, At, GoTo, Running
  <2> QED
    BY <2>1, <2>2, <2>3, <2>4, <2>5 DEF RetrievalInv
<1>6. CASE Report(v)
  <2>0. /\ JobsInv'
        /\ jobs' \in 0 .. MaxJobs
    BY <1>6, ReturnJobs DEF Report, At, Running, Returned
  <2>1. TypeOK'
    BY <1>6, <2>0 DEF RetrievalInv, TypeOK, Running, Protocols, Returned,
       Report, At, Return, GoTo, report, attempt
  <2>2. SendersInv'
    BY <1>6, <2>0 DEF RetrievalInv, TypeOK, SendersInv, Protocols, Report, At,
       Return, GoTo, report, attempt
  <2>3. ResultsInv'
    BY <1>6, <2>0 DEF RetrievalInv, TypeOK, ResultsInv, Report, At, Return,
       GoTo, report, attempt
  <2>4. HostsInv'
    BY <1>6, <2>0 DEF RetrievalInv, TypeOK, HostsInv, Report, At, Return, GoTo,
       report, attempt
  <2>5. JobsInv'
    BY <2>0
  <2> QED
    BY <2>1, <2>2, <2>3, <2>4, <2>5 DEF RetrievalInv
<1> QED
  BY <1>1, <1>2, <1>3, <1>4, <1>5, <1>6

(* A protocol that is taken leaves the others for later.                   *)
LEMMA TakeLeaves ==
    ASSUME RetrievalInv, NEW v \in Validations, NEW p, Take(v, p)
    PROVE  left' \in [Validations -> Seq(Listed)]
<1>1. left[v] \in Seq(Listed) /\ left[v] # <<>>
  BY DEF RetrievalInv, TypeOK, Take
<1>2. Tail(left[v]) \in Seq(Listed)
  BY <1>1, HeadTailProperties
<1> QED
  BY <1>2 DEF RetrievalInv, TypeOK, Take

(* A protocol without a case of its own ends Validate.                     *)
LEMMA UnsupportedStep ==
    ASSUME RetrievalInv, NEW v \in Validations, Unsupported(v)
    PROVE  RetrievalInv'
<1>1. /\ JobsInv'
      /\ jobs' \in 0 .. MaxJobs
  BY ReturnJobs DEF Unsupported, Take, At, Running, Returned
<1>2. TypeOK'
  BY <1>1, TakeLeaves DEF RetrievalInv, TypeOK, Running, Protocols, Returned,
     Unsupported, Take, At, Return, GoTo, report, attempt
<1>3. SendersInv'
  BY DEF RetrievalInv, TypeOK, SendersInv, Protocols, Unsupported, Take, At,
     Return, GoTo, report, attempt
<1>4. ResultsInv'
  BY DEF RetrievalInv, TypeOK, ResultsInv, Unsupported, Take, At, Return,
     GoTo, report, attempt
<1>5. HostsInv'
  BY DEF RetrievalInv, TypeOK, HostsInv, Unsupported, Take, At, Return, GoTo,
     report, attempt
<1> QED
  BY <1>1, <1>2, <1>3, <1>4, <1>5 DEF RetrievalInv

(* What Retrieve receives is a result of its own attempt.                  *)
LEMMA ReceivedIsGenuine ==
    ASSUME RetrievalInv, NEW v \in Validations, pc[v] \in Protocols,
           senders[v] # <<>>
    PROVE  /\ Head(senders[v]) \in Statuses
           /\ Tail(senders[v]) \in Seq(Sent)
           /\ Head(senders[v]) = "success" => pc[v] \in completed[v]
<1>1. senders[v] \in Seq(Sent)
  BY DEF RetrievalInv, TypeOK
<1> QED
  BY <1>1, ClaimsOfTail DEF RetrievalInv, SendersInv, Statuses

(* The GraphSync part of the loop.                                         *)
LEMMA GraphSyncStep ==
    ASSUME RetrievalInv, NEW v \in Validations,
           \/ GraphSync(v) \/ NoFilClient(v) \/ NilCall(v)
           \/ GiveUp(v) \/ ReceiveGraphSync(v)
    PROVE  RetrievalInv'
<1>1. CASE GraphSync(v)
  <2>1. TypeOK'
    BY <1>1, TakeLeaves, EmptySeq DEF RetrievalInv, TypeOK, Running, Protocols,
       Returned, GraphSync, Take, At, GoTo, NewAttempt, report
  <2>2. SendersInv'
    BY <1>1, NobodyClaims DEF RetrievalInv, TypeOK, SendersInv, Protocols,
       GraphSync, Take, At, GoTo, NewAttempt, report
  <2>3. ResultsInv'
    BY <1>1 DEF RetrievalInv, TypeOK, ResultsInv, GraphSync, Take, At, GoTo,
       NewAttempt, report
  <2>4. HostsInv'
    BY <1>1 DEF RetrievalInv, TypeOK, HostsInv, GraphSync, Take, At, GoTo,
       NewAttempt, report
  <2>5. JobsInv'
    BY <1>1, OthersKeepJobs DEF GraphSync, At, GoTo, Take, Record, Running,
       Protocols
  <2> QED
    BY <2>1, <2>2, <2>3, <2>4, <2>5 DEF RetrievalInv
<1>2. CASE NoFilClient(v)
  <2>1. TypeOK'
    BY <1>2, TakeLeaves DEF RetrievalInv, TypeOK, Running, Protocols, Returned,
       NoFilClient, Take, At, report, attempt
  <2>2. SendersInv'
    BY <1>2 DEF RetrievalInv, TypeOK, SendersInv, Protocols, NoFilClient, Take,
       At, report, attempt
  <2>3. ResultsInv'
    BY <1>2 DEF RetrievalInv, TypeOK, ResultsInv, NoFilClient, Take, At,
       report, attempt
  <2>4. HostsInv'
    BY <1>2 DEF RetrievalInv, TypeOK, HostsInv, NoFilClient, Take, At, report,
       attempt
  <2>5. JobsInv'
    BY <1>2, OthersKeepJobs DEF NoFilClient, At, GoTo, Take, Record, Running,
       Protocols
  <2> QED
    BY <2>1, <2>2, <2>3, <2>4, <2>5 DEF RetrievalInv
<1>3. CASE NilCall(v)
  <2>1. TypeOK'
    BY <1>3, TakeLeaves DEF RetrievalInv, TypeOK, Running, Protocols, Returned,
       NilCall, Take, At, report, attempt
  <2>2. SendersInv'
    BY <1>3 DEF RetrievalInv, TypeOK, SendersInv, Protocols, NilCall, Take, At,
       report, attempt
  <2>3. ResultsInv'
    BY <1>3 DEF RetrievalInv, TypeOK, ResultsInv, NilCall, Take, At, report,
       attempt
  <2>4. HostsInv'
    BY <1>3 DEF RetrievalInv, TypeOK, HostsInv, NilCall, Take, At, report,
       attempt
  <2>5. JobsInv'
    BY <1>3, OthersKeepJobs DEF NilCall, At, GoTo, Take, Record, Running,
       Protocols
  <2> QED
    BY <2>1, <2>2, <2>3, <2>4, <2>5 DEF RetrievalInv
<1>4. CASE GiveUp(v)
  <2>1. TypeOK'
    BY <1>4 DEF RetrievalInv, TypeOK, Running, Protocols, Returned, GiveUp, At,
       GoTo, Record, attempt, Statuses
  <2>2. SendersInv'
    BY <1>4 DEF RetrievalInv, TypeOK, SendersInv, Protocols, GiveUp, At, GoTo,
       Record, attempt, Statuses
  <2>3. ResultsInv'
    BY <1>4 DEF RetrievalInv, TypeOK, ResultsInv, GiveUp, At, GoTo, Record,
       attempt, Statuses
  <2>4. HostsInv'
    BY <1>4 DEF RetrievalInv, TypeOK, HostsInv, GiveUp, At, GoTo, Record,
       attempt, Statuses
  <2>5. JobsInv'
    BY <1>4, OthersKeepJobs DEF GiveUp, At, GoTo, Take, Record, Running,
       Protocols
  <2> QED
    BY <2>1, <2>2, <2>3, <2>4, <2>5 DEF RetrievalInv
<1>5. CASE ReceiveGraphSync(v)
  <2>0. /\ pc[v] = "GraphSync" /\ pc[v] \in Protocols
        /\ senders[v] # <<>>
    BY <1>5 DEF ReceiveGraphSync, At, Protocols
  <2>1. TypeOK'
    BY <1>5, <2>0, ReceivedIsGenuine DEF RetrievalInv, TypeOK, Running,
       Protocols, Returned, ReceiveGraphSync, At, GoTo, Record
  <2>2. SendersInv'
    BY <1>5, <2>0 DEF RetrievalInv, TypeOK, SendersInv, Protocols,
       ReceiveGraphSync, At, GoTo, Record
  <2>3. ResultsInv'
    BY <1>5, <2>0, ReceivedIsGenuine DEF RetrievalInv, TypeOK, ResultsInv,
       ReceiveGraphSync, At, GoTo, Record
  <2>4. HostsInv'
    BY <1>5, <2>0 DEF RetrievalInv, TypeOK, HostsInv, ReceiveGraphSync, At,
       GoTo, Record
  <2>5. JobsInv'
    BY <1>5, <2>0, OthersKeepJobs DEF ReceiveGraphSync, At, GoTo, Take, Record,
       Running, Protocols
  <2> QED
    BY <2>1, <2>2, <2>3, <2>4, <2>5 DEF RetrievalInv
<1> QED
  BY <1>1, <1>2, <1>3, <1>4, <1>5

(* The Bitswap part.                                                       *)
LEMMA BitswapStep ==
    ASSUME RetrievalInv, NEW v \in Validations,
           \/ MakeHost(v) \/ NoBitswap(v) \/ ConnectFails(v) \/ Connect(v)
           \/ ReceiveBitswap(v)
    PROVE  RetrievalInv'
<1>1. CASE MakeHost(v)
  <2>1. TypeOK'
    BY <1>1, TakeLeaves DEF RetrievalInv, TypeOK, Running, Protocols, Returned,
       MakeHost, Take, At, GoTo, report, attempt
  <2>2. SendersInv'
    BY <1>1 DEF RetrievalInv, TypeOK, SendersInv, Protocols, MakeHost, Take,
       At, GoTo, report, attempt
  <2>3. ResultsInv'
    BY <1>1 DEF RetrievalInv, TypeOK, ResultsInv, MakeHost, Take, At, GoTo,
       report, attempt
  <2>4. HostsInv'
    BY <1>1 DEF RetrievalInv, TypeOK, HostsInv, MakeHost, Take, At, GoTo,
       report, attempt
  <2>5. JobsInv'
    BY <1>1, OthersKeepJobs DEF MakeHost, At, GoTo, Take, Record, Running,
       Protocols
  <2> QED
    BY <2>1, <2>2, <2>3, <2>4, <2>5 DEF RetrievalInv
<1>2. CASE NoBitswap(v)
  <2>1. TypeOK'
    BY <1>2 DEF RetrievalInv, TypeOK, Running, Protocols, Returned, NoBitswap,
       At, GoTo, report, attempt
  <2>2. SendersInv'
    BY <1>2 DEF RetrievalInv, TypeOK, SendersInv, Protocols, NoBitswap, At,
       GoTo, report, attempt
  <2>3. ResultsInv'
    BY <1>2 DEF RetrievalInv, TypeOK, ResultsInv, NoBitswap, At, GoTo, report,
       attempt
  <2>4. HostsInv'
    BY <1>2 DEF RetrievalInv, TypeOK, HostsInv, NoBitswap, At, GoTo, report,
       attempt
  <2>5. JobsInv'
    BY <1>2, OthersKeepJobs DEF NoBitswap, At, GoTo, Take, Record, Running,
       Protocols
  <2> QED
    BY <2>1, <2>2, <2>3, <2>4, <2>5 DEF RetrievalInv
<1>3. CASE ConnectFails(v)
  <2>1. TypeOK'
    BY <1>3 DEF RetrievalInv, TypeOK, Running, Protocols, Returned,
       ConnectFails, At, GoTo, report, attempt
  <2>2. SendersInv'
    BY <1>3 DEF RetrievalInv, TypeOK, SendersInv, Protocols, ConnectFails, At,
       GoTo, report, attempt
  <2>3. ResultsInv'
    BY <1>3 DEF RetrievalInv, TypeOK, ResultsInv, ConnectFails, At, GoTo,
       report, attempt
  <2>4. HostsInv'
    BY <1>3 DEF RetrievalInv, TypeOK, HostsInv, ConnectFails, At, GoTo, report,
       attempt
  <2>5. JobsInv'
    BY <1>3, OthersKeepJobs DEF ConnectFails, At, GoTo, Take, Record, Running,
       Protocols
  <2> QED
    BY <2>1, <2>2, <2>3, <2>4, <2>5 DEF RetrievalInv
<1>4. CASE Connect(v)
  <2>1. TypeOK'
    BY <1>4, EmptySeq DEF RetrievalInv, TypeOK, Running, Protocols, Returned,
       Connect, At, GoTo, NewAttempt, report
  <2>2. SendersInv'
    BY <1>4, NobodyClaims DEF RetrievalInv, TypeOK, SendersInv, Protocols,
       Connect, At, GoTo, NewAttempt, report
  <2>3. ResultsInv'
    BY <1>4 DEF RetrievalInv, TypeOK, ResultsInv, Connect, At, GoTo,
       NewAttempt, report
  <2>4. HostsInv'
    BY <1>4 DEF RetrievalInv, TypeOK, HostsInv, Connect, At, GoTo, NewAttempt,
       report
  <2>5. JobsInv'
    BY <1>4, OthersKeepJobs DEF Connect, At, GoTo, Take, Record, Running,
       Protocols
  <2> QED
    BY <2>1, <2>2, <2>3, <2>4, <2>5 DEF RetrievalInv
<1>5. CASE ReceiveBitswap(v)
  <2>0. /\ pc[v] = "bitswap" /\ pc[v] \in Protocols
        /\ senders[v] # <<>>
    BY <1>5 DEF ReceiveBitswap, At, Protocols
  <2>1. TypeOK'
    BY <1>5, <2>0, ReceivedIsGenuine DEF RetrievalInv, TypeOK, Running,
       Protocols, Returned, ReceiveBitswap, At, GoTo, Record
  <2>2. SendersInv'
    BY <1>5, <2>0 DEF RetrievalInv, TypeOK, SendersInv, Protocols,
       ReceiveBitswap, At, GoTo, Record
  <2>3. ResultsInv'
    BY <1>5, <2>0, ReceivedIsGenuine DEF RetrievalInv, TypeOK, ResultsInv,
       ReceiveBitswap, At, GoTo, Record
  <2>4. HostsInv'
    BY <1>5, <2>0 DEF RetrievalInv, TypeOK, HostsInv, ReceiveBitswap, At, GoTo,
       Record
  <2>5. JobsInv'
    BY <1>5, <2>0, OthersKeepJobs DEF ReceiveBitswap, At, GoTo, Take, Record,
       Running, Protocols
  <2> QED
    BY <2>1, <2>2, <2>3, <2>4, <2>5 DEF RetrievalInv
<1> QED
  BY <1>1, <1>2, <1>3, <1>4, <1>5

(* Steps that leave the retrievals as they are, but may end the process.   *)
LEMMA RetrievalsStay ==
    ASSUME RetrievalInv, up' \in BOOLEAN,
           jobs' = jobs, pc' = pc, left' = left, results' = results,
           lastStatus' = lastStatus, hosts' = hosts, goroutine' = goroutine,
           senders' = senders, timedOut' \in [Validations -> BOOLEAN],
           completed' = completed
    PROVE  RetrievalInv'
<1>1. TypeOK'
  BY DEF RetrievalInv, TypeOK
<1>2. JobsInv'
  BY DEF RetrievalInv, JobsInv, Holding
<1>3. SendersInv' /\ ResultsInv' /\ HostsInv'
  BY DEF RetrievalInv, SendersInv, ResultsInv, HostsInv
<1> QED
  BY <1>1, <1>2, <1>3 DEF RetrievalInv

(* A step of the goroutine, or of an event handler: what it claims on the  *)
(* channel of a Retrieve is true, and a failing Bitswap goroutine waits.   *)
LEMMA SendStep ==
    ASSUME RetrievalInv, NEW v \in Validations,
           NEW g \in {"querying", "transferring", "walking", "failing",
                      "ended"},
           NEW seq \in Seq(Sent),
           NEW delivered \in SUBSET Protocols,
           goroutine' = [goroutine EXCEPT ![v] = g],
           senders' = [senders EXCEPT ![v] = seq],
           completed' = [completed EXCEPT ![v] = @ \cup delivered],
           up' = up, jobs' = jobs, pc' = pc, left' = left,
           results' = results, lastStatus' = lastStatus, hosts' = hosts,
           timedOut' = timedOut,
           pc[v] \in Protocols /\ Claims(seq) =>
               Claims(senders[v]) \/ pc[v] \in delivered,
           pc[v] = "GraphSync" => g \in {"querying", "transferring", "ended"},
           pc[v] = "bitswap" => /\ g \in {"walking", "failing", "ended"}
                                /\ g = "failing" => seq # <<>>
    PROVE  RetrievalInv'
<1>1. TypeOK'
  BY DEF RetrievalInv, TypeOK
<1>2. SendersInv'
  BY DEF RetrievalInv, TypeOK, SendersInv, Protocols
<1>3. ResultsInv'
  BY DEF RetrievalInv, TypeOK, ResultsInv
<1>4. HostsInv'
  BY DEF RetrievalInv, HostsInv
<1>5. JobsInv'
  BY OthersKeepJobs
<1> QED
  BY <1>1, <1>2, <1>3, <1>4, <1>5 DEF RetrievalInv

LEMMA BackgroundStep ==
    ASSUME RetrievalInv, NEW v \in Validations, Background(v)
    PROVE  RetrievalInv'
<1>1. /\ senders[v] \in Seq(Sent)
      /\ goroutine \in [Validations -> {"none", "querying", "transferring",
                                        "walking", "failing", "ended"}]
      /\ senders \in [Validations -> Seq(Sent)]
      /\ completed \in [Validations -> SUBSET Protocols]
  BY DEF RetrievalInv, TypeOK
<1>2. /\ pc[v] = "GraphSync" =>
            goroutine[v] \in {"querying", "transferring", "ended"}
      /\ pc[v] = "bitswap" =>
            /\ goroutine[v] \in {"walking", "failing", "ended"}
            /\ goroutine[v] = "failing" => senders[v] # <<>>
      /\ pc[v] \in Protocols => pc[v] \in {"GraphSync", "bitswap"}
  BY DEF RetrievalInv, SendersInv, Protocols
<1>3. /\ {"query_failure", "data_transfer_failure", "retrieve_failure",
          "success"} \subseteq Sent
      /\ {} \in SUBSET Protocols
      /\ {"GraphSync"} \in SUBSET Protocols
      /\ {"bitswap"} \in SUBSET Protocols
  BY DEF Sent, Failures, Protocols
<1>4. completed = [completed EXCEPT ![v] = @ \cup {}]
  BY <1>1
<1>5. CASE Query(v)
  <2> DEFINE seq == Append(senders[v], "query_failure")
  <2>1. seq \in Seq(Sent) /\ (Claims(seq) => Claims(senders[v]))
    BY <1>1, <1>3, ClaimsOfAppend
  <2>2. CASE /\ senders' = [senders EXCEPT ![v] = seq]
             /\ goroutine' = [goroutine EXCEPT ![v] = "ended"]
    <3> HIDE DEF seq
    <3> QED
      BY <1>2, <1>3, <1>4, <1>5, <2>1, <2>2, SendStep DEF Query, report
  <2>3. CASE /\ goroutine' = [goroutine EXCEPT ![v] = "transferring"]
             /\ senders' = senders
    <3>1. senders' = [senders EXCEPT ![v] = senders[v]]
      BY <1>1, <2>3
    <3> QED
      BY <1>1, <1>2, <1>3, <1>4, <1>5, <2>3, <3>1, SendStep DEF Query, report
  <2> QED
    BY <1>5, <2>2, <2>3 DEF Query
<1>6. CASE TransferError(v)
  <2> DEFINE seq == Append(senders[v], "data_transfer_failure")
  <2>1. seq \in Seq(Sent) /\ (Claims(seq) => Claims(senders[v]))
    BY <1>1, <1>3, ClaimsOfAppend
  <2>2. senders' = [senders EXCEPT ![v] = seq]
    BY <1>6 DEF TransferError
  <2>3. goroutine' = [goroutine EXCEPT ![v] = "transferring"]
    BY <1>1, <1>6 DEF TransferError
  <2> HIDE DEF seq
  <2> QED
    BY <1>2, <1>3, <1>4, <1>6, <2>1, <2>2, <2>3, SendStep
       DEF TransferError, report
<1>7. CASE TransferEnds(v)
  <2> DEFINE won == Append(senders[v], "success")
             lost == TwoFailures(senders[v])
  <2>1. /\ won \in Seq(Sent)
        /\ lost \in Seq(Sent) /\ (Claims(lost) => Claims(senders[v]))
    BY <1>1, <1>3, ClaimsOfAppend, ClaimsOfTwoFailures
  <2>2. CASE /\ completed' = [completed EXCEPT ![v] = @ \cup {"GraphSync"}]
             /\ senders' = [senders EXCEPT ![v] = won]
    <3>1. pc[v] \in Protocols => pc[v] \in {"GraphSync"}
      BY <1>2, <1>7 DEF TransferEnds
    <3> HIDE DEF won
    <3> QED
      BY <1>2, <1>3, <1>7, <2>1, <2>2, <3>1, SendStep DEF TransferEnds, report
  <2>3. CASE completed' = completed /\ senders' = [senders EXCEPT ![v] = lost]
    <3> HIDE DEF lost
    <3> QED
      BY <1>2, <1>3, <1>4, <1>7, <2>1, <2>3, SendStep DEF TransferEnds, report
  <2> QED
    BY <1>7, <2>2, <2>3 DEF TransferEnds, TwoFailures
<1>8. CASE WalkEnds(v)
  <2> DEFINE won == Append(senders[v], "success")
             lost == Append(senders[v], "retrieve_failure")
  <2>1. /\ won \in Seq(Sent)
        /\ lost \in Seq(Sent) /\ lost # <<>>
        /\ Claims(lost) => Claims(senders[v])
    BY <1>1, <1>3, ClaimsOfAppend
  <2>2. CASE /\ completed' = [completed EXCEPT ![v] = @ \cup {"bitswap"}]
             /\ senders' = [senders EXCEPT ![v] = won]
             /\ goroutine' = [goroutine EXCEPT ![v] = "ended"]
    <3>1. pc[v] \in Protocols => pc[v] \in {"bitswap"}
      BY <1>2, <1>8 DEF WalkEnds
    <3> HIDE DEF won
    <3> QED
      BY <1>2, <1>3, <1>8, <2>1, <2>2, <3>1, SendStep DEF WalkEnds, report
  <2>3. CASE /\ senders' = [senders EXCEPT ![v] = lost]
             /\ goroutine' = [goroutine EXCEPT ![v] = "failing"]
             /\ completed' = completed
    <3>1. pc[v] # "GraphSync"
      BY <1>2, <1>8 DEF WalkEnds
    <3> HIDE DEF lost
    <3> QED
      BY <1>2, <1>3, <1>4, <1>8, <2>1, <2>3, <3>1, SendStep
         DEF WalkEnds, report
  <2> QED
    BY <1>8, <2>2, <2>3 DEF WalkEnds
<1>9. CASE SendAgain(v)
  <2> DEFINE seq == Append(senders[v], "success")
  <2>1. seq \in Seq(Sent)
    BY <1>1, <1>3, ClaimsOfAppend
  <2>2. pc[v] \notin Protocols
    BY <1>2, <1>9 DEF SendAgain
  <2>3. /\ senders' = [senders EXCEPT ![v] = seq]
        /\ goroutine' = [goroutine EXCEPT ![v] = "ended"]
    BY <1>9 DEF SendAgain
  <2> HIDE DEF seq
  <2> QED
    BY <1>2, <1>3, <1>4, <1>9, <2>1, <2>2, <2>3, SendStep
       DEF SendAgain, report
<1>10. CASE ConcurrentWrite(v)
  <2>1. up' \in BOOLEAN /\ timedOut' \in [Validations -> BOOLEAN]
    BY <1>10 DEF ConcurrentWrite, attempt, RetrievalInv, TypeOK
  <2> QED
    BY <1>10, <2>1, RetrievalsStay DEF ConcurrentWrite, report, attempt
<1> QED
  BY <1>5, <1>6, <1>7, <1>8, <1>9, <1>10 DEF Background

LEMMA TimeoutStep ==
    ASSUME RetrievalInv, NEW v \in Validations, Timeout(v)
    PROVE  RetrievalInv'
<1>1. up' \in BOOLEAN /\ timedOut' \in [Validations -> BOOLEAN]
  BY DEF Timeout, RetrievalInv, TypeOK
<1> QED
  BY <1>1, RetrievalsStay DEF Timeout, report

LEMMA NilResultStep ==
    ASSUME RetrievalInv, NEW v \in Validations, NilResult(v)
    PROVE  RetrievalInv'
<1>1. up' \in BOOLEAN /\ timedOut' \in [Validations -> BOOLEAN]
  BY DEF NilResult, attempt, RetrievalInv, TypeOK
<1> QED
  BY <1>1, RetrievalsStay DEF NilResult, report, attempt

(* No step of a retrieval breaks the invariant of the retrievals.          *)
LEMMA StepKeepsRetrievalInv ==
    ASSUME RetrievalInv, NEW v \in Validations, Step(v)
    PROVE  RetrievalInv'
  BY ValidateStep, UnsupportedStep, GraphSyncStep, BitswapStep DEF Step

-----------------------------------------------------------------------------
(* The probes.  Leaving one closes its host and its stream, and what it    *)
(* reports rests on what the provider did.                                 *)
LEMMA FailStep ==
    ASSUME ProbeInv, NEW v \in Validations, Fail(v), stage[v] \notin Ended
    PROVE  ProbeInv'
<1>1. ProbeTypeOK'
  BY DEF ProbeInv, ProbeTypeOK, Ended, Fail, Leave
<1>2. StagesInv'
  BY DEF ProbeInv, ProbeTypeOK, StagesInv, Ended, Fail, Leave
<1>3. ClosedInv'
  BY DEF ProbeInv, ProbeTypeOK, ClosedInv, Ended, Fail, Leave
<1>4. StatusInv'
  BY DEF ProbeInv, ProbeTypeOK, StatusInv, Ended, Fail, Leave
<1> QED
  BY <1>1, <1>2, <1>3, <1>4 DEF ProbeInv

LEMMA ConcludeStep ==
    ASSUME ProbeInv, NEW v \in Validations, stage[v] \notin Ended,
           NEW s \in {"none", "success", "cannot_connect", "stream_failure",
                      "enabled", "disabled"} \cup MinerErrors,
           NEW a \in {"none", "unreachable", "unsupported", "broken",
                      "served"},
           Conclude(v, s),
           answer' = answer \/ Answers(v, a),
           s \in {"success", "enabled"} => Answers(v, a) /\ a = "served",
           s = "disabled" => Answers(v, a) /\ a # "unreachable"
    PROVE  ProbeInv'
<1>1. ProbeTypeOK'
  BY DEF ProbeInv, ProbeTypeOK, Ended, Conclude, Leave, Answers
<1>2. StagesInv'
  BY DEF ProbeInv, ProbeTypeOK, StagesInv, Ended, Conclude, Leave, Answers
<1>3. ClosedInv'
  BY DEF ProbeInv, ProbeTypeOK, ClosedInv, Ended, Conclude, Leave, Answers
<1>4. StatusInv'
  BY DEF ProbeInv, ProbeTypeOK, StatusInv, Ended, Conclude, Leave, Answers
<1> QED
  BY <1>1, <1>2, <1>3, <1>4 DEF ProbeInv

(* Steps of a probe that goes on.                                          *)
LEMMA GoOnStep ==
    ASSUME ProbeInv, NEW v \in Validations, stage[v] \notin Ended,
           NEW s \in {"called", "looking", "opening", "connecting",
                      "streaming", "asking", "asking old", "tracing"},
           stage' = [stage EXCEPT ![v] = s],
           s = "looking" =>
               type[v] \in {"query_ask", "index_provider", "traceroute"},
           type' = type, status' = status, answer' = answer,
           host' = host \/ host' = [host EXCEPT ![v] = TRUE],
           stream' = stream \/ stream' = [stream EXCEPT ![v] = TRUE],
           addresses' \in [Validations -> 0 .. MaxAddresses]
    PROVE  ProbeInv'
<1>1. ProbeTypeOK'
  BY DEF ProbeInv, ProbeTypeOK, Ended
<1>2. StagesInv'
  BY DEF ProbeInv, ProbeTypeOK, StagesInv, Ended
<1>3. ClosedInv'
  BY DEF ProbeInv, ProbeTypeOK, ClosedInv, Ended
<1>4. StatusInv'
  BY DEF ProbeInv, ProbeTypeOK, StatusInv, Ended
<1> QED
  BY <1>1, <1>2, <1>3, <1>4 DEF ProbeInv

LEMMA ProbesGoOn ==
    ASSUME ProbeInv, NEW v \in Validations,
           \/ Begin(v) \/ OpenHost(v) \/ LookUp(v) \/ ConnectHost(v)
           \/ OpenStream(v) \/ TryOldProtocol(v) \/ TraceAddress(v)
    PROVE  ProbeInv'
<1>1. addresses \in [Validations -> 0 .. MaxAddresses]
  BY DEF ProbeInv, ProbeTypeOK
<1>2. CASE Begin(v)
  <2>1. stage[v] \notin Ended
    BY <1>2 DEF Begin, ProbeAt, Ended
  <2>2. FirstStage(type[v]) \in {"opening", "looking"}
    BY DEF FirstStage
  <2> QED
    BY <1>1, <1>2, <2>1, <2>2, GoOnStep DEF Begin, Go, ProbeAt
<1>3. CASE OpenHost(v)
  <2>1. stage[v] \notin Ended
    BY <1>3 DEF OpenHost, ProbeAt, Ended
  <2>2. /\ AfterOpening(type[v]) \in {"looking", "connecting"}
        /\ type[v] \in {"query_ask", "index_provider", "traceroute"}
    BY <1>3 DEF OpenHost, ProbeAt, AfterOpening
  <2> QED
    BY <1>1, <1>3, <2>1, <2>2, GoOnStep DEF OpenHost, Go
<1>4. CASE LookUp(v)
  <2>1. stage[v] \notin Ended /\ stage[v] = "looking"
    BY <1>4 DEF LookUp, ProbeAt, Ended
  <2>2. AfterLooking(type[v]) \in {"connecting", "opening", "tracing"}
    BY <2>1 DEF AfterLooking, ProbeInv, StagesInv
  <2>3. PICK n \in 1 .. MaxAddresses :
           addresses' = [addresses EXCEPT ![v] = n]
    BY <1>4 DEF LookUp
  <2>4. addresses' \in [Validations -> 0 .. MaxAddresses]
    BY <1>1, <2>3, ModulesAssumption
  <2> QED
    BY <1>4, <2>1, <2>2, <2>4, GoOnStep DEF LookUp, Go
<1>5. CASE ConnectHost(v)
  <2>1. stage[v] \notin Ended
    BY <1>5 DEF ConnectHost, ProbeAt, Ended
  <2>2. CASE type[v] = "query_ask"
    BY <1>1, <1>5, <2>1, <2>2, GoOnStep DEF ConnectHost, Go
  <2>3. CASE type[v] # "query_ask"
    BY <1>1, <1>5, <2>1, <2>3, GoOnStep DEF ConnectHost, Go
  <2> QED
    BY <2>2, <2>3
<1>6. CASE OpenStream(v)
  <2>1. stage[v] \notin Ended
    BY <1>6 DEF OpenStream, ProbeAt, Ended
  <2> QED
    BY <1>1, <1>6, <2>1, GoOnStep DEF OpenStream, Go
<1>7. CASE TryOldProtocol(v)
  <2>1. stage[v] \notin Ended
    BY <1>7 DEF TryOldProtocol, ProbeAt, Ended
  <2> QED
    BY <1>1, <1>7, <2>1, GoOnStep DEF TryOldProtocol, Go
<1>8. CASE TraceAddress(v)
  <2>1. stage[v] \notin Ended /\ stage[v] = "tracing"
    BY <1>8 DEF TraceAddress, ProbeAt, Ended
  <2>2. addresses' \in [Validations -> 0 .. MaxAddresses]
    BY <1>1, <1>8, ModulesAssumption DEF TraceAddress
  <2>3. stage' = [stage EXCEPT ![v] = "tracing"]
    BY <1>8, <2>1 DEF TraceAddress, ProbeInv, ProbeTypeOK
  <2> QED
    BY <1>8, <2>1, <2>2, <2>3, GoOnStep DEF TraceAddress
<1> QED
  BY <1>2, <1>3, <1>4, <1>5, <1>6, <1>7, <1>8

LEMMA ProbesEnd ==
    ASSUME ProbeInv, NEW v \in Validations,
           \/ NoModule(v) \/ Echo(v) \/ OpenHostFails(v)
           \/ NoMinerInfo(v) \/ NotAMiner(v) \/ CannotConnect(v)
           \/ StreamFails(v) \/ DeadlineFails(v) \/ ReadAsk(v)
           \/ Unresolvable(v) \/ Traced(v)
           \/ GetHead(v) \/ GetHeadFails(v) \/ TracerouteFails(v)
    PROVE  ProbeInv'
<1>1. stage[v] \notin Ended
  BY DEF NoModule, Echo, OpenHostFails, NoMinerInfo, NotAMiner, CannotConnect,
     StreamFails, DeadlineFails, ReadAsk, Unresolvable, Traced, GetHead,
     GetHeadFails, TracerouteFails, AskingHead, ProbeAt, Ended
<1>2. \A s \in MinerErrors : s \notin {"success", "enabled", "disabled"}
  BY DEF MinerErrors
<1>3. CASE \/ NoModule(v) \/ OpenHostFails(v) \/ NoMinerInfo(v)
           \/ DeadlineFails(v) \/ TracerouteFails(v)
  BY <1>1, <1>3, FailStep DEF NoModule, OpenHostFails, NoMinerInfo,
     DeadlineFails, TracerouteFails
<1>4. CASE Echo(v)
  BY <1>1, <1>4, ConcludeStep DEF Echo
<1>5. CASE NotAMiner(v)
  <2>1. PICK s \in MinerErrors : Conclude(v, s)
    BY <1>5 DEF NotAMiner
  <2> QED
    BY <1>1, <1>2, <1>5, <2>1, ConcludeStep DEF NotAMiner
<1>6. CASE Unresolvable(v)
  <2>1. "invalid_multi_address" \in MinerErrors
    BY DEF MinerErrors
  <2> QED
    BY <1>1, <1>6, <2>1, ConcludeStep DEF Unresolvable
<1>7. CASE CannotConnect(v) \/ StreamFails(v)
  BY <1>1, <1>7, ConcludeStep DEF CannotConnect, StreamFails
<1>8. CASE ReadAsk(v) \/ Traced(v) \/ GetHead(v)
  BY <1>1, <1>8, ConcludeStep DEF ReadAsk, Traced, GetHead
<1>9. CASE GetHeadFails(v)
  <2>1. PICK error \in {"broken", "unsupported"} :
           Answers(v, error) /\ Conclude(v, Classify(error))
    BY <1>9 DEF GetHeadFails
  <2>2. Classify(error) \in {"cannot_connect", "disabled"}
    BY DEF Classify
  <2> QED
    BY <1>1, <2>1, <2>2, ConcludeStep
<1> QED
  BY <1>3, <1>4, <1>5, <1>6, <1>7, <1>8, <1>9

-----------------------------------------------------------------------------
LEMMA InitServer == ServerInit => ServerInv
<1> SUFFICES ASSUME ServerInit PROVE ServerInv
  OBVIOUS
<1>1. TypeOK
  BY RetrievalAssumption, EmptySeq
     DEF ServerInit, Init, TypeOK, Statuses
<1>2. JobsInv
  <2>1. Holding = {}
    BY DEF ServerInit, Init, Holding, Running, Protocols
  <2> QED
    BY <2>1, FS_EmptySet DEF ServerInit, Init, JobsInv
<1>3. SendersInv /\ ResultsInv /\ HostsInv
  BY NoResultAssumption DEF ServerInit, Init, SendersInv, ResultsInv, HostsInv,
     Protocols, Statuses, Sent
<1>4. ProbeInv
  BY ModulesAssumption DEF ServerInit, ProbeInv, ProbeTypeOK, StagesInv,
     ClosedInv, StatusInv, Ended
<1> QED
  BY <1>1, <1>2, <1>3, <1>4 DEF ServerInv, RetrievalInv

LEMMA NextKeepsServerInv ==
    ServerInv /\ [ServerNext]_serverVars => ServerInv'
<1> SUFFICES ASSUME ServerInv, [ServerNext]_serverVars PROVE ServerInv'
  OBVIOUS
<1>1. ASSUME UNCHANGED probeVars
      PROVE  ProbeInv'
  BY <1>1 DEF probeVars, ServerInv, ProbeInv, ProbeTypeOK, StagesInv,
     ClosedInv, StatusInv
<1>2. ASSUME UNCHANGED retrievalVars
      PROVE  RetrievalInv'
  <2>1. up' \in BOOLEAN /\ timedOut' \in [Validations -> BOOLEAN]
    BY <1>2 DEF retrievalVars, vars, attempt, ServerInv, RetrievalInv, TypeOK
  <2> QED
    BY <1>2, <2>1, RetrievalsStay
       DEF retrievalVars, vars, report, attempt, ServerInv
<1>3. ASSUME NEW v \in Validations, Retrieves(v)
      PROVE  ServerInv'
  BY <1>1, <1>3, StepKeepsRetrievalInv DEF Retrieves, ServerInv
<1>4. ASSUME NEW v \in Validations, Timeout(v) \/ Background(v),
             UNCHANGED probeVars
      PROVE  ServerInv'
  BY <1>1, <1>4, TimeoutStep, BackgroundStep DEF ServerInv
<1>5. ASSUME NEW v \in Validations, ProbeStep(v) \/ Unlimited(v),
             UNCHANGED retrievalVars
      PROVE  ServerInv'
  BY <1>2, <1>5, ProbesGoOn, ProbesEnd DEF ServerInv, ProbeStep, Unlimited
<1>6. ASSUME NEW v \in Validations, NilResult(v)
      PROVE  ServerInv'
  <2>1. UNCHANGED probeVars
    BY <1>6 DEF NilResult
  <2> QED
    BY <1>1, <1>6, <2>1, NilResultStep DEF ServerInv
<1>7. CASE UNCHANGED serverVars
  <2>1. UNCHANGED probeVars /\ UNCHANGED retrievalVars
    BY <1>7 DEF serverVars, retrievalVars
  <2> QED
    BY <1>1, <1>2, <2>1 DEF ServerInv
<1> QED
  BY <1>3, <1>4, <1>5, <1>6, <1>7 DEF ServerNext

(* The invariant of the retrievals and the probes holds throughout.        *)
THEOREM ServerCorrect == ServerSpec => []ServerInv
<1> QED
  BY InitServer, NextKeepsServerInv, PTL DEF ServerSpec

(* Every step leaves each variable of the server in its type: the          *)
(* semaphore never holds more than its weight, and never less than nothing.*)
THEOREM ServerTypeCorrect == ServerSpec => []ServerTypeOK
<1>1. ServerInv => ServerTypeOK
  BY DEF ServerInv, RetrievalInv, ProbeInv, ProbeTypeOK, ServerTypeOK
<1> QED
  BY <1>1, ServerCorrect, PTL

(* A protocol is reported as successful only if it delivered the data, and *)
(* a provider as serving, or refusing, only if it answered so.             *)
THEOREM ReportsAreGenuineAlways == ServerSpec => []ReportsAreGenuine
<1>1. ServerInv => ReportsAreGenuine
  BY DEF ServerInv, RetrievalInv, ResultsInv, ProbeInv, StatusInv,
     ReportsAreGenuine
<1> QED
  BY <1>1, ServerCorrect, PTL

(* No way out of Validate, or of one of its protocols, leaves a host or a  *)
(* stream open that is still referred to.                                  *)
THEOREM ValidateCleansUpAlways == ServerSpec => []ValidateCleansUp
<1>1. ServerInv => ValidateCleansUp
  BY DEF ServerInv, RetrievalInv, HostsInv, ProbeInv, ClosedInv,
     ValidateCleansUp, Protocols
<1> QED
  BY <1>1, ServerCorrect, PTL
=============================================================================
