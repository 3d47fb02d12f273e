---------------------------- MODULE StartUpProofs -----------------------------
(***************************************************************************)
(* However many pairs of keys are generated, launches interrupted and      *)
(* environments changed: no role runs under two generated keys, and an     *)
(* auditor under a generated key is on its list or the operator was told   *)
(* (module StartUp).                                                       *)
(***************************************************************************)
EXTENDS StartUp, FiniteSetTheorems, TLAPS

Announced == listed \cup warned

(* Keys are generated, and a file written, only where there is none; and   *)
(* nothing has run then.                                                   *)
FileInv ==
    /\ config = "absent" =>
          /\ stage \in {"down", "publishing", "writing"}
          /\ filePair = 0
          /\ served = {}
    /\ stage \in {"publishing", "writing"} => config = "absent"

(* The pair in hand was announced before it is written, so the pair of the *)
(* file is; and roles run under that one.                                  *)
PairInv ==
    /\ stage = "down" => pair = 0
    /\ stage = "publishing" => pair # 0
    /\ stage = "writing" /\ pair # 0 => pair \in Announced
    /\ filePair # 0 => filePair \in Announced
    /\ stage \in {"starting", "up"} => pair = filePair
    /\ running # {} => stage \in {"starting", "up"}
    /\ child = "publishing" => childPair # 0

(* Every generated key that was ever used is of the file's pair.           *)
ServedInv ==
    \A role \in KeyedRoles, n \in Pairs :
        <<role, n>> \in served => n = filePair

StartUpInv == TypeOK /\ FileInv /\ PairInv /\ ServedInv

-----------------------------------------------------------------------------
(* Pairs are numbered from 1; 0 stands for none, and the next one is a     *)
(* pair as long as the bound is not reached.                               *)
LEMMA PairNumbers ==
    /\ 0 .. MaxPairs = {0} \cup Pairs
    /\ \A n \in 0 .. MaxPairs : n < MaxPairs => n + 1 \in Pairs
  BY StartUpAssumption DEF Pairs

LEMMA InitStartUp == Init => StartUpInv
<1> SUFFICES ASSUME Init PROVE StartUpInv
  OBVIOUS
<1>1. TypeOK
  <2>1. enabled \subseteq Roles /\ own \subseteq KeyedRoles
    BY DEF Init
  <2>2. /\ config \in {"absent", "empty", "complete"}
        /\ token \in BOOLEAN
    BY DEF Init
  <2>3. 0 \in 0 .. MaxPairs
    BY StartUpAssumption
  <2> QED
    BY <2>1, <2>2, <2>3 DEF Init, TypeOK
<1>2. FileInv /\ PairInv /\ ServedInv
  BY DEF Init, FileInv, PairInv, ServedInv
<1> QED
  BY <1>1, <1>2 DEF StartUpInv

-----------------------------------------------------------------------------
(* setConfig, as long as it returns no error.                              *)
LEMMA SetConfigStep ==
    ASSUME StartUpInv, Launch \/ Publish \/ WriteFile \/ ReadFile
    PROVE  StartUpInv'
<1>1. CASE Launch
  <2>1. TypeOK'
    <3>1. token' \in BOOLEAN /\ keys' \subseteq KeyedRoles
      BY <1>1 DEF Launch
    <3>2. stage' \in {"reading", "writing", "publishing"}
      BY <1>1 DEF Launch
    <3>3. /\ generated' \in 0 .. MaxPairs
          /\ pair' \in 0 .. MaxPairs
          /\ warned' \subseteq Pairs
      BY <1>1, PairNumbers DEF StartUpInv, TypeOK, Launch
    <3> QED
      BY <1>1, <3>1, <3>2, <3>3
         DEF StartUpInv, TypeOK, Launch, fileVars, childVars
  <2>2. FileInv'
    BY <1>1, StartUpAssumption DEF StartUpInv, FileInv, TypeOK, PairInv,
       Announced, Launch, NoFile, Pairs, fileVars, childVars
  <2>3. PairInv'
    BY <1>1, StartUpAssumption DEF StartUpInv, PairInv, TypeOK, FileInv,
       Announced, Launch, NoFile, Pairs, fileVars, childVars
  <2>4. ServedInv'
    BY <1>1, StartUpAssumption DEF StartUpInv, ServedInv, TypeOK, FileInv,
       PairInv, Announced, Launch, NoFile, Pairs, fileVars, childVars
  <2> QED
    BY <2>1, <2>2, <2>3, <2>4 DEF StartUpInv
<1>2. CASE Publish
  <2>1. TypeOK'
    BY <1>2, StartUpAssumption DEF StartUpInv, TypeOK, PairInv, Publish, Pairs,
       fileVars, childVars
  <2>2. FileInv'
    BY <1>2, StartUpAssumption DEF StartUpInv, FileInv, TypeOK, PairInv,
       Announced, Publish, Pairs, fileVars, childVars
  <2>3. PairInv'
    BY <1>2, StartUpAssumption DEF StartUpInv, PairInv, TypeOK, FileInv,
       Announced, Publish, Pairs, fileVars, childVars
  <2>4. ServedInv'
    BY <1>2, StartUpAssumption DEF StartUpInv, ServedInv, TypeOK, FileInv,
       PairInv, Announced, Publish, Pairs, fileVars, childVars
  <2> QED
    BY <2>1, <2>2, <2>3, <2>4 DEF StartUpInv
<1>3. CASE WriteFile
  <2>1. TypeOK'
    BY <1>3, StartUpAssumption DEF StartUpInv, TypeOK, PairInv, WriteFile,
       childVars
  <2>2. FileInv'
    BY <1>3, StartUpAssumption DEF StartUpInv, FileInv, TypeOK, PairInv,
       Announced, WriteFile, childVars
  <2>3. PairInv'
    BY <1>3, StartUpAssumption DEF StartUpInv, PairInv, TypeOK, FileInv,
       Announced, WriteFile, childVars
  <2>4. ServedInv'
    BY <1>3, StartUpAssumption DEF StartUpInv, ServedInv, TypeOK, FileInv,
       PairInv, Announced, WriteFile, childVars
  <2> QED
    BY <2>1, <2>2, <2>3, <2>4 DEF StartUpInv
<1>4. CASE ReadFile
  <2>1. TypeOK'
    BY <1>4, StartUpAssumption DEF StartUpInv, TypeOK, PairInv, ReadFile,
       fileVars, childVars
  <2>2. FileInv'
    BY <1>4, StartUpAssumption DEF StartUpInv, FileInv, TypeOK, PairInv,
       Announced, ReadFile, fileVars, childVars
  <2>3. PairInv'
    BY <1>4, StartUpAssumption DEF StartUpInv, PairInv, TypeOK, FileInv,
       Announced, ReadFile, fileVars, childVars
  <2>4. ServedInv'
    BY <1>4, StartUpAssumption DEF StartUpInv, ServedInv, TypeOK, FileInv,
       PairInv, Announced, ReadFile, fileVars, childVars
  <2> QED
    BY <2>1, <2>2, <2>3, <2>4 DEF StartUpInv
<1> QED
  BY <1>1, <1>2, <1>3, <1>4

(* However the process ends, the file and the announcements are as true as *)
(* before.                                                                 *)
LEMMA EndedStep ==
    ASSUME StartUpInv, Ended,
           \/ config' = config
           \/ stage = "writing" /\ config' = "empty",
           enabled' = enabled, own' = own, filePair' = filePair,
           keys' = keys, token' = token, generated' = generated,
           warned' = warned, served' = served,
           \/ listed' = listed
           \/ pair # 0 /\ listed' = listed \cup {pair}
    PROVE  StartUpInv'
<1>1. TypeOK'
  <2>1. config' \in {"absent", "empty", "complete"}
    BY DEF StartUpInv, TypeOK
  <2>2. listed' \subseteq Pairs
    BY PairNumbers DEF StartUpInv, TypeOK
  <2>3. 0 \in 0 .. MaxPairs
    BY StartUpAssumption
  <2> QED
    BY <2>1, <2>2, <2>3 DEF StartUpInv, TypeOK, Ended, childVars
<1>2. FileInv'
  BY StartUpAssumption DEF StartUpInv, FileInv, TypeOK, PairInv, Announced,
     Ended, Pairs, childVars
<1>3. PairInv'
  BY StartUpAssumption DEF StartUpInv, PairInv, TypeOK, FileInv, Announced,
     Ended, Pairs, childVars
<1>4. ServedInv'
  BY StartUpAssumption DEF StartUpInv, ServedInv, TypeOK, FileInv, PairInv,
     Announced, Ended, Pairs, childVars
<1> QED
  BY <1>1, <1>2, <1>3, <1>4 DEF StartUpInv

LEMMA StopStep ==
    ASSUME StartUpInv,
           \/ PublishFails \/ WriteFileStops \/ NothingEnabled \/ Crash
           \/ \E role \in Roles : StartRoleFails(role)
    PROVE  StartUpInv'
<1>1. CASE PublishFails
  BY <1>1, EndedStep DEF PublishFails, fileVars, StartUpInv, PairInv
<1>2. CASE WriteFileStops
  BY <1>2, EndedStep DEF WriteFileStops
<1>3. CASE NothingEnabled \/ Crash \/ \E role \in Roles : StartRoleFails(role)
  BY <1>3, EndedStep DEF NothingEnabled, Crash, StartRoleFails, fileVars
<1> QED
  BY <1>1, <1>2, <1>3

(* run.                                                                    *)
LEMMA RunStep ==
    ASSUME StartUpInv, ComesUp \/ \E role \in Roles : StartRole(role)
    PROVE  StartUpInv'
<1>1. CASE ComesUp
  <2>1. TypeOK'
    BY <1>1, StartUpAssumption DEF StartUpInv, TypeOK, PairInv, ComesUp,
       fileVars, childVars
  <2>2. FileInv'
    BY <1>1, StartUpAssumption DEF StartUpInv, FileInv, TypeOK, PairInv,
       Announced, ComesUp, fileVars, childVars
  <2>3. PairInv'
    BY <1>1, StartUpAssumption DEF StartUpInv, PairInv, TypeOK, FileInv,
       Announced, ComesUp, fileVars, childVars
  <2>4. ServedInv'
    BY <1>1, StartUpAssumption DEF StartUpInv, ServedInv, TypeOK, FileInv,
       PairInv, Announced, ComesUp, fileVars, childVars
  <2> QED
    BY <2>1, <2>2, <2>3, <2>4 DEF StartUpInv
<1>2. ASSUME NEW role \in Roles, StartRole(role)
      PROVE  StartUpInv'
  <2>1. TypeOK'
    BY <1>2, StartUpAssumption DEF StartUpInv, TypeOK, PairInv, StartRole,
       IsNext, UsesPair, Pairs, fileVars, childVars
  <2>2. FileInv'
    BY <1>2, StartUpAssumption DEF StartUpInv, FileInv, TypeOK, PairInv,
       Announced, StartRole, IsNext, UsesPair, Pairs, fileVars, childVars
  <2>3. PairInv'
    BY <1>2, StartUpAssumption DEF StartUpInv, PairInv, TypeOK, FileInv,
       Announced, StartRole, IsNext, UsesPair, Pairs, fileVars, childVars
  <2>4. ServedInv'
    BY <1>2, StartUpAssumption DEF StartUpInv, ServedInv, TypeOK, FileInv,
       PairInv, Announced, StartRole, IsNext, UsesPair, Pairs, fileVars,
       childVars
  <2> QED
    BY <2>1, <2>2, <2>3, <2>4 DEF StartUpInv
<1> QED
  BY <1>1, <1>2

(* The child announces pairs of its own.                                   *)
LEMMA ChildStep ==
    ASSUME StartUpInv, ChildIsLaunched \/ ChildPublishes \/ ChildEnds
    PROVE  StartUpInv'
<1>1. CASE ChildIsLaunched
  <2>1. TypeOK'
    <3>1. child' \in {"publishing", "serving"}
      BY <1>1 DEF ChildIsLaunched
    <3>2. /\ generated' \in 0 .. MaxPairs
          /\ childPair' \in 0 .. MaxPairs
          /\ warned' \subseteq Pairs
      BY <1>1, PairNumbers DEF StartUpInv, TypeOK, ChildIsLaunched
    <3> QED
      BY <1>1, <3>1, <3>2
         DEF StartUpInv, TypeOK, ChildIsLaunched, fileVars
  <2>2. FileInv'
    BY <1>1, StartUpAssumption DEF StartUpInv, FileInv, TypeOK, PairInv,
       Announced, ChildIsLaunched, Pairs, fileVars, childVars
  <2>3. PairInv'
    BY <1>1, StartUpAssumption DEF StartUpInv, PairInv, TypeOK, FileInv,
       Announced, ChildIsLaunched, Pairs, fileVars, childVars
  <2>4. ServedInv'
    BY <1>1, StartUpAssumption DEF StartUpInv, ServedInv, TypeOK, FileInv,
       PairInv, Announced, ChildIsLaunched, Pairs, fileVars, childVars
  <2> QED
    BY <2>1, <2>2, <2>3, <2>4 DEF StartUpInv
<1>2. CASE ChildPublishes
  <2>1. TypeOK'
    BY <1>2, StartUpAssumption DEF StartUpInv, TypeOK, PairInv, ChildPublishes,
       Pairs, fileVars, childVars
  <2>2. FileInv'
    BY <1>2, StartUpAssumption DEF StartUpInv, FileInv, TypeOK, PairInv,
       Announced, ChildPublishes, Pairs, fileVars, childVars
  <2>3. PairInv'
    BY <1>2, StartUpAssumption DEF StartUpInv, PairInv, TypeOK, FileInv,
       Announced, ChildPublishes, Pairs, fileVars, childVars
  <2>4. ServedInv'
    BY <1>2, StartUpAssumption DEF StartUpInv, ServedInv, TypeOK, FileInv,
       PairInv, Announced, ChildPublishes, Pairs, fileVars, childVars
  <2> QED
    BY <2>1, <2>2, <2>3, <2>4 DEF StartUpInv
<1>3. CASE ChildEnds
  <2>1. TypeOK'
    BY <1>3, StartUpAssumption DEF StartUpInv, TypeOK, PairInv, ChildEnds,
       Pairs, fileVars, childVars
  <2>2. FileInv'
    BY <1>3, StartUpAssumption DEF StartUpInv, FileInv, TypeOK, PairInv,
       Announced, ChildEnds, Pairs, fileVars, childVars
  <2>3. PairInv'
    BY <1>3, StartUpAssumption DEF StartUpInv, PairInv, TypeOK, FileInv,
       Announced, ChildEnds, Pairs, fileVars, childVars
  <2>4. ServedInv'
    BY <1>3, StartUpAssumption DEF StartUpInv, ServedInv, TypeOK, FileInv,
       PairInv, Announced, ChildEnds, Pairs, fileVars, childVars
  <2> QED
    BY <2>1, <2>2, <2>3, <2>4 DEF StartUpInv
<1> QED
  BY <1>1, <1>2, <1>3

LEMMA NextKeepsStartUpInv ==
    StartUpInv /\ [Next]_vars => StartUpInv'
<1> SUFFICES ASSUME StartUpInv, [Next]_vars PROVE StartUpInv'
  OBVIOUS
<1>1. CASE Next
  BY <1>1, SetConfigStep, StopStep, RunStep, ChildStep DEF Next
<1>2. CASE UNCHANGED vars
  BY <1>2 DEF vars, fileVars, childVars, StartUpInv, TypeOK, FileInv,
     PairInv, ServedInv, Announced
<1> QED
  BY <1>1, <1>2

-----------------------------------------------------------------------------
(* The invariant of the file, the keys and the announcements holds         *)
(* throughout.                                                             *)
THEOREM StartUpCorrect == Spec => []StartUpInv
<1> QED
  BY InitStartUp, NextKeepsStartUpInv, PTL DEF Spec

(* Every step leaves each variable of StartUp in its type.                 *)
THEOREM StartUpTypeCorrect == Spec => []TypeOK
<1>1. StartUpInv => TypeOK
  BY DEF StartUpInv
<1> QED
  BY <1>1, StartUpCorrect, PTL

(* No role ever runs under two generated keys.                             *)
THEOREM OneIdentityAlways == Spec => []OneIdentity
<1>1. ASSUME StartUpInv, NEW role \in KeyedRoles
      PROVE  Cardinality({n \in Pairs : <<role, n>> \in served}) <= 1
  <2> DEFINE used == {n \in Pairs : <<role, n>> \in served}
  <2>1. used \subseteq {filePair}
    BY <1>1 DEF StartUpInv, ServedInv
  <2>2. IsFiniteSet({filePair}) /\ Cardinality({filePair}) = 1
    BY FS_Singleton
  <2>3. Cardinality(used) <= 1
    BY <2>1, <2>2, FS_Subset
  <2> QED
    BY <2>3
<1>2. StartUpInv => OneIdentity
  BY <1>1 DEF OneIdentity
<1> QED
  BY <1>2, StartUpCorrect, PTL

(* An auditor under a generated key is on the list of its dispatcher, or   *)
(* the operator has been told.                                             *)
THEOREM AuditorIsOnItsListAlways == Spec => []AuditorIsOnItsList
<1>1. StartUpInv => AuditorIsOnItsList
  BY DEF StartUpInv, PairInv, Announced, AuditorIsOnItsList, UsesPair
<1> QED
  BY <1>1, StartUpCorrect, PTL
=============================================================================
