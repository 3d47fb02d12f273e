------------------------------- MODULE StartUp -------------------------------
(***************************************************************************)
(* The commands "run" and "validation-rpc": setConfig, run and             *)
(* runRPCServer of cmd/bootstrap.go.                                       *)
(*                                                                         *)
(* A bot without a configuration file makes its own: it generates a pair   *)
(* of keys, for the dispatcher and for the auditor, publishes a trust list *)
(* with the auditor under the key of the dispatcher, and writes the file.  *)
(* Later launches read the file.  The environment may replace what it      *)
(* says.  Every validation launches the program once more, as a child in   *)
(* an empty directory, and that goes through setConfig as well.            *)
(***************************************************************************)
EXTENDS Naturals, FiniteSets

CONSTANT MaxPairs   \* bound: the pairs of keys that are generated

ASSUME StartUpAssumption == MaxPairs \in Nat

Pairs == 1 .. MaxPairs
Roles == {"dispatcher", "auditor", "observer"}
KeyedRoles == {"dispatcher", "auditor"}

VARIABLES
    keys,      \* roles whose PRIVATEKEY is in the environment
    token,     \* W3S_TOKEN is in the environment
    config,    \* the file config.yaml: "absent", "empty" or "complete"
    enabled,   \* the roles it enables
    own,       \* roles whose key in it is the operator's
    filePair,  \* the pair of generated keys in it; 0 without one
    generated, \* how many pairs were generated
    stage,     \* where the launched bot is
    pair,      \* the pair in cfg of setConfig; 0 without one
    running,   \* the roles that have started
    listed,    \* pairs whose auditor is on the list of its dispatcher
    warned,    \* pairs that the operator was told to list
    served,    \* history: generated keys, <<role, pair>>, used by a role
    child,     \* where the child of the auditor is
    childPair  \* pair in its cfg

fileVars == <<config, enabled, own, filePair>>
childVars == <<child, childPair>>
vars == <<keys, token, fileVars, generated, stage, pair, running, listed,
          warned, served, childVars>>

TypeOK ==
    /\ keys \subseteq KeyedRoles
    /\ token \in BOOLEAN
    /\ config \in {"absent", "empty", "complete"}
    /\ enabled \subseteq Roles
    /\ own \subseteq KeyedRoles
    /\ filePair \in 0 .. MaxPairs
    /\ generated \in 0 .. MaxPairs
    /\ stage \in {"down", "publishing", "writing", "reading", "starting",
                  "up"}
    /\ pair \in 0 .. MaxPairs
    /\ running \subseteq enabled
    /\ listed \subseteq Pairs
    /\ warned \subseteq Pairs
    /\ served \subseteq KeyedRoles \X Pairs
    /\ child \in {"none", "publishing", "serving"}
    /\ childPair \in 0 .. MaxPairs

\* A bot that was never launched, without a file or with the operator's.
Init ==
    /\ keys = {}
    /\ token = FALSE
    /\ \/ config = "absent" /\ enabled = Roles /\ own = {}
       \/ /\ config = "complete"
          /\ enabled \in SUBSET Roles
          /\ own = enabled \cap KeyedRoles
    /\ filePair = 0
    /\ generated = 0
    /\ stage = "down"
    /\ pair = 0
    /\ running = {}
    /\ listed = {}
    /\ warned = {}
    /\ served = {}
    /\ child = "none"
    /\ childPair = 0

-----------------------------------------------------------------------------
(* setConfig of the bot.                                                   *)

\* Mutant of NoFile: any error of os.Stat is taken for a missing file.
NoFileSeen == config \in {"absent", "complete"}

\* os.Stat: only a file that does not exist is made.
NoFile == config = "absent"

\* The program is started, with any environment, and looks for the file.
Launch ==
    /\ stage = "down"
    /\ keys' \in SUBSET KeyedRoles
    /\ token' \in BOOLEAN
    /\ IF ~NoFile
       THEN stage' = "reading" /\ UNCHANGED <<generated, pair, warned>>
       ELSE IF keys' # {}
       THEN stage' = "writing" /\ UNCHANGED <<generated, pair, warned>>
       ELSE /\ generated < MaxPairs
            /\ generated' = generated + 1
            /\ pair' = generated'
            /\ stage' = IF token' THEN "publishing" ELSE "writing"
            /\ warned' = IF token' THEN warned ELSE warned \cup {pair'}
    /\ UNCHANGED <<fileVars, running, listed, served, childVars>>

\* Mutant of Publish: the error of ModifyPeers is ignored.
PublishOrNot ==
    /\ stage = "publishing"
    /\ stage' = "writing"
    /\ \/ listed' = listed \cup {pair}
       \/ UNCHANGED listed
    /\ UNCHANGED <<keys, token, fileVars, generated, pair, running, warned,
                   served, childVars>>

\* ModifyPeers creates the list; it has read it back when it returns nil.
Publish ==
    /\ stage = "publishing"
    /\ listed' = listed \cup {pair}
    /\ stage' = "writing"
    /\ UNCHANGED <<keys, token, fileVars, generated, pair, running, warned,
                   served, childVars>>

\* The process ends: what it had in memory is gone.  A child runs on.
Ended ==
    /\ stage' = "down"
    /\ pair' = 0
    /\ running' = {}
    /\ UNCHANGED childVars

\* setConfig returns an error.  The list may have been published all the
\* same.
PublishFails ==
    /\ stage = "publishing"
    /\ Ended
    /\ listed' \in {listed, listed \cup {pair}}
    /\ UNCHANGED <<keys, token, fileVars, generated, warned, served>>

WriteFile ==
    /\ stage = "writing"
    /\ config' = "complete"
    /\ filePair' = pair
    /\ stage' = "reading"
    /\ UNCHANGED <<keys, token, enabled, own, generated, pair, running,
                   listed, warned, served, childVars>>

\* os.WriteFile creates the file before it writes it, and fails or is
\* interrupted after that.
WriteFileStops ==
    /\ stage = "writing"
    /\ config' = "empty"
    /\ Ended
    /\ UNCHANGED <<keys, token, enabled, own, filePair, generated, listed,
                   warned, served>>

\* viper: what the file says, on top of the defaults.
ReadFile ==
    /\ stage = "reading"
    /\ pair' = filePair
    /\ stage' = "starting"
    /\ UNCHANGED <<keys, token, fileVars, generated, running, listed, warned,
                   served, childVars>>

-----------------------------------------------------------------------------
(* run.                                                                    *)

\* A role has a key in the environment or in the file.  The environment
\* replaces only keys that the file names, if only as blank.
HasKey(role) == config = "complete" /\ (role \in keys \cup own \/ pair # 0)

Order == [observer |-> {"dispatcher", "auditor"},
          auditor |-> {"dispatcher"}, dispatcher |-> {}]

\* Mutant of IsNext: a role is started whether or not it is enabled.
IsNextOrDisabled(role) ==
    /\ stage = "starting"
    /\ role \notin running
    /\ Order[role] \cap enabled \subseteq running

IsNext(role) ==
    /\ stage = "starting"
    /\ role \in enabled \ running
    /\ Order[role] \cap enabled \subseteq running

\* The role runs under the generated key.
UsesPair(role) ==
    /\ role \in KeyedRoles
    /\ pair # 0
    /\ role \notin keys \cup own

\* container.Invoke of the role: hosts need a key, the auditor's publisher
\* a token.  (The token in an operator's file is taken for W3S_TOKEN.)
StartRole(role) ==
    /\ IsNext(role)
    /\ role \in KeyedRoles => HasKey(role)
    /\ role = "auditor" => token
    /\ running' = running \cup {role}
    /\ served' = served \cup IF UsesPair(role) THEN {<<role, pair>>} ELSE {}
    /\ UNCHANGED <<keys, token, fileVars, generated, stage, pair, listed,
                   warned, childVars>>

\* A dependency is missing or fails: the process ends, with the roles that
\* have started already.
StartRoleFails(role) ==
    /\ IsNext(role)
    /\ Ended
    /\ UNCHANGED <<keys, token, fileVars, generated, listed, warned, served>>

\* All enabled roles have started.
ComesUp ==
    /\ stage = "starting"
    /\ running = enabled
    /\ enabled # {}
    /\ stage' = "up"
    /\ UNCHANGED <<keys, token, fileVars, generated, pair, running, listed,
                   warned, served, childVars>>

\* "no components enabled"
NothingEnabled ==
    /\ stage = "starting"
    /\ enabled = {}
    /\ Ended
    /\ UNCHANGED <<keys, token, fileVars, generated, listed, warned, served>>

\* The process is stopped or dies, at any point.
Crash ==
    /\ stage # "down"
    /\ Ended
    /\ UNCHANGED <<keys, token, fileVars, generated, listed, warned, served>>

-----------------------------------------------------------------------------
(* runRPCServer of the child.  Its working directory is new and empty, so  *)
(* "./config.yaml" does not exist: it never reads the bot's file, writes   *)
(* one of its own there, and that goes with the directory.  (One child at a *)
(* time is modelled.)                                                      *)

ChildIsLaunched ==
    /\ "auditor" \in running
    /\ child = "none"
    /\ IF keys # {}
       THEN child' = "serving" /\ UNCHANGED <<generated, childPair, warned>>
       ELSE /\ generated < MaxPairs
            /\ generated' = generated + 1
            /\ childPair' = generated'
            /\ child' = IF token THEN "publishing" ELSE "serving"
            /\ warned' = IF token THEN warned ELSE warned \cup {childPair'}
    /\ UNCHANGED <<keys, token, fileVars, stage, pair, running, listed,
                   served>>

ChildPublishes ==
    /\ child = "publishing"
    /\ child' = "serving"
    /\ listed' = listed \cup {childPair}
    /\ UNCHANGED <<keys, token, fileVars, generated, stage, pair, running,
                   warned, served, childPair>>

\* The child ends: the validation is over, it failed, or publishing did.
ChildEnds ==
    /\ child # "none"
    /\ child' = "none"
    /\ childPair' = 0
    /\ listed' \in {listed} \cup
          IF child = "publishing" THEN {listed \cup {childPair}} ELSE {}
    /\ UNCHANGED <<keys, token, fileVars, generated, stage, pair, running,
                   warned, served>>

-----------------------------------------------------------------------------
Next ==
    \/ Launch \/ Publish \/ PublishFails
    \/ WriteFile \/ WriteFileStops \/ ReadFile
    \/ \E role \in Roles : StartRole(role) \/ StartRoleFails(role)
    \/ ComesUp \/ NothingEnabled \/ Crash
    \/ ChildIsLaunched \/ ChildPublishes \/ ChildEnds

Spec == Init /\ [][Next]_vars

-----------------------------------------------------------------------------
(* The keys that a bot generates are its identity: whatever is interrupted *)
(* and however often it is launched, no role ever runs under two of them.  *)
OneIdentity ==
    \A role \in KeyedRoles :
        Cardinality({n \in Pairs : <<role, n>> \in served}) <= 1

(* An auditor under a generated key is on the list of the dispatcher that  *)
(* was generated with it, the only trustor it knows of, or the operator    *)
(* has been told to put it there.                                          *)
AuditorIsOnItsList ==
    "auditor" \in running /\ UsesPair("auditor") => pair \in listed \cup warned
=============================================================================
