-------------------------------- MODULE MCParts ---------------------------------
(***************************************************************************)
(* The parts of staticpy that run inside one job or one command, in one     *)
(* instance for TLC: a behaviour is one of any of them.  They share no      *)
(* state, so that one which has begun leaves the others where they are.     *)
(***************************************************************************)
EXTENDS MCConfig, MCSourceTree, MCSysrootTree, MCVerdict, MCBench, MCAttempts, Shim

Begun(part) ==
  CASE part = "config"   -> stage # "idle"
    [] part = "tree"     -> job # "idle"
    [] part = "sysroot"  -> composing # "idle"
    [] part = "verdict"  -> verifies > 0
    [] part = "bench"    -> clock > 0 \/ \E c \in Commands : run[c].at # "idle"
    [] part = "attempts" -> guard # "unset"
    [] part = "shim"     -> source > 0 \/ \E s \in Shims : shim[s].at # "off"
Parts == {"config", "tree", "sysroot", "verdict", "bench", "attempts", "shim"}
Alone(part) == \A other \in Parts \ {part} : ~Begun(other)

PartsInit ==
  ConfigInit /\ TreeInit /\ SysrootInit /\ VerdictInit /\ BenchInit /\ AttemptInit /\ ShimInit

PartsNext ==
  \/ Alone("config") /\ ConfigNext
     /\ UNCHANGED <<treeVars, sysrootVars, verdictVars, benchVars, attemptVars, shimVars>>
  \/ Alone("tree") /\ TreeNext
     /\ UNCHANGED <<configVars, sysrootVars, verdictVars, benchVars, attemptVars, shimVars>>
  \/ Alone("sysroot") /\ SysrootNext
     /\ UNCHANGED <<configVars, treeVars, verdictVars, benchVars, attemptVars, shimVars>>
  \/ Alone("verdict") /\ VerdictNext
     /\ UNCHANGED <<configVars, treeVars, sysrootVars, benchVars, attemptVars, shimVars>>
  \/ Alone("bench") /\ BenchNext
     /\ UNCHANGED <<configVars, treeVars, sysrootVars, verdictVars, attemptVars, shimVars>>
  \/ Alone("attempts") /\ AttemptNext
     /\ UNCHANGED <<configVars, treeVars, sysrootVars, verdictVars, benchVars, shimVars>>
  \/ Alone("shim") /\ ShimNext
     /\ UNCHANGED <<configVars, treeVars, sysrootVars, verdictVars, benchVars, attemptVars>>

PartsSpec ==
  PartsInit /\ [][PartsNext]_<<configVars, treeVars, sysrootVars, verdictVars, benchVars, attemptVars, shimVars>>
================================================================================
