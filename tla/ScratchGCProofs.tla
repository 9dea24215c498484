---------------------------- MODULE ScratchGCProofs ----------------------------
(***************************************************************************)
(* Theorems about ScratchGC for every set of processes, every assignment   *)
(* of pids and namespaces and every timing the assumptions allow. A live   *)
(* tree is spared for either of two reasons: everyone sees everyone's pid, *)
(* or beats get through and are punctual.                                  *)
(***************************************************************************)
EXTENDS ScratchGC, FiniteSetTheorems, TLAPS

(***************************************************************************)
(* The parts of the inductive invariants. Stages before the directories    *)
(* exist, and those in which a ticker may run.                             *)
(***************************************************************************)
Early == {"unborn", "ready", "locked", "mkdirs"} \cup Collecting
Beating == Building \ {"locked"}

TypeInv ==
  /\ pc \in [Proc -> Stages]
  /\ dir \in [Proc -> SUBSET {"work", ".staging", ".trash"}]
  /\ age \in [Proc -> 0..StaleAge]
  /\ art \in BOOLEAN
  /\ heart \in {{}} \cup {{p} : p \in Proc} /\ heartAge \in 0..LiveFor
  /\ ticking \in [Proc -> BOOLEAN] /\ writing \in [Proc -> BOOLEAN]
  /\ skipped \in [Proc -> 0..(MaxSkips + 1)]
  /\ root \in [Proc -> {"work", ".staging"}]
  /\ todo \in [Proc -> SUBSET Proc] /\ entry \in [Proc -> SUBSET Proc]
  /\ passAge \in [Proc -> 0..PassTime]
  /\ owed \in [Proc -> SUBSET (Proc \X {"work", ".staging", ".trash"})]

\* A process has directories only once it has made them, has a ticker only while
\* it builds, and only one process builds.
Lifecycle ==
  /\ \A p \in Proc : pc[p] \in Early => dir[p] = {}
  /\ \A p \in Proc : dir[p] = {} => age[p] = 0
  /\ \A p \in Proc : ticking[p] <=> pc[p] \in Beating
  /\ \A p \in Proc : writing[p] => ticking[p]
  /\ \A p, q \in Proc : pc[p] \in Building /\ pc[q] \in Building => p = q
  /\ \A p \in heart : pc[p] \in Beating \cup {"killed"}
  /\ \A p \in Proc : pc[p] = "building" => ".trash" \notin dir[p]

\* A collector looks at one directory at a time, and one that is about to be
\* removed belongs to a process that will build no more.
RemovesDead ==
  /\ \A g \in Proc : \A p, q \in entry[g] : p = q
  /\ \A g, p \in Proc : pc[g] = "remove" /\ p \in entry[g] =>
       pc[p] \notin Early \cup {"building"}

\* What the checks of the collector must achieve, for either reason.
ChoosesNoBuilder ==
  \A g, p \in Proc : pc[g] = "check" /\ p \in entry[g] /\ ~PidAlive(g, p)
                     /\ OldEnough(p) => pc[p] # "building"

\* Everyone sees everyone's pid; every beat gets through.
OneHost == \A p, q \in Proc : Namespace[p] = Namespace[q]
BeatsGetThrough == Reliable = Proc

\* While p makes its directories or builds, its beat is in the file and young, or
\* p began only a pass and a beat's delay ago; and so whoever chose its directory
\* without a live beat in sight, or is about to remove a beat, finds it too young.
Protected(p) ==
  /\ heart \subseteq {p}
  /\ p \in heart => heartAge <= skipped[p]
  /\ heart = {} => age[p] <= PassTime + skipped[p]
  /\ \A g \in Proc : pc[g] = "dropBeat" => age[p] <= passAge[g]
  /\ \A g \in Proc : pc[g] = "check" /\ p \in entry[g] =>
                       age[p] <= PassTime + MaxSkips + 1 + passAge[g]

BuildersProtected == \A p \in Proc : pc[p] \in {"mkdirs", "building"} => Protected(p)

--------------------------------------------------------------------------------
(* The common part *)

\* Every step keeps the shape of the state.
LEMMA TypeInvStep ==
  ASSUME TypeInv, [Next]_vars
  PROVE  TypeInv'
<1> USE ProcessAssumption, TimingAssumption
       DEF TypeInv, Stages, Collecting, Building, Over, GoTo, beats, passes
<1>1. ASSUME NEW p \in Proc,
             CollectStep(p) \/ BuildStep(p) \/ Launch(p) \/ Kill(p) \/ Exit(p)
      PROVE  TypeInv'
  <2>1. CASE ReadBeat(p)  BY <2>1 DEF ReadBeat, Live
  <2>2. CASE DropBeat(p)  BY <2>2 DEF DropBeat
  <2>3. CASE List(p)  BY <2>3 DEF List
  <2>4. CASE Check(p)  BY <2>4 DEF Check, OldEnough, PidAlive
  <2>5. CASE Remove(p)  BY <2>5 DEF Remove, SetDir
  <2>6. CASE NextRoot(p)  BY <2>6 DEF NextRoot, LastRoot
  <2>7. CASE \E q \in Proc : Scan(p, q)  BY <2>7 DEF Scan, Live
  <2>8. CASE Lock(p)  BY <2>8 DEF Lock
  <2>9. CASE StartBeat(p)  BY <2>9 DEF StartBeat, NothingOwed
  <2>10. CASE MakeDirs(p)  BY <2>10 DEF MakeDirs
  <2>11. CASE BeginBeat(p)  BY <2>11 DEF BeginBeat
  <2>12. CASE EndBeat(p)  BY <2>12 DEF EndBeat, NothingOwed
  <2>13. CASE MakeDirsFails(p)  BY <2>13 DEF MakeDirsFails, SetDir
  <2>14. CASE BuildFails(p)  BY <2>14 DEF BuildFails, SetDir
  <2>15. CASE Publish(p)  BY <2>15 DEF Publish, SetDir
  <2>16. CASE DropWork(p)  BY <2>16 DEF DropWork, SetDir
  <2>17. CASE EmptyTrash(p)  BY <2>17 DEF EmptyTrash, SetDir, Running
  <2>18. CASE CloseBeat(p)  BY <2>18 DEF CloseBeat, TickerIdle
  <2>19. CASE Launch(p)  BY <2>19 DEF Launch, Abandoned, Running
  <2>20. CASE Kill(p)  BY <2>20 DEF Kill, Running
  <2>21. CASE Exit(p)  BY <2>21 DEF Exit
  <2>22. QED
    BY <1>1, <2>1, <2>2, <2>3, <2>4, <2>5, <2>6, <2>7, <2>8, <2>9, <2>10, <2>11,
       <2>12, <2>13, <2>14, <2>15, <2>16, <2>17, <2>18, <2>19, <2>20,
       <2>21
    DEF CollectStep, BuildStep
<1>2. CASE Tick  BY <1>2 DEF Tick, Older
<1>3. CASE UNCHANGED vars  BY <1>3 DEF vars
<1>4. QED  BY <1>1, <1>2, <1>3 DEF Next

\* Every step keeps the life cycle.
LEMMA LifecycleStep ==
  ASSUME TypeInv, Lifecycle, [Next]_vars
  PROVE  Lifecycle'
<1> USE ProcessAssumption, TimingAssumption
       DEF TypeInv, Lifecycle, Early, Beating, Stages, Collecting, Building, Over, GoTo,
           beats, passes
<1>1. ASSUME NEW p \in Proc,
             CollectStep(p) \/ BuildStep(p) \/ Launch(p) \/ Kill(p) \/ Exit(p)
      PROVE  Lifecycle'
  <2>1. CASE ReadBeat(p)  BY <2>1 DEF ReadBeat, Live
  <2>2. CASE DropBeat(p)  BY <2>2 DEF DropBeat
  <2>3. CASE List(p)  BY <2>3 DEF List
  <2>4. CASE Check(p)  BY <2>4 DEF Check, OldEnough, PidAlive
  <2>5. CASE Remove(p)  BY <2>5 DEF Remove, SetDir
  <2>6. CASE NextRoot(p)  BY <2>6 DEF NextRoot, LastRoot
  <2>7. CASE \E q \in Proc : Scan(p, q)  BY <2>7 DEF Scan, Live
  <2>8. CASE Lock(p)  BY <2>8 DEF Lock
  <2>9. CASE StartBeat(p)  BY <2>9 DEF StartBeat, NothingOwed
  <2>10. CASE MakeDirs(p)  BY <2>10 DEF MakeDirs
  <2>11. CASE BeginBeat(p)  BY <2>11 DEF BeginBeat
  <2>12. CASE EndBeat(p)  BY <2>12 DEF EndBeat, NothingOwed
  <2>13. CASE MakeDirsFails(p)  BY <2>13 DEF MakeDirsFails, SetDir
  <2>14. CASE BuildFails(p)
    <3>1. /\ pc[p] = "building" /\ pc' = [pc EXCEPT ![p] = "closeFailed"]
          /\ \A q \in Proc \ {p} : dir'[q] = dir[q] /\ age'[q] = age[q]
          /\ dir'[p] = {} => age'[p] = 0
          /\ UNCHANGED <<ticking, writing, heart>>
      BY <2>14 DEF BuildFails, SetDir
    <3>2. QED  BY <3>1
  <2>15. CASE Publish(p)
    <3>1. /\ pc[p] = "building" /\ pc' = [pc EXCEPT ![p] = "published"]
          /\ \A q \in Proc \ {p} : dir'[q] = dir[q] /\ age'[q] = age[q]
          /\ dir'[p] = {} => age'[p] = 0
          /\ UNCHANGED <<ticking, writing, heart>>
      BY <2>15 DEF Publish, SetDir
    <3>2. QED  BY <3>1
  <2>16. CASE DropWork(p)  BY <2>16 DEF DropWork, SetDir
  <2>17. CASE EmptyTrash(p)  BY <2>17 DEF EmptyTrash, SetDir, Running
  <2>18. CASE CloseBeat(p)  BY <2>18 DEF CloseBeat, TickerIdle
  <2>19. CASE Launch(p)  BY <2>19 DEF Launch, Abandoned, Running
  <2>20. CASE Kill(p)  BY <2>20 DEF Kill, Running
  <2>21. CASE Exit(p)  BY <2>21 DEF Exit
  <2>22. QED
    BY <1>1, <2>1, <2>2, <2>3, <2>4, <2>5, <2>6, <2>7, <2>8, <2>9, <2>10, <2>11,
       <2>12, <2>13, <2>14, <2>15, <2>16, <2>17, <2>18, <2>19, <2>20,
       <2>21
    DEF CollectStep, BuildStep
<1>2. CASE Tick
  <2>1. /\ UNCHANGED <<pc, dir, ticking, writing, heart>>
        /\ \A p \in Proc : dir[p] = {} => age'[p] = 0
    BY <1>2 DEF Tick
  <2>2. QED  BY ONLY <2>1, Lifecycle DEF Lifecycle
<1>3. CASE UNCHANGED vars
  <2>1. UNCHANGED <<pc, dir, age, ticking, writing, heart>>  BY <1>3 DEF vars
  <2>2. QED  BY ONLY <2>1, Lifecycle DEF Lifecycle
<1>4. QED  BY <1>1, <1>2, <1>3 DEF Next

--------------------------------------------------------------------------------
(* Removals *)

\* A process that builds no more never builds again, so what was dead when it was
\* chosen is dead when it is removed.
LEMMA RemovesDeadStep ==
  ASSUME TypeInv, Lifecycle, RemovesDead, ChoosesNoBuilder, [Next]_vars
  PROVE  RemovesDead'
<1> USE DEF TypeInv, RemovesDead, Lifecycle, Early, Beating, Stages, Collecting, Building, Over, GoTo,
           beats, passes
<1>1. ASSUME NEW p \in Proc,
             CollectStep(p) \/ BuildStep(p) \/ Launch(p) \/ Kill(p) \/ Exit(p)
      PROVE  RemovesDead'
  <2>1. CASE ReadBeat(p)  BY <2>1 DEF ReadBeat, Live
  <2>2. CASE DropBeat(p)  BY <2>2 DEF DropBeat
  <2>3. CASE List(p)  BY <2>3 DEF List
  <2>4. CASE Check(p)  BY <2>4 DEF Check, ChoosesNoBuilder
  <2>5. CASE Remove(p)  BY <2>5 DEF Remove, SetDir
  <2>6. CASE NextRoot(p)  BY <2>6 DEF NextRoot, LastRoot
  <2>7. CASE \E q \in Proc : Scan(p, q)  BY <2>7 DEF Scan, Live
  <2>8. CASE Lock(p)  BY <2>8 DEF Lock
  <2>9. CASE StartBeat(p)  BY <2>9 DEF StartBeat, NothingOwed
  <2>10. CASE MakeDirs(p)  BY <2>10 DEF MakeDirs
  <2>11. CASE BeginBeat(p)  BY <2>11 DEF BeginBeat
  <2>12. CASE EndBeat(p)  BY <2>12 DEF EndBeat, NothingOwed
  <2>13. CASE MakeDirsFails(p)  BY <2>13 DEF MakeDirsFails, SetDir
  <2>14. CASE BuildFails(p)  BY <2>14 DEF BuildFails, SetDir
  <2>15. CASE Publish(p)  BY <2>15 DEF Publish, SetDir
  <2>16. CASE DropWork(p)  BY <2>16 DEF DropWork, SetDir
  <2>17. CASE EmptyTrash(p)  BY <2>17 DEF EmptyTrash, SetDir, Running
  <2>18. CASE CloseBeat(p)  BY <2>18 DEF CloseBeat, TickerIdle
  <2>19. CASE Launch(p)  BY <2>19 DEF Launch, Running
  <2>20. CASE Kill(p)  BY <2>20 DEF Kill, Running
  <2>21. CASE Exit(p)  BY <2>21 DEF Exit
  <2>22. QED
    BY <1>1, <2>1, <2>2, <2>3, <2>4, <2>5, <2>6, <2>7, <2>8, <2>9, <2>10, <2>11,
       <2>12, <2>13, <2>14, <2>15, <2>16, <2>17, <2>18, <2>19, <2>20,
       <2>21
    DEF CollectStep, BuildStep
<1>2. CASE Tick  BY <1>2 DEF Tick, Older
<1>3. CASE UNCHANGED vars  BY <1>3 DEF vars
<1>4. QED  BY <1>1, <1>2, <1>3 DEF Next

\* In one PID namespace a builder is alive to every collector.
LEMMA OneHostChooses ==
  ASSUME TypeInv, OneHost
  PROVE  ChoosesNoBuilder
BY DEF TypeInv, OneHost, ChoosesNoBuilder, PidAlive, Running, Over

\* A builder that is protected is too young to be chosen.
LEMMA ProtectedChooses ==
  ASSUME TypeInv, BuildersProtected
  PROVE  ChoosesNoBuilder
BY TimingAssumption
DEF TypeInv, BuildersProtected, Protected, ChoosesNoBuilder, OldEnough

\* Beats keep builders protected, whatever stale decisions collectors act on.
LEMMA ProtectedStep ==
  ASSUME TypeInv, Lifecycle, BuildersProtected, BeatsGetThrough, [Next]_vars
  PROVE  BuildersProtected'
<1> USE ProcessAssumption, TimingAssumption
       DEF BuildersProtected, Protected, BeatsGetThrough,
           TypeInv, Lifecycle, Early, Beating, Stages, Collecting, Building, Over, GoTo, beats, passes
<1>1. ASSUME NEW p \in Proc,
             CollectStep(p) \/ BuildStep(p) \/ Launch(p) \/ Kill(p) \/ Exit(p)
      PROVE  BuildersProtected'
  <2>1. CASE ReadBeat(p)  BY <2>1 DEF ReadBeat, Live
  <2>2. CASE DropBeat(p)  BY <2>2 DEF DropBeat
  <2>3. CASE List(p)  BY <2>3 DEF List
  <2>4. CASE Check(p)  BY <2>4 DEF Check, OldEnough
  <2>5. CASE Remove(p)  BY <2>5 DEF Remove, SetDir
  <2>6. CASE NextRoot(p)  BY <2>6 DEF NextRoot, LastRoot
  <2>7. CASE \E q \in Proc : Scan(p, q)  BY <2>7 DEF Scan, Live
  <2>8. CASE Lock(p)  BY <2>8 DEF Lock
  <2>9. CASE StartBeat(p)  BY <2>9 DEF StartBeat, NothingOwed
  <2>10. CASE MakeDirs(p)  BY <2>10 DEF MakeDirs
  <2>11. CASE BeginBeat(p)  BY <2>11 DEF BeginBeat
  <2>12. CASE EndBeat(p)  BY <2>12 DEF EndBeat, NothingOwed
  <2>13. CASE MakeDirsFails(p)  BY <2>13 DEF MakeDirsFails, SetDir
  <2>14. CASE BuildFails(p)  BY <2>14 DEF BuildFails, SetDir
  <2>15. CASE Publish(p)  BY <2>15 DEF Publish, SetDir
  <2>16. CASE DropWork(p)  BY <2>16 DEF DropWork, SetDir
  <2>17. CASE EmptyTrash(p)  BY <2>17 DEF EmptyTrash, SetDir, Running
  <2>18. CASE CloseBeat(p)  BY <2>18 DEF CloseBeat, TickerIdle
  <2>19. CASE Launch(p)  BY <2>19 DEF Launch, Running
  <2>20. CASE Kill(p)  BY <2>20 DEF Kill, Running
  <2>21. CASE Exit(p)  BY <2>21 DEF Exit
  <2>22. QED
    BY <1>1, <2>1, <2>2, <2>3, <2>4, <2>5, <2>6, <2>7, <2>8, <2>9, <2>10, <2>11,
       <2>12, <2>13, <2>14, <2>15, <2>16, <2>17, <2>18, <2>19, <2>20,
       <2>21
    DEF CollectStep, BuildStep
<1>2. CASE Tick  BY <1>2 DEF Tick, Older
<1>3. CASE UNCHANGED vars  BY <1>3 DEF vars
<1>4. QED  BY <1>1, <1>2, <1>3 DEF Next

\* What a step may do to a builder's directories, given what is about to be removed.
LEMMA SparedStep ==
  ASSUME TypeInv, Lifecycle, RemovesDead, [Next]_vars,
         NEW b \in Proc, pc[b] = "building", pc'[b] = "building"
  PROVE  dir'[b] = dir[b]
<1> USE DEF TypeInv, Lifecycle, RemovesDead, Building, GoTo
<1>1. ASSUME NEW p \in Proc,
             CollectStep(p) \/ BuildStep(p) \/ Launch(p) \/ Kill(p) \/ Exit(p)
      PROVE  dir'[b] = dir[b]
  <2>1. CASE Remove(p)  BY <2>1 DEF Remove, SetDir
  <2>2. CASE MakeDirs(p)  BY <2>2 DEF MakeDirs
  <2>3. CASE MakeDirsFails(p)  BY <2>3 DEF MakeDirsFails, SetDir
  <2>4. CASE BuildFails(p)  BY <2>4 DEF BuildFails, SetDir
  <2>5. CASE Publish(p)  BY <2>5 DEF Publish, SetDir
  <2>6. CASE DropWork(p)  BY <2>6 DEF DropWork, SetDir
  <2>7. CASE EmptyTrash(p)  BY <2>7 DEF EmptyTrash, SetDir
  <2>8. CASE \/ ReadBeat(p) \/ DropBeat(p) \/ List(p) \/ Check(p) \/ NextRoot(p)
             \/ \E q \in Proc : Scan(p, q)
             \/ Lock(p) \/ StartBeat(p) \/ BeginBeat(p) \/ EndBeat(p) \/ CloseBeat(p)
             \/ Launch(p) \/ Kill(p) \/ Exit(p)
    BY <2>8 DEF ReadBeat, DropBeat, List, Check, NextRoot, Scan, Lock, StartBeat,
       BeginBeat, EndBeat, CloseBeat, Launch, Kill, Exit
  <2>9. QED
    BY <1>1, <2>1, <2>2, <2>3, <2>4, <2>5, <2>6, <2>7, <2>8 DEF CollectStep, BuildStep
<1>2. CASE Tick  BY <1>2 DEF Tick
<1>3. CASE UNCHANGED vars  BY <1>3 DEF vars
<1>4. QED  BY <1>1, <1>2, <1>3 DEF Next

--------------------------------------------------------------------------------
(* Theorems *)

Base == TypeInv /\ Lifecycle

LEMMA InitBase == ASSUME Init PROVE Base /\ RemovesDead /\ BuildersProtected
<1> USE ProcessAssumption, TimingAssumption DEF Init
<1>1. TypeInv  BY DEF TypeInv, Stages
<1>2. Lifecycle  BY DEF Lifecycle, Beating, Building
<1>3. RemovesDead /\ BuildersProtected  BY DEF RemovesDead, BuildersProtected
<1>4. QED  BY <1>1, <1>2, <1>3 DEF Base

LEMMA AlwaysBase == Spec => []Base
<1>1. Init => Base  BY InitBase
<1>2. Base /\ [Next]_vars => Base'  BY TypeInvStep, LifecycleStep DEF Base
<1>3. QED  BY <1>1, <1>2, PTL DEF Spec

\* Every variable has its type, and the file holds at most one beat.
THEOREM TypeCorrect == Spec => []TypeOK
<1>1. Base => TypeOK
  <2>1. SUFFICES ASSUME Base PROVE Cardinality(heart) <= 1
    BY DEF Base, TypeInv, Lifecycle, TypeOK
  <2>2. CASE heart = {}  BY <2>2, FS_EmptySet
  <2>3. CASE \E p \in Proc : heart = {p}  BY <2>3, FS_Singleton
  <2>4. QED  BY <2>1, <2>2, <2>3 DEF Base, TypeInv
<1>2. QED  BY <1>1, AlwaysBase, PTL

\* A heartbeat outlives only a build that was killed: beat.close waits for the
\* ticker before it removes the file.
THEOREM HeartbeatsAreRetracted == Spec => []NoGhostHeartbeat
<1>1. Base => NoGhostHeartbeat
  BY DEF Base, Lifecycle, NoGhostHeartbeat, Beating
<1>2. QED  BY <1>1, AlwaysBase, PTL

\* In one PID namespace the pid alone spares a live build, whatever happens to
\* its heartbeats and however long a pass takes.
THEOREM SparedOnOneHost ==
  ASSUME OneHost
  PROVE  Spec => LiveScratchSpared
<1>1. Init => RemovesDead  BY InitBase
<1>2. Base /\ RemovesDead /\ [Next]_vars => RemovesDead'
  BY OneHost, OneHostChooses, RemovesDeadStep DEF Base
<1>3. Base /\ RemovesDead /\ [Next]_vars =>
        [\A p \in Proc :
           pc[p] = "building" /\ pc'[p] = "building" => dir'[p] = dir[p] \/ LostToStranger(p)]_vars
  BY SparedStep DEF Base
<1>4. QED  BY <1>1, <1>2, <1>3, AlwaysBase, PTL DEF Spec, LiveScratchSpared

\* Between PID namespaces a live build is spared because its beats get through and
\* are late by less than a heartbeat's life, and because StaleAge exceeds two passes
\* and such a delay: the time in which a stale look at an older beat can hurt it.
THEOREM SparedByHeartbeat ==
  ASSUME BeatsGetThrough
  PROVE  Spec => LiveScratchSpared
<1>1. Init => RemovesDead /\ BuildersProtected  BY InitBase
<1>2. Base /\ BuildersProtected /\ [Next]_vars => BuildersProtected'
  BY BeatsGetThrough, ProtectedStep DEF Base
<1>3. Base /\ BuildersProtected /\ RemovesDead /\ [Next]_vars => RemovesDead'
  BY ProtectedChooses, RemovesDeadStep DEF Base
<1>4. Base /\ RemovesDead /\ [Next]_vars =>
        [\A p \in Proc :
           pc[p] = "building" /\ pc'[p] = "building" => dir'[p] = dir[p] \/ LostToStranger(p)]_vars
  BY SparedStep DEF Base
<1>5. QED  BY <1>1, <1>2, <1>3, <1>4, AlwaysBase, PTL DEF Spec, LiveScratchSpared

--------------------------------------------------------------------------------
(* A pass collects what was abandoned. What a pass owes stays dead to it until *)
(* its turn comes, since a process that turns up settles all debts, and its    *)
(* turn does come, under the one root and then under the other.                *)

\* The pass of g has still to come to the directory of p under r.
Ahead(g, p, r) ==
  \/ r = ".staging" /\ root[g] = "work"
  \/ root[g] = r /\ (pc[g] \in {"readBeat", "dropBeat", "list"} \/ p \in todo[g] \cup entry[g])

Debt(g, p, r) ==
  <<p, r>> \in owed[g] =>
    /\ ~Running(p)
    /\ r \in dir[p] => pc[g] \in Collecting /\ DeadTo(g, p) /\ Ahead(g, p, r)

\* A pass starts with work/ and looks at one entry at a time.
PassInOrder ==
  \A g \in Proc :
    /\ pc[g] \in {"unborn", "readBeat", "dropBeat"} => root[g] = "work"
    /\ pc[g] \notin {"check", "remove"} => entry[g] = {}
    /\ \A p, q \in entry[g] : p = q

DebtsAreAhead == PassInOrder /\ \A g, p \in Proc, r \in {"work", ".staging"} : Debt(g, p, r)

\* Every step keeps the order of a pass.
LEMMA PassInOrderStep ==
  ASSUME TypeInv, PassInOrder, [Next]_vars
  PROVE  PassInOrder'
<1> USE DEF TypeInv, PassInOrder, Stages, Collecting, Building, Over, GoTo, beats, passes
<1>1. ASSUME NEW p \in Proc,
             CollectStep(p) \/ BuildStep(p) \/ Launch(p) \/ Kill(p) \/ Exit(p)
      PROVE  PassInOrder'
  <2>1. CASE ReadBeat(p)  BY <2>1 DEF ReadBeat, Live
  <2>2. CASE DropBeat(p)  BY <2>2 DEF DropBeat
  <2>3. CASE List(p)  BY <2>3 DEF List
  <2>4. CASE Check(p)  BY <2>4 DEF Check, OldEnough, PidAlive
  <2>5. CASE Remove(p)  BY <2>5 DEF Remove, SetDir
  <2>6. CASE NextRoot(p)  BY <2>6 DEF NextRoot, LastRoot
  <2>7. CASE \E q \in Proc : Scan(p, q)  BY <2>7 DEF Scan, Live
  <2>8. CASE Lock(p)  BY <2>8 DEF Lock
  <2>9. CASE StartBeat(p)  BY <2>9 DEF StartBeat
  <2>10. CASE MakeDirs(p)  BY <2>10 DEF MakeDirs
  <2>11. CASE BeginBeat(p)  BY <2>11 DEF BeginBeat
  <2>12. CASE EndBeat(p)  BY <2>12 DEF EndBeat
  <2>13. CASE MakeDirsFails(p)  BY <2>13 DEF MakeDirsFails
  <2>14. CASE BuildFails(p)  BY <2>14 DEF BuildFails
  <2>15. CASE Publish(p)  BY <2>15 DEF Publish
  <2>16. CASE DropWork(p)  BY <2>16 DEF DropWork
  <2>17. CASE EmptyTrash(p)  BY <2>17 DEF EmptyTrash
  <2>18. CASE CloseBeat(p)  BY <2>18 DEF CloseBeat
  <2>19. CASE Launch(p)  BY <2>19 DEF Launch
  <2>20. CASE Kill(p)  BY <2>20 DEF Kill
  <2>21. CASE Exit(p)  BY <2>21 DEF Exit
  <2>22. QED
    BY <1>1, <2>1, <2>2, <2>3, <2>4, <2>5, <2>6, <2>7, <2>8, <2>9, <2>10, <2>11,
       <2>12, <2>13, <2>14, <2>15, <2>16, <2>17, <2>18, <2>19, <2>20,
       <2>21
    DEF CollectStep, BuildStep
<1>2. CASE Tick  BY <1>2 DEF Tick
<1>3. CASE UNCHANGED vars  BY <1>3 DEF vars
<1>4. QED  BY <1>1, <1>2, <1>3 DEF Next

\* What is dead to a collector stays so while nobody starts and no beat is written.
LEMMA DeadStays ==
  ASSUME TypeInv, NEW g \in Proc, NEW p \in Proc, DeadTo(g, p),
         \A q \in Proc : Running(q)' => Running(q),
         heart' = {} \/ (heart' = heart /\ heartAge' >= heartAge), heartAge' \in Nat,
         age'[p] >= age[p], age'[p] \in Nat
  PROVE  DeadTo(g, p)'
<1>1. \A q : PidAlive(g, q)' => PidAlive(g, q)
  BY DEF PidAlive
<1>2. heart' = {} \/ heartAge' >= LiveFor
  BY TimingAssumption DEF DeadTo, TypeInv
<1>3. age'[p] >= StaleAge
  BY TimingAssumption DEF DeadTo, TypeInv
<1>4. QED  BY <1>1, <1>2, <1>3 DEF DeadTo

\* A step that starts nobody and after which p still owes, in the books of g, made
\* nobody run, brought no tree back and no beat.
NothingRevives(g, p, r) ==
  /\ <<p, r>> \in owed[g]
  /\ \A q \in Proc : Running(q)' => Running(q)
  /\ (r \in dir[p])' => r \in dir[p] /\ age'[p] >= age[p]
  /\ heart' = {} \/ (heart' = heart /\ heartAge' >= heartAge)

LEMMA NothingRevivesStep ==
  ASSUME TypeInv, [Next]_vars, \A q \in Proc : ~Launch(q),
         NEW g \in Proc, NEW p \in Proc, NEW r \in {"work", ".staging"},
         (<<p, r>> \in owed[g])', <<p, r>> \in owed[g] => ~Running(p)
  PROVE  NothingRevives(g, p, r)
<1> USE TimingAssumption DEF TypeInv, NothingRevives, Running, Over, Collecting, Building, GoTo, beats, passes
<1>1. ASSUME NEW q \in Proc, CollectStep(q) \/ BuildStep(q) \/ Kill(q) \/ Exit(q)
      PROVE  NothingRevives(g, p, r)
  <2>1. CASE ReadBeat(q)  BY <2>1 DEF ReadBeat
  <2>2. CASE DropBeat(q)
    <3>1. heart' = {} /\ owed' = owed /\ dir' = dir /\ age' = age
      BY <2>2 DEF DropBeat
    <3>2. \A x \in Proc : Running(x)' => Running(x)
      BY <2>2 DEF DropBeat
    <3>3. QED  BY <3>1, <3>2
  <2>3. CASE List(q)  BY <2>3 DEF List
  <2>4. CASE Check(q)  BY <2>4 DEF Check
  <2>5. CASE Remove(q)  BY <2>5 DEF Remove, SetDir
  <2>6. CASE NextRoot(q)  BY <2>6 DEF NextRoot, LastRoot
  <2>7. CASE \E x \in Proc : Scan(q, x)  BY <2>7 DEF Scan
  <2>8. CASE Lock(q)  BY <2>8 DEF Lock
  <2>9. CASE StartBeat(q)  BY <2>9 DEF StartBeat, NothingOwed
  <2>10. CASE MakeDirs(q)  BY <2>10 DEF MakeDirs
  <2>11. CASE BeginBeat(q)  BY <2>11 DEF BeginBeat
  <2>12. CASE EndBeat(q)  BY <2>12 DEF EndBeat, NothingOwed
  <2>13. CASE MakeDirsFails(q)  BY <2>13 DEF MakeDirsFails, SetDir
  <2>14. CASE BuildFails(q)  BY <2>14 DEF BuildFails, SetDir
  <2>15. CASE Publish(q)  BY <2>15 DEF Publish, SetDir
  <2>16. CASE DropWork(q)  BY <2>16 DEF DropWork, SetDir
  <2>17. CASE EmptyTrash(q)  BY <2>17 DEF EmptyTrash, SetDir
  <2>18. CASE CloseBeat(q)
    <3>1. heart' = {} /\ owed' = owed /\ dir' = dir /\ age' = age
      BY <2>18 DEF CloseBeat
    <3>2. \A x \in Proc : Running(x)' => Running(x)
      BY <2>18 DEF CloseBeat
    <3>3. QED  BY <3>1, <3>2
  <2>19. CASE Kill(q)  BY <2>19 DEF Kill
  <2>20. CASE Exit(q)  BY <2>20 DEF Exit
  <2>21. QED
    BY <1>1, <2>1, <2>2, <2>3, <2>4, <2>5, <2>6, <2>7, <2>8, <2>9, <2>10, <2>11,
       <2>12, <2>13, <2>14, <2>15, <2>16, <2>17, <2>18, <2>19, <2>20
    DEF CollectStep, BuildStep
<1>2. CASE Tick
  <2>1. heart' = heart /\ owed' = owed /\ dir' = dir /\ pc' = pc
    BY <1>2 DEF Tick
  <2>2. heart = {} \/ heartAge' >= heartAge
    BY <1>2 DEF Tick, Older
  <2>3. r \in dir[p] => age'[p] >= age[p]
    BY <1>2 DEF Tick, Older
  <2>4. QED  BY <2>1, <2>2, <2>3
<1>3. CASE UNCHANGED vars  BY <1>3 DEF vars
<1>4. QED  BY <1>1, <1>2, <1>3 DEF Next

\* The pass of g goes on: what lies ahead of it does so until it is collected.
LEMMA AheadStep ==
  ASSUME TypeInv, PassInOrder, [Next]_vars, \A q \in Proc : ~Launch(q),
         NEW g \in Proc, NEW p \in Proc, NEW r \in {"work", ".staging"},
         (<<p, r>> \in owed[g])', r \in dir[p], (r \in dir[p])',
         pc[g] \in Collecting, DeadTo(g, p), Ahead(g, p, r)
  PROVE  (pc[g] \in Collecting)' /\ Ahead(g, p, r)'
<1> USE DEF TypeInv, PassInOrder, Collecting, Building, Ahead, GoTo, beats, passes
<1>1. ASSUME NEW q \in Proc, CollectStep(q) \/ BuildStep(q) \/ Kill(q) \/ Exit(q)
      PROVE  (pc[g] \in Collecting)' /\ Ahead(g, p, r)'
  <2>1. CASE ReadBeat(q)  BY <2>1 DEF ReadBeat
  <2>2. CASE DropBeat(q)  BY <2>2 DEF DropBeat
  <2>3. CASE List(q)  BY <2>3 DEF List
  <2>4. CASE Check(q)  BY <2>4 DEF Check, DeadTo, OldEnough
  <2>5. CASE Remove(q)  BY <2>5 DEF Remove, SetDir
  <2>6. CASE NextRoot(q)  BY <2>6 DEF NextRoot, LastRoot
  <2>7. CASE \E x \in Proc : Scan(q, x)
    <3>1. PICK x \in Proc : Scan(q, x)
      BY <2>7
    <3>2. CASE q # g  BY <3>1, <3>2 DEF Scan
    <3>3. CASE q = g
      <4>1. ~Live(g)
        BY TimingAssumption DEF DeadTo, Live
      <4>2. QED  BY <3>1, <3>3, <4>1 DEF Scan
    <3>4. QED  BY <3>2, <3>3
  <2>8. CASE Lock(q)  BY <2>8 DEF Lock
  <2>9. CASE StartBeat(q)  BY <2>9 DEF StartBeat, NothingOwed
  <2>10. CASE MakeDirs(q)  BY <2>10 DEF MakeDirs
  <2>11. CASE BeginBeat(q)  BY <2>11 DEF BeginBeat
  <2>12. CASE EndBeat(q)  BY <2>12 DEF EndBeat, NothingOwed
  <2>13. CASE MakeDirsFails(q)  BY <2>13 DEF MakeDirsFails, SetDir
  <2>14. CASE BuildFails(q)  BY <2>14 DEF BuildFails, SetDir
  <2>15. CASE Publish(q)  BY <2>15 DEF Publish, SetDir
  <2>16. CASE DropWork(q)  BY <2>16 DEF DropWork, SetDir
  <2>17. CASE EmptyTrash(q)  BY <2>17 DEF EmptyTrash, SetDir
  <2>18. CASE CloseBeat(q)  BY <2>18 DEF CloseBeat
  <2>19. CASE Kill(q)  BY <2>19 DEF Kill, Running
  <2>20. CASE Exit(q)  BY <2>20 DEF Exit
  <2>21. QED
    BY <1>1, <2>1, <2>2, <2>3, <2>4, <2>5, <2>6, <2>7, <2>8, <2>9, <2>10, <2>11,
       <2>12, <2>13, <2>14, <2>15, <2>16, <2>17, <2>18, <2>19, <2>20
    DEF CollectStep, BuildStep
<1>2. CASE Tick  BY <1>2 DEF Tick
<1>3. CASE UNCHANGED vars  BY <1>3 DEF vars
<1>4. QED  BY <1>1, <1>2, <1>3 DEF Next

\* A debt is kept, or everything is settled.
LEMMA DebtStep ==
  ASSUME TypeInv, Lifecycle, DebtsAreAhead, [Next]_vars,
         NEW g \in Proc, NEW p \in Proc, NEW r \in {"work", ".staging"}
  PROVE  Debt(g, p, r)'
<1> SUFFICES ASSUME (<<p, r>> \in owed[g])'
             PROVE  ~Running(p)' /\ ((r \in dir[p])' =>
                       (pc[g] \in Collecting)' /\ DeadTo(g, p)' /\ Ahead(g, p, r)')
  BY DEF Debt
<1> USE DEF TypeInv, GoTo
<1>1. TypeInv' /\ PassInOrder'  BY TypeInvStep, PassInOrderStep DEF DebtsAreAhead
<1>2. ASSUME NEW q \in Proc, Launch(q)
      PROVE  ~Running(p)' /\ ((r \in dir[p])' =>
                (pc[g] \in Collecting)' /\ DeadTo(g, p)' /\ Ahead(g, p, r)')
  <2>1. g = q /\ <<p, r>> \in Abandoned(q)
    BY <1>2 DEF Launch
  <2>2. DeadTo(g, p)
    BY <2>1 DEF Abandoned
  <2>3. p # g /\ ~Running(p)'
    BY <1>2, <2>1, <2>2 DEF DeadTo, Launch, Running, Over
  <2>4. \A x \in {p} \cup heart : ~PidAlive(g, x)'
    BY <1>2, <2>1, <2>2 DEF DeadTo, PidAlive, Launch, Running, Over
  <2>5. DeadTo(g, p)'
    <3>1. UNCHANGED <<age, heart, heartAge>>
      BY <1>2 DEF Launch, beats
    <3>2. \A x \in {p} \cup heart : Pid[x] # Pid[g]
      BY <2>2 DEF DeadTo
    <3>3. QED  BY <2>2, <2>3, <2>4, <3>1, <3>2 DEF DeadTo
  <2>6. pc'[g] = "readBeat" /\ root'[g] = "work"
    BY <1>2, <2>1 DEF Launch, DebtsAreAhead, PassInOrder
  <2>7. QED  BY <2>3, <2>5, <2>6 DEF Ahead, Collecting
<1>3. ASSUME \A q \in Proc : ~Launch(q)
      PROVE  ~Running(p)' /\ ((r \in dir[p])' =>
                (pc[g] \in Collecting)' /\ DeadTo(g, p)' /\ Ahead(g, p, r)')
  <2>1. <<p, r>> \in owed[g] => ~Running(p)
    BY DEF DebtsAreAhead, Debt
  <2>2. NothingRevives(g, p, r)
    BY <1>3, <2>1, NothingRevivesStep
  <2>3. ~Running(p) /\ (r \in dir[p] => pc[g] \in Collecting /\ DeadTo(g, p) /\ Ahead(g, p, r))
    BY <2>2 DEF DebtsAreAhead, Debt, NothingRevives
  <2>4. ASSUME (r \in dir[p])'
        PROVE  (pc[g] \in Collecting)' /\ DeadTo(g, p)' /\ Ahead(g, p, r)'
    <3>1. r \in dir[p]
      BY <2>2, <2>4 DEF NothingRevives
    <3>2. DeadTo(g, p)'
      BY <1>1, <2>2, <2>3, <2>4, <3>1, DeadStays, TimingAssumption DEF NothingRevives
    <3>3. QED  BY <1>3, <2>3, <2>4, <3>1, <3>2, AheadStep DEF DebtsAreAhead
  <2>5. QED  BY <2>2, <2>3, <2>4 DEF NothingRevives
<1>4. QED  BY <1>2, <1>3

\* Only NextRoot ends a pass.
LEMMA EndOfPass ==
  ASSUME TypeInv, [Next]_vars, NEW g \in Proc, PassEnds(g)
  PROVE  NextRoot(g)
<1> USE DEF TypeInv, PassEnds, Collecting, Building, Over, GoTo, beats, passes
<1>1. ASSUME NEW q \in Proc, CollectStep(q) \/ BuildStep(q) \/ Launch(q) \/ Kill(q) \/ Exit(q)
      PROVE  NextRoot(g)
  <2>1. CASE ReadBeat(q)  BY <2>1 DEF ReadBeat
  <2>2. CASE DropBeat(q)  BY <2>2 DEF DropBeat
  <2>3. CASE List(q)  BY <2>3 DEF List
  <2>4. CASE Check(q)  BY <2>4 DEF Check
  <2>5. CASE Remove(q)  BY <2>5 DEF Remove
  <2>6. CASE NextRoot(q)  BY <2>6 DEF NextRoot
  <2>7. CASE \E x \in Proc : Scan(q, x)  BY <2>7 DEF Scan
  <2>8. CASE Lock(q)  BY <2>8 DEF Lock
  <2>9. CASE StartBeat(q)  BY <2>9 DEF StartBeat
  <2>10. CASE MakeDirs(q)  BY <2>10 DEF MakeDirs
  <2>11. CASE BeginBeat(q)  BY <2>11 DEF BeginBeat
  <2>12. CASE EndBeat(q)  BY <2>12 DEF EndBeat
  <2>13. CASE MakeDirsFails(q)  BY <2>13 DEF MakeDirsFails
  <2>14. CASE BuildFails(q)  BY <2>14 DEF BuildFails
  <2>15. CASE Publish(q)  BY <2>15 DEF Publish
  <2>16. CASE DropWork(q)  BY <2>16 DEF DropWork
  <2>17. CASE EmptyTrash(q)  BY <2>17 DEF EmptyTrash
  <2>18. CASE CloseBeat(q)  BY <2>18 DEF CloseBeat
  <2>19. CASE Kill(q)  BY <2>19 DEF Kill
  <2>20. CASE Exit(q)  BY <2>20 DEF Exit
  <2>21. CASE Launch(q)  BY <2>21 DEF Launch
  <2>22. QED
    BY <1>1, <2>1, <2>2, <2>3, <2>4, <2>5, <2>6, <2>7, <2>8, <2>9, <2>10, <2>11,
       <2>12, <2>13, <2>14, <2>15, <2>16, <2>17, <2>18, <2>19, <2>20, <2>21
    DEF CollectStep, BuildStep
<1>2. CASE Tick  BY <1>2 DEF Tick
<1>3. CASE UNCHANGED vars  BY <1>3 DEF vars
<1>4. QED  BY <1>1, <1>2, <1>3 DEF Next

\* A whole pass collects all that was abandoned when it started, unless a process
\* turned up meanwhile that may own it: whatever the processes do, and whoever else collects.
THEOREM PassesCollect == Spec => PassCollects
<1>1. Init => DebtsAreAhead
  BY DEF Init, DebtsAreAhead, PassInOrder, Debt
<1>2. Base /\ DebtsAreAhead /\ [Next]_vars => DebtsAreAhead'
  BY DebtStep, PassInOrderStep DEF Base, DebtsAreAhead
<1>3. Base /\ DebtsAreAhead /\ [Next]_vars =>
        [\A g \in Proc : PassEnds(g) =>
           \A p \in Proc, r \in {"work", ".staging"} :
             <<p, r>> \in owed[g] => r \notin dir[p]]_vars
  <2> SUFFICES ASSUME Base, DebtsAreAhead, [Next]_vars, NEW g \in Proc, PassEnds(g),
                      NEW p \in Proc, NEW r \in {"work", ".staging"}, <<p, r>> \in owed[g],
                      r \in dir[p]
               PROVE  FALSE
    OBVIOUS
  <2>1. Ahead(g, p, r)
    BY DEF DebtsAreAhead, Debt
  <2>2. pc[g] = "scan" /\ todo[g] = {} /\ root[g] = ".staging"
    BY EndOfPass DEF Base, TypeInv, PassEnds, NextRoot, LastRoot, GoTo
  <2>3. entry[g] = {}
    BY <2>2 DEF DebtsAreAhead, PassInOrder
  <2>4. QED  BY <2>1, <2>2, <2>3 DEF Ahead
<1>4. QED  BY <1>1, <1>2, <1>3, AlwaysBase, PTL DEF Spec, PassCollects

================================================================================
