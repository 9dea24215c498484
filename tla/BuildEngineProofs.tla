--------------------------- MODULE BuildEngineProofs ---------------------------
(***************************************************************************)
(* Theorems about BuildEngine for every set of processes, every acyclic    *)
(* job graph, every family of configurations and every bound: its types,   *)
(* the discipline of its locks, what its artifacts contain, how its runs   *)
(* end, and that it implements ArtifactStore.                              *)
(***************************************************************************)
EXTENDS BuildEngine, FiniteSetTheorems, TLAPS

--------------------------------------------------------------------------------
(* Type correctness *)

LEMMA InitShape == Init => ShapeOK
BY GraphAssumption, BoundsAssumption
DEF Init, ShapeOK, Stages, Errors, Running, Attempts

LEMMA GoToShape ==
  ASSUME pc \in [Proc -> [Job -> Stages]],
         NEW p \in Proc, NEW j \in Job, NEW s \in Stages, GoTo(p, j, s)
  PROVE  pc' \in [Proc -> [Job -> Stages]]
BY DEF GoTo

LEMMA BailShape ==
  ASSUME pc \in [Proc -> [Job -> Stages]], err \in [Proc -> [Job -> Errors]],
         NEW p \in Proc, NEW j \in Job, NEW e \in Errors, Bail(p, j, e)
  PROVE  pc' \in [Proc -> [Job -> Stages]] /\ err' \in [Proc -> [Job -> Errors]]
BY DEF Bail, Stages

LEMMA EnvironmentShape ==
  ASSUME NEW p \in Proc, ShapeOK, Environment(p)
  PROVE  ShapeOK'
<1> USE DEF ShapeOK, Stages, Errors, Running, Attempts, Bail, Fail,
            dist, runs, counters, At, ResetRun
<1>1. ASSUME NEW c \in Config, Launch(p, c) PROVE ShapeOK'
  <2>1. pc' \in [Proc -> [Job -> Stages]]  BY <1>1 DEF Launch
  <2>2. err' \in [Proc -> [Job -> Errors]]  BY <1>1 DEF Launch
  <2>3. tries' \in [Proc -> [Job -> 1..Attempts]]  BY <1>1 DEF Launch
  <2>4. got' = [q \in Proc |-> [i \in Job |-> got'[q][i]]]  BY <1>1 DEF Launch
  <2>5. launches' \in 0..MaxLaunches  BY <1>1, BoundsAssumption DEF Launch
  <2>6. /\ life' \in [Proc -> {"idle", Running, "ok", "failed", "canceled"}]
        /\ conf' \in [Proc -> Config]
        /\ interrupted' \in [Proc -> BOOLEAN] /\ cancelled' \in [Proc -> BOOLEAN]
        /\ firstErr' \in [Proc -> SUBSET Job] /\ slots' \in [Proc -> SUBSET Job]
    BY <1>1 DEF Launch
  <2>7. UNCHANGED <<dist, trash, crashes, signals, failures>>  BY <1>1 DEF Launch
  <2>8. QED  BY <2>1, <2>2, <2>3, <2>4, <2>5, <2>6, <2>7
<1>2. CASE Interrupt(p)  BY <1>2, BoundsAssumption DEF Interrupt
<1>3. CASE Crash(p)
  <2>1. pc' \in [Proc -> [Job -> Stages]]  BY <1>3 DEF Crash
  <2>2. err' \in [Proc -> [Job -> Errors]]  BY <1>3 DEF Crash
  <2>3. tries' \in [Proc -> [Job -> 1..Attempts]]  BY <1>3 DEF Crash
  <2>4. got' = [q \in Proc |-> [i \in Job |-> got'[q][i]]]  BY <1>3 DEF Crash
  <2>5. crashes' \in 0..MaxCrashes  BY <1>3, BoundsAssumption DEF Crash
  <2>6. /\ life' \in [Proc -> {"idle", Running, "ok", "failed", "canceled"}]
        /\ interrupted' \in [Proc -> BOOLEAN] /\ cancelled' \in [Proc -> BOOLEAN]
        /\ firstErr' \in [Proc -> SUBSET Job] /\ slots' \in [Proc -> SUBSET Job]
        /\ trash' \in [Proc -> SUBSET Job]
    BY <1>3 DEF Crash
  <2>7. excl' \in [Job -> SUBSET Proc]  BY <1>3 DEF Crash
  <2>8. shared' \in [Job -> SUBSET (Proc \X Job)]  BY <1>3 DEF Crash
  <2>9. UNCHANGED <<art, conf, launches, signals, failures>>  BY <1>3 DEF Crash
  <2>10. QED  BY <2>1, <2>2, <2>3, <2>4, <2>5, <2>6, <2>7, <2>8, <2>9
<1>4. ASSUME NEW j \in Job, AttemptFails(p, j) PROVE ShapeOK'
  BY <1>4, BoundsAssumption DEF AttemptFails
<1>5. ASSUME NEW j \in Job, PublishFails(p, j) PROVE ShapeOK'
  BY <1>5, BoundsAssumption DEF PublishFails, PublishError
<1>6. QED  BY <1>1, <1>2, <1>3, <1>4, <1>5 DEF Environment

LEMMA NodeShape ==
  ASSUME NEW p \in Proc, NEW j \in Job, ShapeOK, Node(p, j)
  PROVE  ShapeOK'
<1> USE DEF ShapeOK, Stages, Errors, Running, Bail, GoTo,
            dist, runs, counters, At
<1>1. CASE SkipNode(p, j)  BY <1>1 DEF SkipNode
<1>2. CASE Enqueue(p, j)  BY <1>2 DEF Enqueue
<1>3. CASE GiveUp(p, j)  BY <1>3 DEF GiveUp
<1>4. CASE TakeSlot(p, j)  BY <1>4 DEF TakeSlot
<1>5. CASE Lookup(p, j)  BY <1>5 DEF Lookup
<1>6. CASE LockOwn(p, j)  BY <1>6 DEF LockOwn
<1>7. CASE Recheck(p, j)  BY <1>7 DEF Recheck
<1>8. CASE Blocked(p, j)
  <2>1. GoTo(p, j, "pollOwn") \/ GoTo(p, j, "pollDeps")  BY <1>8 DEF Blocked
  <2>2. UNCHANGED <<dist, runs, err, tries, got, counters>>  BY <1>8 DEF Blocked
  <2>3. pc' \in [Proc -> [Job -> Stages]]  BY <2>1, GoToShape DEF ShapeOK, Stages
  <2>4. QED  BY <2>2, <2>3
<1>9. CASE PollAgain(p, j)
  <2>1. GoTo(p, j, "lockOwn") \/ GoTo(p, j, "lockDeps")  BY <1>9 DEF PollAgain
  <2>2. UNCHANGED <<dist, runs, err, tries, got, counters>>  BY <1>9 DEF PollAgain
  <2>3. pc' \in [Proc -> [Job -> Stages]]  BY <2>1, GoToShape DEF ShapeOK, Stages
  <2>4. QED  BY <2>2, <2>3
<1>10. CASE Abandon(p, j)  BY <1>10 DEF Abandon
<1>11. CASE CheckDeps(p, j)
  <2>1. \/ GoTo(p, j, "build") /\ UNCHANGED err
        \/ Bail(p, j, "depChanged")
    BY <1>11, Zenon DEF CheckDeps
  <2>2. UNCHANGED <<dist, runs, tries, got, counters>>  BY <1>11 DEF CheckDeps
  <2>3. CASE GoTo(p, j, "build") /\ UNCHANGED err  BY <2>2, <2>3
  <2>4. CASE Bail(p, j, "depChanged")  BY <2>2, <2>4
  <2>5. QED  BY <2>1, <2>3, <2>4
<1>12. ASSUME NEW d \in Job, LockDep(p, j, d) PROVE ShapeOK'
  BY <1>12 DEF LockDep
<1>13. ASSUME NEW d \in Job, OpenPart(p, j, d) PROVE ShapeOK'
  <2>1. got' = [q \in Proc |-> [i \in Job |-> got'[q][i]]]
    <3>1. PICK a \in art[d] : got' = [got EXCEPT ![p][j] = @ \cup {<<d, a.body>>}]
      BY <1>13 DEF OpenPart
    <3>2. QED  BY <3>1
  <2>2. UNCHANGED <<dist, runs, pc, err, tries, counters>>  BY <1>13 DEF OpenPart
  <2>3. QED  BY <2>1, <2>2
<1>14. ASSUME NEW d \in Job, PartMissing(p, j, d) PROVE ShapeOK'
  BY <1>14 DEF PartMissing
<1>15. CASE BuildCanceled(p, j)  BY <1>15 DEF BuildCanceled
<1>16. CASE BuildDone(p, j)  BY <1>16 DEF BuildDone
<1>17. CASE MoveAside(p, j)  BY <1>17 DEF MoveAside
<1>18. CASE Promote(p, j)  BY <1>18 DEF Promote
<1>19. CASE Unlock(p, j)
  <2>1. excl' \in [Job -> SUBSET Proc]  BY <1>19 DEF Unlock
  <2>2. shared' \in [Job -> SUBSET (Proc \X Job)]  BY <1>19 DEF Unlock, ReleaseDeps
  <2> DEFINE Typed == /\ pc' \in [Proc -> [Job -> Stages]]
                      /\ err' \in [Proc -> [Job -> Errors]]
                      /\ tries' \in [Proc -> [Job -> 1..Attempts]]
  <2>3. ASSUME err[p][j] = "depChanged" /\ tries[p][j] < Attempts PROVE Typed
    <3>1. tries[p][j] + 1 \in 1..Attempts
      <4>1. tries[p][j] \in 1..Attempts  OBVIOUS
      <4>2. QED  BY <2>3, <4>1 DEF Attempts
    <3>2. tries' \in [Proc -> [Job -> 1..Attempts]]
      <4>1. tries' = [tries EXCEPT ![p][j] = tries[p][j] + 1]
        BY <1>19, <2>3 DEF Unlock, NextTry
      <4>2. QED  BY <3>1, <4>1
    <3>3. err' = [err EXCEPT ![p][j] = "none"]  BY <1>19, <2>3 DEF Unlock
    <3>4. GoTo(p, j, "lookup")  BY <1>19, <2>3 DEF Unlock
    <3>5. QED  BY <3>2, <3>3, <3>4
  <2>4. ASSUME ~(err[p][j] = "depChanged" /\ tries[p][j] < Attempts) PROVE Typed
    <3>1. GoTo(p, j, "finish") /\ UNCHANGED tries  BY <1>19, <2>4 DEF Unlock
    <3>2. err' = [err EXCEPT ![p][j] = IF @ = "depChanged" THEN "failed" ELSE @]
      BY <1>19, <2>4 DEF Unlock
    <3>3. QED  BY <3>1, <3>2
  <2>5. Typed  BY <2>3, <2>4
  <2>6. got' = [q \in Proc |-> [i \in Job |-> got'[q][i]]]  BY <1>19 DEF Unlock
  <2>7. UNCHANGED <<art, runs, counters>>  BY <1>19 DEF Unlock
  <2>8. QED  BY <2>1, <2>2, <2>5, <2>6, <2>7
<1>20. CASE Finish(p, j)
  <2>1. pc' \in [Proc -> [Job -> Stages]]  BY <1>20 DEF Finish
  <2>2. /\ firstErr' \in [Proc -> SUBSET Job]
        /\ cancelled' \in [Proc -> BOOLEAN]
    <3>1. CASE err[p][j] = "failed" /\ firstErr[p] = {}
      <4>1. /\ firstErr' = [firstErr EXCEPT ![p] = {j}]
            /\ cancelled' = [cancelled EXCEPT ![p] = TRUE]
        BY <1>20, <3>1, Zenon DEF Finish, RecordFailure
      <4>2. QED  BY <4>1
    <3>2. CASE ~(err[p][j] = "failed" /\ firstErr[p] = {})
      BY <1>20, <3>2 DEF Finish, RecordFailure
    <3>3. QED  BY <3>1, <3>2
  <2>3. slots' \in [Proc -> SUBSET Job]  BY <1>20 DEF Finish
  <2>4. UNCHANGED <<dist, life, conf, interrupted, trash, err, tries, got, counters>>
    BY <1>20 DEF Finish
  <2>5. QED  BY <2>1, <2>2, <2>3, <2>4
<1>21. QED
  BY <1>1, <1>2, <1>3, <1>4, <1>5, <1>6, <1>7, <1>8, <1>9, <1>10, <1>11, <1>12,
     <1>13, <1>14, <1>15, <1>16, <1>17, <1>18, <1>19, <1>20 DEF Node

LEMMA StepShape == ShapeOK /\ [Next]_vars => ShapeOK'
<1> SUFFICES ASSUME ShapeOK, [Next]_vars PROVE ShapeOK'
  OBVIOUS
<1>1. ASSUME NEW p \in Proc, Environment(p) PROVE ShapeOK'
  BY <1>1, EnvironmentShape
<1>2. ASSUME NEW p \in Proc, NEW j \in Job, Node(p, j) PROVE ShapeOK'
  BY <1>2, NodeShape
<1>3. ASSUME NEW p \in Proc, Return(p) PROVE ShapeOK'
  BY <1>3 DEF Return, ShapeOK, dist, counters, Running
<1>4. ASSUME NEW p \in Proc, NEW j \in Job, EmptyTrash(p, j) PROVE ShapeOK'
  BY <1>4 DEF EmptyTrash, ShapeOK, dist, counters
<1>5. CASE UNCHANGED vars
  BY <1>5 DEF ShapeOK, vars, dist, runs, counters
<1>6. QED  BY <1>1, <1>2, <1>3, <1>4, <1>5 DEF Next, Quiet

LEMMA InitType == Init => TypeOK
<1> SUFFICES ASSUME Init PROVE TypeOK
  OBVIOUS
<1>1. ShapeOK  BY InitShape
<1>2. OneArtifact  BY DEF Init, OneArtifact
<1>3. SlotsBounded  BY FS_EmptySet, BoundsAssumption DEF Init, SlotsBounded
<1>4. QED  BY <1>1, <1>2, <1>3 DEF TypeOK

\* Only the two renames of publish touch an artifact.
LEMMA StepOneArtifact == TypeOK /\ [Next]_vars => OneArtifact'
<1> SUFFICES ASSUME TypeOK, [Next]_vars PROVE OneArtifact'
  OBVIOUS
<1> USE DEF TypeOK, OneArtifact
<1>1. ASSUME NEW p \in Proc, NEW j \in Job, Node(p, j), art' # art
      PROVE  \/ art' = [art EXCEPT ![j] = {}]
             \/ art' = [art EXCEPT ![j] = {Built(p, j)}]
  <2>1. CASE MoveAside(p, j)  BY <2>1 DEF MoveAside
  <2>2. CASE Promote(p, j)  BY <2>2 DEF Promote
  <2>3. QED
    BY <1>1, <2>1, <2>2 DEF Node, SkipNode, Enqueue, GiveUp, TakeSlot, Lookup,
       LockOwn, Recheck, Blocked, PollAgain, Abandon, CheckDeps, LockDep,
       OpenPart, PartMissing, BuildCanceled, BuildDone, Unlock, Finish, dist
<1>2. ASSUME NEW p \in Proc, NEW j \in Job, Node(p, j) PROVE OneArtifact'
  <2>1. CASE art' = art  BY <2>1
  <2>2. CASE art' # art
    <3>1. PICK S : /\ art' = [art EXCEPT ![j] = S]
                   /\ S = {} \/ S = {Built(p, j)}
      BY <1>1, <1>2, <2>2
    <3>2. \A i \in Job : art'[i] = S \/ art'[i] = art[i]
      BY <3>1 DEF ShapeOK
    <3>3. QED  BY <3>1, <3>2
  <2>3. QED  BY <2>1, <2>2
<1>3. ASSUME NEW p \in Proc, Environment(p) PROVE art' = art
  BY <1>3 DEF Environment, Launch, Interrupt, Crash, AttemptFails,
     PublishFails, dist
<1>4. ASSUME NEW p \in Proc, Return(p) PROVE art' = art
  BY <1>4 DEF Return, dist
<1>5. ASSUME NEW p \in Proc, NEW j \in Job, EmptyTrash(p, j) PROVE art' = art
  BY <1>5 DEF EmptyTrash, dist
<1>6. CASE UNCHANGED vars  BY <1>6 DEF vars, dist
<1>7. QED  BY <1>2, <1>3, <1>4, <1>5, <1>6 DEF Next, Quiet

\* A slot is taken only when one is free, and returned once.
LEMMA StepSlots == TypeOK /\ [Next]_vars => SlotsBounded'
<1> SUFFICES ASSUME TypeOK, [Next]_vars PROVE SlotsBounded'
  OBVIOUS
<1> USE DEF TypeOK, SlotsBounded
<1>1. slots \in [Proc -> SUBSET Job]  BY DEF ShapeOK
<1>2. ASSUME NEW p \in Proc, slots' = [slots EXCEPT ![p] = {}]
      PROVE  SlotsBounded'
  BY <1>1, <1>2, FS_EmptySet, BoundsAssumption
<1>3. ASSUME NEW p \in Proc, NEW j \in Job, TakeSlot(p, j) PROVE SlotsBounded'
  <2>1. slots' = [slots EXCEPT ![p] = slots[p] \cup {j}]
    BY <1>3 DEF TakeSlot
  <2>2. IsFiniteSet(slots[p]) /\ Cardinality(slots[p]) < Workers
    BY <1>3 DEF TakeSlot, SlotFree
  <2>3. Cardinality(slots[p]) \in Nat  BY <2>2, FS_CardinalityType
  <2>4. /\ IsFiniteSet(slots[p] \cup {j})
        /\ \/ Cardinality(slots[p] \cup {j}) = Cardinality(slots[p])
           \/ Cardinality(slots[p] \cup {j}) = Cardinality(slots[p]) + 1
    BY <2>2, FS_AddElement
  <2>5. Cardinality(slots[p] \cup {j}) <= Workers
    BY <2>2, <2>3, <2>4, BoundsAssumption
  <2>6. QED  BY <1>1, <2>1, <2>4, <2>5
<1>4. ASSUME NEW p \in Proc, NEW j \in Job, Finish(p, j) PROVE SlotsBounded'
  <2>1. slots' = [slots EXCEPT ![p] = slots[p] \ {j}]
    BY <1>4 DEF Finish
  <2>2. IsFiniteSet(slots[p]) /\ Cardinality(slots[p]) <= Workers
    OBVIOUS
  <2>3. /\ IsFiniteSet(slots[p] \ {j})
        /\ Cardinality(slots[p] \ {j}) <= Cardinality(slots[p])
    BY <2>2, FS_Subset
  <2>4. /\ Cardinality(slots[p]) \in Nat
        /\ Cardinality(slots[p] \ {j}) \in Nat
    BY <2>2, <2>3, FS_CardinalityType
  <2>5. Cardinality(slots[p] \ {j}) <= Workers
    BY <2>2, <2>3, <2>4, BoundsAssumption
  <2>6. QED  BY <1>1, <2>1, <2>3, <2>5
<1>5. ASSUME NEW p \in Proc, NEW j \in Job, Node(p, j) PROVE SlotsBounded'
  BY <1>3, <1>4, <1>5 DEF Node, SkipNode, Enqueue, GiveUp, Lookup, LockOwn,
     Recheck, Blocked, PollAgain, Abandon, CheckDeps, LockDep, OpenPart,
     PartMissing, BuildCanceled, BuildDone, MoveAside, Promote, Unlock, runs
<1>6. ASSUME NEW p \in Proc, Environment(p) PROVE SlotsBounded'
  BY <1>2, <1>6 DEF Environment, Launch, Interrupt, Crash, AttemptFails,
     PublishFails, ResetRun, runs
<1>7. ASSUME NEW p \in Proc, Return(p) PROVE SlotsBounded'
  BY <1>7 DEF Return
<1>8. ASSUME NEW p \in Proc, NEW j \in Job, EmptyTrash(p, j) PROVE SlotsBounded'
  BY <1>8 DEF EmptyTrash
<1>9. CASE UNCHANGED vars  BY <1>9 DEF vars, runs
<1>10. QED  BY <1>5, <1>6, <1>7, <1>8, <1>9 DEF Next, Quiet

LEMMA StepType == TypeOK /\ [Next]_vars => TypeOK'
BY StepShape, StepOneArtifact, StepSlots DEF TypeOK

\* For any number of workers, processes and jobs: every variable keeps its
\* type, a slug never has two artifacts, and a process never builds more jobs
\* at a time than the worker semaphore of Run allows.
THEOREM TypeCorrect == Spec => []TypeOK
BY InitType, StepType, PTL DEF Spec

(***************************************************************************)
(* The safety properties.  First the discipline of the locks, which does not*)
(* depend on what Build reads; then what the artifacts contain, which holds*)
(* when Build reads only what it locks.                                    *)
(***************************************************************************)

--------------------------------------------------------------------------------
(* The invariant, node by node *)

NodeDisciplined(p, j) ==
  life[p] = Running =>
    /\ pc[p][j] \in OwnStages => p \in excl[j]
    /\ pc[p][j] \in OwnStages \ {"recheck"} => ~ValidAt(j, MyKey(p, j))
    /\ pc[p][j] = "promote" => art[j] = {}
    /\ pc[p][j] = "checkDeps" => \A d \in Deps[j] : <<p, j>> \in shared[d]
    /\ pc[p][j] \in BuildStages =>
         \A d \in Deps[j] : <<p, j>> \in shared[d] /\ ValidAt(d, MyKey(p, d))

LEMMA DisciplinedByNode ==
  /\ Disciplined => LocksExclude /\ \A p \in Proc, j \in Job : NodeDisciplined(p, j)
  /\ LocksExclude' /\ (\A p \in Proc, j \in Job : NodeDisciplined(p, j)') => Disciplined'
<1> USE DEF Disciplined, OwnersHoldTheSlug, ReadersHoldTheirDeps, NodeDisciplined
<1>1. Disciplined => LocksExclude /\ \A p \in Proc, j \in Job : NodeDisciplined(p, j)
  OBVIOUS
<1>2. ASSUME LocksExclude', \A p \in Proc, j \in Job : NodeDisciplined(p, j)'
      PROVE  Disciplined'
  BY <1>2
<1>3. QED  BY <1>1, <1>2

\* A node keeps its part of the invariant when its own state and leases stay and
\* nobody touches the artifacts it has leases on.
LEMMA NodeKept ==
  ASSUME Deps \in [Job -> SUBSET Job],
         NEW q \in Proc, NEW i \in Job, NodeDisciplined(q, i),
         life'[q] = life[q], conf'[q] = conf[q], pc'[q][i] = pc[q][i],
         q \in excl[i] => q \in excl'[i] /\ art'[i] = art[i],
         \A d \in Job : <<q, i>> \in shared[d] =>
                          <<q, i>> \in shared'[d] /\ art'[d] = art[d]
  PROVE  NodeDisciplined(q, i)'
<1>1. SUFFICES ASSUME life[q] = Running PROVE NodeDisciplined(q, i)'
  BY DEF NodeDisciplined
<1>2. \A d \in Job : MyKey(q, d)' = MyKey(q, d)
  BY DEF MyKey
<1>3. ASSUME NEW d \in Job, art'[d] = art[d]
      PROVE  ValidAt(d, MyKey(q, d))' <=> ValidAt(d, MyKey(q, d))
  BY <1>2, <1>3 DEF ValidAt
<1>4. OwnStages = {"recheck", "lockDeps", "pollDeps", "checkDeps", "build",
                   "publish", "promote"} /\ BuildStages = {"build", "publish", "promote"}
  BY DEF OwnStages, BuildStages
<1>5. \A d \in Deps[i] : d \in Job
  OBVIOUS
<1>6. QED  BY <1>1, <1>3, <1>4, <1>5 DEF NodeDisciplined

--------------------------------------------------------------------------------
(* What a step of one node leaves alone *)

\* The steps of one goroutine, those that fail included.
NodeStep(p, j) == Node(p, j) \/ AttemptFails(p, j) \/ PublishFails(p, j)

LEMMA NodeFrame ==
  ASSUME ShapeOK, NEW p \in Proc, NEW j \in Job, NodeStep(p, j),
         NEW q \in Proc, NEW i \in Job, <<q, i>> # <<p, j>>
  PROVE  /\ life' = life /\ conf' = conf
         /\ pc'[q][i] = pc[q][i] /\ got'[q][i] = got[q][i]
<1> DEFINE Frame == /\ life' = life /\ conf' = conf
                    /\ pc'[q][i] = pc[q][i] /\ got'[q][i] = got[q][i]
<1> USE DEF ShapeOK, GoTo, Bail, runs
<1>1. CASE SkipNode(p, j)  BY <1>1 DEF SkipNode
<1>2. CASE Enqueue(p, j)  BY <1>2 DEF Enqueue
<1>3. CASE GiveUp(p, j)  BY <1>3 DEF GiveUp
<1>4. CASE TakeSlot(p, j)  BY <1>4 DEF TakeSlot
<1>5. CASE Lookup(p, j)  BY <1>5 DEF Lookup
<1>6. CASE LockOwn(p, j)  BY <1>6 DEF LockOwn
<1>7. CASE Recheck(p, j)  BY <1>7 DEF Recheck
<1>8. CASE Blocked(p, j)  BY <1>8 DEF Blocked
<1>9. CASE PollAgain(p, j)  BY <1>9 DEF PollAgain
<1>10. CASE Abandon(p, j)  BY <1>10 DEF Abandon
<1>11. CASE CheckDeps(p, j)  BY <1>11 DEF CheckDeps
<1>12. ASSUME NEW d \in Job, LockDep(p, j, d) PROVE Frame  BY <1>12 DEF LockDep
<1>13. ASSUME NEW d \in Job, OpenPart(p, j, d) PROVE Frame  BY <1>13 DEF OpenPart
<1>14. ASSUME NEW d \in Job, PartMissing(p, j, d) PROVE Frame
  BY <1>14 DEF PartMissing
<1>15. CASE BuildCanceled(p, j)  BY <1>15 DEF BuildCanceled
<1>16. CASE BuildDone(p, j)  BY <1>16 DEF BuildDone
<1>17. CASE MoveAside(p, j)  BY <1>17 DEF MoveAside
<1>18. CASE Promote(p, j)  BY <1>18 DEF Promote
<1>19. CASE Unlock(p, j)
  <2>1. GoTo(p, j, "lookup") \/ GoTo(p, j, "finish")  BY <1>19, Zenon DEF Unlock
  <2>2. UNCHANGED runs /\ got' = [got EXCEPT ![p][j] = {}]  BY <1>19 DEF Unlock
  <2>3. QED  BY <2>1, <2>2
<1>20. CASE Finish(p, j)  BY <1>20 DEF Finish
<1>21. CASE AttemptFails(p, j)  BY <1>21 DEF AttemptFails
<1>22. CASE PublishFails(p, j)  BY <1>22 DEF PublishFails
<1>23. QED
  BY <1>1, <1>2, <1>3, <1>4, <1>5, <1>6, <1>7, <1>8, <1>9, <1>10, <1>11, <1>12,
     <1>13, <1>14, <1>15, <1>16, <1>17, <1>18, <1>19, <1>20, <1>21, <1>22
     DEF Node, NodeStep

\* What one node does to the leases and to the artifacts.
LEMMA NodeTouches ==
  ASSUME NEW p \in Proc, NEW j \in Job, NodeStep(p, j)
  PROVE  \/ UNCHANGED dist
         \/ LockOwn(p, j) \/ Unlock(p, j) \/ MoveAside(p, j) \/ Promote(p, j)
         \/ \E d \in Job : LockDep(p, j, d)
BY DEF NodeStep, Node, SkipNode, Enqueue, GiveUp, TakeSlot, Lookup, Recheck,
   Blocked, PollAgain, Abandon, CheckDeps, OpenPart, PartMissing, BuildCanceled,
   BuildDone, Finish, AttemptFails, PublishFails

\* flock keeps an exclusive lease alone.
LEMMA NodeLocks ==
  ASSUME ShapeOK, LocksExclude, NEW p \in Proc, NEW j \in Job, NodeStep(p, j)
  PROVE  LocksExclude'
<1> USE DEF ShapeOK, LocksExclude
<1>1. CASE UNCHANGED dist  BY <1>1 DEF dist
<1>2. CASE LockOwn(p, j)  BY <1>2 DEF LockOwn, FreeForExcl
<1>3. ASSUME NEW d \in Job, LockDep(p, j, d) PROVE LocksExclude'
  BY <1>3 DEF LockDep, FreeForShared
<1>4. CASE Unlock(p, j)
  <2>1. \A i \in Job : excl'[i] \subseteq excl[i] /\ shared'[i] \subseteq shared[i]
    BY <1>4 DEF Unlock, ReleaseDeps
  <2>2. QED  BY <2>1
<1>5. CASE MoveAside(p, j)  BY <1>5 DEF MoveAside
<1>6. CASE Promote(p, j)  BY <1>6 DEF Promote
<1>7. QED  BY <1>1, <1>2, <1>3, <1>4, <1>5, <1>6, NodeTouches

\* A node that renames artifacts owns the slug, so nobody else has a lease on
\* it; and it gives back no lease but its own.
LEMMA NodeSpares ==
  ASSUME ShapeOK, Disciplined, NEW p \in Proc, NEW j \in Job, NodeStep(p, j),
         NEW q \in Proc, NEW i \in Job, <<q, i>> # <<p, j>>
  PROVE  /\ q \in excl[i] => q \in excl'[i] /\ art'[i] = art[i]
         /\ \A d \in Job : <<q, i>> \in shared[d] =>
                            <<q, i>> \in shared'[d] /\ art'[d] = art[d]
<1> DEFINE Spared == /\ q \in excl[i] => q \in excl'[i] /\ art'[i] = art[i]
                     /\ \A d \in Job : <<q, i>> \in shared[d] =>
                            <<q, i>> \in shared'[d] /\ art'[d] = art[d]
<1> USE DEF ShapeOK
<1>1. CASE UNCHANGED dist  BY <1>1 DEF dist
<1>2. CASE LockOwn(p, j)  BY <1>2 DEF LockOwn
<1>3. ASSUME NEW d \in Job, LockDep(p, j, d) PROVE Spared
  BY <1>3 DEF LockDep
<1>4. CASE Unlock(p, j)  BY <1>4 DEF Unlock, ReleaseDeps
<1>5. ASSUME pc[p][j] \in BuildStages, life[p] = Running
      PROVE  excl[j] = {p} /\ shared[j] = {}
  BY <1>5, DisciplinedByNode
     DEF NodeDisciplined, LocksExclude, BuildStages, OwnStages
<1>6. ASSUME NEW S, art' = [art EXCEPT ![j] = S], UNCHANGED <<excl, shared>>,
             pc[p][j] \in BuildStages, life[p] = Running
      PROVE  Spared
  BY <1>5, <1>6
<1>7. CASE MoveAside(p, j)  BY <1>6, <1>7 DEF MoveAside, At, BuildStages
<1>8. CASE Promote(p, j)  BY <1>6, <1>8 DEF Promote, At, BuildStages
<1>9. QED  BY <1>1, <1>2, <1>3, <1>4, <1>7, <1>8, NodeTouches

--------------------------------------------------------------------------------
(* What a step of one node does for itself *)

LEMMA NodeOwn ==
  ASSUME ShapeOK, Disciplined, NEW p \in Proc, NEW j \in Job, NodeStep(p, j)
  PROVE  NodeDisciplined(p, j)'
<1> DEFINE s == pc'[p][j]
<1>1. NodeDisciplined(p, j) /\ pc \in [Proc -> [Job -> Stages]]
  BY DisciplinedByNode DEF ShapeOK
\* Where the invariant asks nothing.
<1>2. ASSUME s \notin OwnStages PROVE NodeDisciplined(p, j)'
  BY <1>2 DEF NodeDisciplined, OwnStages, BuildStages
<1> USE DEF GoTo, Bail, At
<1>3. ASSUME NEW t \in Stages \ OwnStages, pc' = [pc EXCEPT ![p][j] = t]
      PROVE  NodeDisciplined(p, j)'
  BY <1>1, <1>2, <1>3
<1>4. CASE SkipNode(p, j)  BY <1>3, <1>4 DEF SkipNode, Stages, OwnStages
<1>5. CASE Enqueue(p, j)  BY <1>3, <1>5 DEF Enqueue, Stages, OwnStages
<1>6. CASE GiveUp(p, j)  BY <1>3, <1>6 DEF GiveUp, Stages, OwnStages
<1>7. CASE TakeSlot(p, j)  BY <1>3, <1>7 DEF TakeSlot, Stages, OwnStages
<1>8. CASE Lookup(p, j)  BY <1>3, <1>8 DEF Lookup, Stages, OwnStages
<1>9. CASE Abandon(p, j)  BY <1>3, <1>9 DEF Abandon, Stages, OwnStages
<1>10. CASE Promote(p, j)  BY <1>3, <1>10 DEF Promote, Stages, OwnStages
<1>11. CASE BuildCanceled(p, j)  BY <1>3, <1>11 DEF BuildCanceled, Stages, OwnStages
<1>12. CASE Finish(p, j)  BY <1>3, <1>12 DEF Finish, Stages, OwnStages
<1>13. CASE AttemptFails(p, j)  BY <1>3, <1>13 DEF AttemptFails, Stages, OwnStages
<1>14. CASE PublishFails(p, j)  BY <1>3, <1>14 DEF PublishFails, Stages, OwnStages
<1>15. ASSUME NEW d \in Job, PartMissing(p, j, d) PROVE NodeDisciplined(p, j)'
  BY <1>3, <1>15 DEF PartMissing, Stages, OwnStages
<1>16. CASE Unlock(p, j)
  <2>1. GoTo(p, j, "lookup") \/ GoTo(p, j, "finish")  BY <1>16, Zenon DEF Unlock
  <2>2. QED  BY <1>3, <2>1 DEF Stages, OwnStages
\* Where it does: every other step either takes a lease, or looks at what its
\* leases protect, or leaves both alone.
<1> USE <1>1 DEF NodeDisciplined, OwnStages, BuildStages
<1>17. CASE LockOwn(p, j)  BY <1>17 DEF LockOwn, runs, ShapeOK
<1>18. CASE Recheck(p, j)
  BY <1>18, GraphAssumption DEF Recheck, BuiltMeanwhile, dist, runs, ValidAt, MyKey
<1>19. CASE Blocked(p, j)
  BY <1>19 DEF Blocked, dist, runs, ValidAt, MyKey
<1>20. CASE PollAgain(p, j)
  BY <1>20 DEF PollAgain, dist, runs, ValidAt, MyKey
<1>21. ASSUME NEW d \in Job, LockDep(p, j, d) PROVE NodeDisciplined(p, j)'
  <2>1. UNCHANGED <<art, excl, runs>>  BY <1>21 DEF LockDep
  <2>2. shared' = [shared EXCEPT ![d] = @ \cup {<<p, j>>}]  BY <1>21 DEF LockDep
  <2>3. \A e \in Job : <<p, j>> \in shared[e] => <<p, j>> \in shared'[e]
    BY <2>2 DEF ShapeOK
  <2>4. ASSUME s = "checkDeps" PROVE \A e \in Deps[j] : <<p, j>> \in shared'[e]
    <3>1. Deps[j] \ Held(p, j) = {d}  BY <1>21, <2>4 DEF LockDep
    <3>2. QED  BY <2>2, <2>3, <3>1, GraphAssumption DEF Held, ShapeOK
  <2>5. s \in {"checkDeps", "lockDeps"}  BY <1>21 DEF LockDep
  <2>6. QED  BY <1>21, <2>1, <2>4, <2>5 DEF LockDep, runs, ValidAt, MyKey
<1>22. CASE CheckDeps(p, j)
  <2>1. UNCHANGED <<dist, runs>>  BY <1>22 DEF CheckDeps
  <2>2. CASE DepsStillValid(p, j)
    BY <1>22, <2>1, <2>2, GraphAssumption
       DEF CheckDeps, DepsStillValid, dist, runs, ValidAt, MyKey
  <2>3. CASE ~DepsStillValid(p, j)
    BY <1>3, <1>22, <2>3 DEF CheckDeps, Stages
  <2>4. QED  BY <2>2, <2>3
<1>23. ASSUME NEW d \in Job, OpenPart(p, j, d) PROVE NodeDisciplined(p, j)'
  BY <1>23 DEF OpenPart, dist, runs, ValidAt, MyKey
<1>24. CASE BuildDone(p, j)
  BY <1>24 DEF BuildDone, dist, runs, ValidAt, MyKey
<1>25. CASE MoveAside(p, j)
  <2>1. /\ art' = [art EXCEPT ![j] = {}] /\ UNCHANGED <<excl, shared, life, conf>>
        /\ s = "promote" /\ life[p] = Running /\ pc[p][j] = "publish"
    BY <1>25 DEF MoveAside
  <2>2. shared[j] = {}
    BY <2>1, DisciplinedByNode DEF LocksExclude
  <2>3. \A d \in Deps[j] : d \in Job /\ d # j /\ art'[d] = art[d]
    BY <2>1, <2>2, GraphAssumption DEF ShapeOK
  <2>4. art'[j] = {}  BY <2>1 DEF ShapeOK
  <2>5. QED  BY <2>1, <2>3, <2>4 DEF ValidAt, MyKey
<1>26. QED
  BY <1>4, <1>5, <1>6, <1>7, <1>8, <1>9, <1>10, <1>11, <1>12, <1>13, <1>14,
     <1>15, <1>16, <1>17, <1>18, <1>19, <1>20, <1>21, <1>22, <1>23, <1>24, <1>25
     DEF Node, NodeStep

--------------------------------------------------------------------------------
(* The discipline of the locks is an invariant *)

LEMMA NodeStepDisciplined ==
  ASSUME ShapeOK, Disciplined, NEW p \in Proc, NEW j \in Job, NodeStep(p, j)
  PROVE  Disciplined'
<1>1. LocksExclude'
  BY NodeLocks, DisciplinedByNode
<1>2. ASSUME NEW q \in Proc, NEW i \in Job, <<q, i>> # <<p, j>>
      PROVE  NodeDisciplined(q, i)'
  <2>1. NodeDisciplined(q, i)  BY DisciplinedByNode
  <2>2. life' = life /\ conf' = conf /\ pc'[q][i] = pc[q][i]
    BY <1>2, NodeFrame
  <2>3. /\ q \in excl[i] => q \in excl'[i] /\ art'[i] = art[i]
        /\ \A d \in Job : <<q, i>> \in shared[d] =>
                           <<q, i>> \in shared'[d] /\ art'[d] = art[d]
    BY <1>2, NodeSpares
  <2>4. QED  BY <2>1, <2>2, <2>3, NodeKept, GraphAssumption
<1>3. NodeDisciplined(p, j)'
  BY NodeOwn
<1>4. \A q \in Proc, i \in Job : NodeDisciplined(q, i)'
  BY <1>2, <1>3
<1>5. QED  BY <1>1, <1>4, DisciplinedByNode

\* A process that starts or is killed has no goroutine in a critical stage.
LEMMA ResetDisciplined ==
  ASSUME ShapeOK, Disciplined, NEW p \in Proc,
         (\E c \in Config : Launch(p, c)) \/ Crash(p)
  PROVE  Disciplined'
<1>1. /\ art' = art
      /\ \A j \in Job : /\ excl'[j] \subseteq excl[j] /\ excl[j] \ {p} \subseteq excl'[j]
                       /\ shared'[j] \subseteq shared[j]
                       /\ \A q \in Proc \ {p}, i \in Job :
                             <<q, i>> \in shared[j] => <<q, i>> \in shared'[j]
  <2>1. CASE \E c \in Config : Launch(p, c)  BY <2>1 DEF Launch, dist
  <2>2. CASE Crash(p)  BY <2>2 DEF Crash, ShapeOK
  <2>3. QED  BY <2>1, <2>2
<1>2. /\ \A q \in Proc \ {p} : life'[q] = life[q] /\ conf'[q] = conf[q] /\ pc'[q] = pc[q]
      /\ \A j \in Job : pc'[p][j] = "waiting"
  BY DEF Launch, Crash, ResetRun, ShapeOK
<1>3. LocksExclude'
  BY <1>1, DisciplinedByNode DEF LocksExclude
<1>4. ASSUME NEW q \in Proc, NEW j \in Job PROVE NodeDisciplined(q, j)'
  <2>1. CASE q = p  BY <1>2, <2>1 DEF NodeDisciplined, OwnStages, BuildStages
  <2>2. CASE q # p
    <3>1. NodeDisciplined(q, j)  BY DisciplinedByNode
    <3>2. life'[q] = life[q] /\ conf'[q] = conf[q] /\ pc'[q][j] = pc[q][j]
      BY <1>2, <2>2
    <3>3. /\ q \in excl[j] => q \in excl'[j] /\ art'[j] = art[j]
          /\ \A d \in Job : <<q, j>> \in shared[d] =>
                             <<q, j>> \in shared'[d] /\ art'[d] = art[d]
      BY <1>1, <2>2
    <3>4. QED  BY <3>1, <3>2, <3>3, NodeKept, GraphAssumption
  <2>3. QED  BY <2>1, <2>2
<1>5. QED  BY <1>3, <1>4, DisciplinedByNode

\* Steps that touch neither leases, artifacts nor goroutines.
LEMMA IdleDisciplined ==
  ASSUME ShapeOK, Disciplined, UNCHANGED <<dist, conf, pc>>,
         \A q \in Proc : life'[q] = Running => life[q] = Running
  PROVE  Disciplined'
<1>1. LocksExclude'  BY DisciplinedByNode DEF LocksExclude, dist
<1>2. ASSUME NEW q \in Proc, NEW i \in Job PROVE NodeDisciplined(q, i)'
  <2>1. NodeDisciplined(q, i)  BY DisciplinedByNode
  <2>2. CASE life'[q] = life[q]
    BY <2>1, <2>2, NodeKept, GraphAssumption DEF dist
  <2>3. CASE life'[q] # life[q]  BY <2>3 DEF NodeDisciplined
  <2>4. QED  BY <2>2, <2>3
<1>3. QED  BY <1>1, <1>2, DisciplinedByNode

\* Every step is one of these.
LEMMA StepCases ==
  ASSUME ShapeOK, [Next]_vars
  PROVE  \/ \E p \in Proc, j \in Job : NodeStep(p, j)
         \/ \E p \in Proc : Crash(p) \/ \E c \in Config : Launch(p, c)
         \/ /\ UNCHANGED <<dist, conf, pc, got>>
            /\ \A q \in Proc : life'[q] = Running => life[q] = Running
<1>1. CASE UNCHANGED vars  BY <1>1 DEF vars, runs
<1>2. ASSUME NEW p \in Proc, Interrupt(p) \/ Return(p)
                             \/ \E j \in Job : EmptyTrash(p, j)
      PROVE  /\ UNCHANGED <<dist, conf, pc, got>>
             /\ \A q \in Proc : life'[q] = Running => life[q] = Running
  BY <1>2 DEF Interrupt, Return, EmptyTrash, ShapeOK, Running
<1>3. QED
  BY <1>1, <1>2 DEF Next, Environment, NodeStep, Quiet

LEMMA StepDisciplined == ShapeOK /\ Disciplined /\ [Next]_vars => Disciplined'
BY StepCases, NodeStepDisciplined, ResetDisciplined, IdleDisciplined

LEMMA InitDisciplined == Init => Disciplined
BY DEF Init, Disciplined, LocksExclude, OwnersHoldTheSlug, ReadersHoldTheirDeps, Running

LEMMA AlwaysDisciplined == Spec => [](ShapeOK /\ Disciplined)
BY InitShape, StepShape, InitDisciplined, StepDisciplined, PTL DEF Spec

\* Every job of every process builds on dependencies that stay locked and stay
\* at the keys the run computed, from the check until the artifact is in place.
THEOREM BuildContract == Spec => []BuildsOnPinnedDeps
<1>1. Disciplined => BuildsOnPinnedDeps
  BY DEF Disciplined, ReadersHoldTheirDeps, BuildsOnPinnedDeps
<1>2. QED  BY <1>1, AlwaysDisciplined, PTL

--------------------------------------------------------------------------------
(* What a step may do to an artifact *)

\* Only the goroutine that owns a slug renames its artifact.
LEMMA OwnersRename ==
  ASSUME ShapeOK, Disciplined, [Next]_vars, NEW i \in Job, art'[i] # art[i]
  PROVE  \E p \in Proc : /\ MoveAside(p, i) \/ Promote(p, i)
                         /\ excl[i] = {p} /\ shared[i] = {}
                         /\ ~ValidAt(i, MyKey(p, i))
<1>1. PICK p \in Proc, j \in Job : NodeStep(p, j)
  <2>1. ASSUME NEW p \in Proc, Crash(p) \/ \E c \in Config : Launch(p, c)
        PROVE  art' = art
    BY <2>1 DEF Crash, Launch, dist
  <2>2. QED  BY <2>1, StepCases DEF dist
<1>2. j = i /\ (MoveAside(p, j) \/ Promote(p, j))
  <2>1. MoveAside(p, j) \/ Promote(p, j)
    BY <1>1, NodeTouches DEF dist, LockOwn, Unlock, LockDep
  <2>2. \E S : art' = [art EXCEPT ![j] = S]
    BY <2>1 DEF MoveAside, Promote
  <2>3. QED  BY <2>1, <2>2 DEF ShapeOK
<1>3. life[p] = Running /\ pc[p][j] \in BuildStages
  BY <1>2 DEF MoveAside, Promote, At, BuildStages
<1>4. /\ excl[j] = {p} /\ shared[j] = {}
      /\ ~ValidAt(j, MyKey(p, j))
  BY <1>3, DisciplinedByNode DEF NodeDisciplined, LocksExclude, BuildStages, OwnStages
<1>5. QED  BY <1>2, <1>4

\* No artifact is renamed while any goroutine of any process holds a read lock
\* on it.
THEOREM LeasesPin == Spec => LeasesPinArtifacts
<1>1. ShapeOK /\ Disciplined /\ [Next]_vars =>
        [\A j \in Job : art'[j] # art[j] => shared[j] = {}]_vars
  BY OwnersRename
<1>2. QED  BY <1>1, AlwaysDisciplined, PTL DEF Spec, LeasesPinArtifacts

\* No artifact is replaced by a process that wants the key it already has,
\* however many processes decided to build it at the same time.
THEOREM RebuildsAreNeeded == Spec => RebuiltOnlyOnNewKey
<1>1. ShapeOK /\ Disciplined /\ [Next]_vars =>
        [\A j \in Job : art[j] # {} /\ art'[j] # art[j] =>
           \E p \in Proc : /\ excl[j] = {p}
                           /\ \A a \in art[j] : a.key # MyKey(p, j)]_vars
  BY OwnersRename DEF ValidAt
<1>2. QED  BY <1>1, AlwaysDisciplined, PTL DEF Spec, RebuiltOnlyOnNewKey

--------------------------------------------------------------------------------
(* What an artifact contains *)

NodeParts(p, j) ==
  life[p] = Running =>
    /\ pc[p][j] \in BuildStages =>
         \A part \in got[p][j] :
           /\ part[1] \in Reads[j] /\ part = <<part[1], part[2]>>
           /\ \A c \in Config : Key[c][part[1]] = MyKey(p, part[1]) =>
                                  part[2] = Product[c][part[1]]
    /\ pc[p][j] \in {"publish", "promote"} => Opened(p, j) = Reads[j]
    /\ pc[p][j] \notin BuildStages \cup {"unlock"} => got[p][j] = {}

LEMMA PartsByNode ==
  /\ PartsAreCurrent => \A p \in Proc, j \in Job : NodeParts(p, j)
  /\ (\A p \in Proc, j \in Job : NodeParts(p, j)') => PartsAreCurrent'
BY DEF PartsAreCurrent, NodeParts

\* A node keeps its parts as long as its own state stays.
LEMMA PartsKept ==
  ASSUME NEW q \in Proc, NEW i \in Job, NodeParts(q, i),
         life'[q] = Running => life[q] = Running,
         conf'[q] = conf[q], pc'[q][i] = pc[q][i], got'[q][i] = got[q][i]
  PROVE  NodeParts(q, i)'
BY DEF NodeParts, MyKey, Opened

\* What is opened under a validated read lock is what the key promises.
LEMMA OpenedIsCurrent ==
  ASSUME TypeOK, Coherent, ReadsOnlyDeps, NEW p \in Proc, NEW j \in Job, NEW d \in Job,
         OpenPart(p, j, d)
  PROVE  NodeParts(p, j)'
<1>1. PICK a \in art[d] : got' = [got EXCEPT ![p][j] = @ \cup {<<d, a.body>>}]
  BY DEF OpenPart
<1>2. UNCHANGED <<life, conf, pc>> /\ life[p] = Running /\ pc[p][j] = "build"
  BY DEF OpenPart, runs, At
<1>3. got'[p][j] = got[p][j] \cup {<<d, a.body>>}
  BY <1>1 DEF TypeOK, ShapeOK
<1>4. d \in Reads[j] /\ d \in Deps[j]
  BY DEF OpenPart, ReadsOnlyDeps
<1>5. ValidAt(d, MyKey(p, d))
  BY <1>2, <1>4 DEF Coherent, Disciplined, ReadersHoldTheirDeps, BuildStages
<1>6. a.key = MyKey(p, d)
  BY <1>5 DEF ValidAt, TypeOK, OneArtifact
<1>7. \A c \in Config : Key[c][d] = MyKey(p, d) => a.body = Product[c][d]
  BY <1>6 DEF Coherent, KeyNamesContent
<1>8. NodeParts(p, j)  BY PartsByNode DEF Coherent
<1>9. \A x \in Job : MyKey(p, x)' = MyKey(p, x)  BY <1>2 DEF MyKey
<1>10. ASSUME NEW part \in got'[p][j]
       PROVE  /\ part[1] \in Reads[j] /\ part = <<part[1], part[2]>>
              /\ \A c \in Config : Key[c][part[1]] = MyKey(p, part[1])' =>
                                     part[2] = Product[c][part[1]]
  <2>1. CASE part \in got[p][j]
    BY <1>2, <1>8, <2>1, GraphAssumption DEF NodeParts, BuildStages, MyKey
  <2>2. CASE part = <<d, a.body>>
    BY <1>4, <1>7, <1>9, <2>2
  <2>3. QED  BY <1>3, <2>1, <2>2
<1>11. QED  BY <1>2, <1>10 DEF NodeParts, BuildStages

LEMMA NodePartsOwn ==
  ASSUME TypeOK, Coherent, ReadsOnlyDeps, NEW p \in Proc, NEW j \in Job, NodeStep(p, j)
  PROVE  NodeParts(p, j)'
<1> DEFINE t == pc'[p][j]
<1> USE DEF GoTo, Bail, At
<1>1. NodeParts(p, j) /\ ShapeOK  BY PartsByNode DEF Coherent, TypeOK
\* From a stage in which nothing is open to another such stage, or out of Build.
<1>2. ASSUME UNCHANGED got, t \notin BuildStages,
             \/ life[p] = Running /\ pc[p][j] \notin BuildStages \cup {"unlock"}
             \/ t = "unlock"
      PROVE  NodeParts(p, j)'
  BY <1>1, <1>2 DEF NodeParts, BuildStages
<1>3. ASSUME NEW u \in Stages \ BuildStages, pc' = [pc EXCEPT ![p][j] = u],
             UNCHANGED got, life[p] = Running,
             pc[p][j] \notin BuildStages \cup {"unlock"} \/ u = "unlock"
      PROVE  NodeParts(p, j)'
  <2>1. t = u  BY <1>1, <1>3 DEF ShapeOK
  <2>2. QED  BY <1>2, <1>3, <2>1
<1> USE DEF BuildStages, Stages
<1>4. CASE SkipNode(p, j)  BY <1>3, <1>4 DEF SkipNode
<1>5. CASE Enqueue(p, j)  BY <1>3, <1>5 DEF Enqueue
<1>6. CASE GiveUp(p, j)  BY <1>3, <1>6 DEF GiveUp
<1>7. CASE TakeSlot(p, j)  BY <1>3, <1>7 DEF TakeSlot
<1>8. CASE Lookup(p, j)  BY <1>3, <1>8 DEF Lookup
<1>9. CASE LockOwn(p, j)  BY <1>3, <1>9 DEF LockOwn
<1>10. CASE Recheck(p, j)  BY <1>3, <1>10 DEF Recheck
<1>11. CASE Blocked(p, j)  BY <1>3, <1>11 DEF Blocked
<1>12. CASE PollAgain(p, j)  BY <1>3, <1>12 DEF PollAgain
<1>13. CASE Abandon(p, j)  BY <1>3, <1>13 DEF Abandon
<1>14. ASSUME NEW d \in Job, LockDep(p, j, d) PROVE NodeParts(p, j)'
  BY <1>3, <1>14 DEF LockDep
<1>15. CASE CheckDeps(p, j)
  <2>1. CASE DepsStillValid(p, j)
    <3>1. /\ t = "build" /\ UNCHANGED got /\ pc[p][j] = "checkDeps" /\ life[p] = Running
      BY <1>1, <1>15, <2>1 DEF CheckDeps, ShapeOK
    <3>2. QED  BY <1>1, <3>1 DEF NodeParts
  <2>2. CASE ~DepsStillValid(p, j)  BY <1>3, <1>15, <2>2 DEF CheckDeps
  <2>3. QED  BY <2>1, <2>2
<1>16. ASSUME NEW d \in Job, OpenPart(p, j, d) PROVE NodeParts(p, j)'
  BY <1>16, OpenedIsCurrent
<1>17. ASSUME NEW d \in Job, PartMissing(p, j, d) PROVE NodeParts(p, j)'
  BY <1>3, <1>17 DEF PartMissing
<1>18. CASE BuildCanceled(p, j)  BY <1>3, <1>18 DEF BuildCanceled
<1>19. CASE AttemptFails(p, j)  BY <1>3, <1>19 DEF AttemptFails
<1>20. CASE PublishFails(p, j)  BY <1>3, <1>20 DEF PublishFails
<1>21. CASE BuildDone(p, j)
  <2>1. /\ t = "publish" /\ UNCHANGED <<got, conf, life>>
        /\ pc[p][j] = "build" /\ life[p] = Running /\ Opened(p, j) = Reads[j]
    BY <1>1, <1>21 DEF BuildDone, ShapeOK, runs
  <2>2. QED  BY <1>1, <2>1 DEF NodeParts, Opened, MyKey
<1>22. CASE MoveAside(p, j)
  <2>1. /\ t = "promote" /\ UNCHANGED <<got, conf, life>>
        /\ pc[p][j] = "publish" /\ life[p] = Running
    BY <1>1, <1>22 DEF MoveAside, ShapeOK
  <2>2. QED  BY <1>1, <2>1 DEF NodeParts, Opened, MyKey
<1>23. CASE Promote(p, j)  BY <1>3, <1>23 DEF Promote
<1>24. CASE Unlock(p, j)
  <2>1. GoTo(p, j, "lookup") \/ GoTo(p, j, "finish")  BY <1>24, Zenon DEF Unlock
  <2>2. got' = [got EXCEPT ![p][j] = {}]  BY <1>24 DEF Unlock
  <2>3. got'[p][j] = {} /\ t \notin BuildStages
    BY <1>1, <2>1, <2>2 DEF ShapeOK
  <2>4. QED  BY <2>3 DEF NodeParts
<1>25. CASE Finish(p, j)  BY <1>3, <1>25 DEF Finish
<1>26. QED
  BY <1>4, <1>5, <1>6, <1>7, <1>8, <1>9, <1>10, <1>11, <1>12, <1>13, <1>14,
     <1>15, <1>16, <1>17, <1>18, <1>19, <1>20, <1>21, <1>22, <1>23, <1>24, <1>25
     DEF Node, NodeStep

LEMMA StepParts == TypeOK /\ Coherent /\ ReadsOnlyDeps /\ [Next]_vars => PartsAreCurrent'
<1> SUFFICES ASSUME TypeOK, Coherent, ReadsOnlyDeps, [Next]_vars,
                    NEW q \in Proc, NEW i \in Job
             PROVE  NodeParts(q, i)'
  BY PartsByNode
<1>1. NodeParts(q, i) /\ ShapeOK  BY PartsByNode DEF Coherent, TypeOK
<1>2. ASSUME NEW p \in Proc, NEW j \in Job, NodeStep(p, j) PROVE NodeParts(q, i)'
  <2>1. CASE <<q, i>> = <<p, j>>  BY <1>2, <2>1, NodePartsOwn
  <2>2. CASE <<q, i>> # <<p, j>>
    BY <1>1, <1>2, <2>2, NodeFrame, PartsKept
  <2>3. QED  BY <2>1, <2>2
<1>3. ASSUME NEW p \in Proc, Crash(p) \/ \E c \in Config : Launch(p, c)
      PROVE  NodeParts(q, i)'
  <2>1. CASE q = p
    <3>1. pc'[p][i] = "waiting" /\ got'[p][i] = {}
      BY <1>1, <1>3 DEF Crash, Launch, ResetRun, ShapeOK
    <3>2. QED  BY <2>1, <3>1 DEF NodeParts, BuildStages
  <2>2. CASE q # p
    <3>1. /\ life'[q] = life[q] /\ conf'[q] = conf[q]
          /\ pc'[q][i] = pc[q][i] /\ got'[q][i] = got[q][i]
      BY <1>1, <1>3, <2>2 DEF Crash, Launch, ResetRun, ShapeOK
    <3>2. QED  BY <1>1, <3>1, PartsKept
  <2>3. QED  BY <2>1, <2>2
<1>4. QED  BY <1>1, <1>2, <1>3, StepCases, PartsKept

\* What Promote publishes is what every configuration with this key would build.
LEMMA PublishedIsCurrent ==
  ASSUME TypeOK, Coherent, ReadsOnlyDeps, NEW p \in Proc, NEW j \in Job, Promote(p, j),
         NEW c \in Config, Key[c][j] = MyKey(p, j)
  PROVE  Built(p, j) = [key |-> Key[c][j], body |-> Product[c][j]]
<1>1. life[p] = Running /\ pc[p][j] \in {"publish", "promote"}
  BY DEF Promote, At
<1>2. /\ \A part \in got[p][j] :
           /\ part[1] \in Reads[j] /\ part = <<part[1], part[2]>>
           /\ \A b \in Config : Key[b][part[1]] = MyKey(p, part[1]) =>
                                  part[2] = Product[b][part[1]]
      /\ Opened(p, j) = Reads[j]
  BY <1>1, PartsByNode DEF NodeParts, Coherent, BuildStages
<1>3. conf[p] \in Config  BY DEF TypeOK, ShapeOK
<1>4. /\ Input[c][j] = Input[conf[p]][j]
      /\ [d \in Deps[j] |-> Key[c][d]] = [d \in Deps[j] |-> Key[conf[p]][d]]
  <2>1. \A b \in Config : /\ Key[b][j].input = Input[b][j]
                          /\ Key[b][j].deps = [d \in Deps[j] |-> Key[b][d]]
    <3> TAKE b \in Config
    <3> DEFINE deps == [d \in Deps[j] |-> Key[b][d]]
    <3>1. Key[b][j] = [input |-> Input[b][j], deps |-> deps]  BY MerkleAssumption
    <3> HIDE DEF deps
    <3>2. Key[b][j].input = Input[b][j] /\ Key[b][j].deps = deps  BY <3>1
    <3>3. QED  BY <3>2 DEF deps
  <2>2. Key[c][j] = Key[conf[p]][j]  BY DEF MyKey
  <2>3. QED  BY <1>3, <2>1, <2>2
<1>5. \A d \in Deps[j] : Key[c][d] = Key[conf[p]][d]
  BY <1>4
<1>6. \A d \in Reads[j] : Key[c][d] = MyKey(p, d)
  BY <1>5 DEF ReadsOnlyDeps, MyKey
<1>7. \A part \in got[p][j] : part = <<part[1], Product[c][part[1]]>>
  BY <1>2, <1>6
<1>8. got[p][j] = {<<d, Product[c][d]>> : d \in Reads[j]}
  <2>1. ASSUME NEW part \in got[p][j] PROVE part \in {<<d, Product[c][d]>> : d \in Reads[j]}
    BY <1>2, <1>7
  <2>2. ASSUME NEW d \in Reads[j] PROVE <<d, Product[c][d]>> \in got[p][j]
    <3>1. PICK part \in got[p][j] : part[1] = d  BY <1>2 DEF Opened
    <3>2. QED  BY <1>7, <3>1
  <2>3. QED  BY <2>1, <2>2
<1>9. QED  BY <1>4, <1>8, ProductAssumption DEF Built

LEMMA StepContent == TypeOK /\ Coherent /\ ReadsOnlyDeps /\ [Next]_vars => KeyNamesContent'
<1> SUFFICES ASSUME TypeOK, Coherent, ReadsOnlyDeps, [Next]_vars,
                    NEW j \in Job, NEW c \in Config, NEW a \in art'[j], a.key = Key[c][j]
             PROVE  a.body = Product[c][j]
  BY DEF KeyNamesContent
<1>1. CASE art'[j] = art[j]  BY <1>1 DEF Coherent, KeyNamesContent
<1>2. CASE art'[j] # art[j]
  <2>1. PICK p \in Proc : MoveAside(p, j) \/ Promote(p, j)
    BY <1>2, OwnersRename DEF Coherent, TypeOK
  <2>2. CASE MoveAside(p, j)  BY <2>2 DEF MoveAside, TypeOK, ShapeOK
  <2>3. CASE Promote(p, j)
    <3>1. a = Built(p, j)  BY <2>3 DEF Promote, TypeOK, ShapeOK
    <3>2. Key[c][j] = MyKey(p, j)  BY <3>1 DEF Built
    <3>3. QED  BY <2>3, <3>1, <3>2, PublishedIsCurrent
  <2>4. QED  BY <2>1, <2>2, <2>3
<1>3. QED  BY <1>1, <1>2

LEMMA InitCoherent == Init => Coherent
BY InitDisciplined DEF Init, Coherent, PartsAreCurrent, KeyNamesContent, Running

LEMMA AlwaysCoherent == ASSUME ReadsOnlyDeps PROVE Spec => [](TypeOK /\ Coherent)
<1>1. TypeOK /\ Coherent /\ [Next]_vars => (TypeOK /\ Coherent)'
  BY StepType, StepDisciplined, StepParts, StepContent DEF Coherent, TypeOK
<1>2. QED  BY <1>1, InitType, InitCoherent, PTL DEF Spec

\* The cache of artifacts is sound: when Build reads only the dependencies it
\* locks, whatever processes, crashes, failures and retries there were, an
\* artifact equals what every configuration with its key would build.
THEOREM CacheIsSound == ASSUME ReadsOnlyDeps PROVE Spec => []KeyNamesContent
BY AlwaysCoherent, PTL DEF Coherent

\* The whole inductive invariant the shared run checks.
THEOREM EngineIsCoherent == ASSUME ReadsOnlyDeps PROVE Spec => []Coherent
BY AlwaysCoherent, PTL

--------------------------------------------------------------------------------
(* How nodes and runs end *)

\* What a step of a goroutine means for its own outcome.
Proceeds(p, j) ==
  /\ pc[p][j] \notin {"unlock", "finish", "done"} /\ pc'[p][j] # "done"
  /\ err'[p][j] = err[p][j] /\ UNCHANGED <<cancelled, firstErr>>
Stops(p, j) ==
  /\ cancelled[p] /\ err'[p][j] = "canceled" /\ UNCHANGED <<cancelled, firstErr>>
Breaks(p, j) ==
  /\ err'[p][j] \in {"failed", "depChanged"} /\ pc'[p][j] = "unlock"
  /\ UNCHANGED <<cancelled, firstErr>>
Skips(p, j) ==
  /\ err'[p][j] = "skipped" /\ UNCHANGED <<cancelled, firstErr>>
  /\ \E d \in Deps[j] : pc[p][d] = "done" /\ err[p][d] # "none"
Leaves(p, j) ==
  /\ pc[p][j] = "unlock" /\ pc'[p][j] # "done"
  /\ \/ err'[p][j] \in {"none", "failed"}
     \/ err'[p][j] = err[p][j] /\ err[p][j] # "depChanged"
  /\ UNCHANGED <<cancelled, firstErr>>
Ends(p, j) ==
  /\ pc[p][j] = "finish" /\ pc'[p][j] = "done" /\ err' = err
  /\ \/ err[p][j] = "failed" /\ firstErr[p] = {}
        /\ firstErr' = [firstErr EXCEPT ![p] = {j}]
        /\ cancelled' = [cancelled EXCEPT ![p] = TRUE]
     \/ ~(err[p][j] = "failed" /\ firstErr[p] = {}) /\ UNCHANGED <<cancelled, firstErr>>

LEMMA NodeOutcome ==
  ASSUME ShapeOK, NEW p \in Proc, NEW j \in Job, NodeStep(p, j)
  PROVE  /\ life[p] = Running /\ pc[p][j] # "done"
         /\ \/ Proceeds(p, j) \/ Stops(p, j) \/ Breaks(p, j)
            \/ Skips(p, j) \/ Leaves(p, j) \/ Ends(p, j)
<1> DEFINE Outcome == /\ life[p] = Running /\ pc[p][j] # "done"
                      /\ \/ Proceeds(p, j) \/ Stops(p, j) \/ Breaks(p, j)
                         \/ Skips(p, j) \/ Leaves(p, j) \/ Ends(p, j)
<1>t. pc \in [Proc -> [Job -> Stages]] /\ err \in [Proc -> [Job -> Errors]]
  BY DEF ShapeOK
\* A step that moves on within the attempt and says nothing of its outcome.
<1>m. ASSUME NEW s, NEW t, At(p, j, s), pc' = [pc EXCEPT ![p][j] = t], err' = err,
             UNCHANGED <<cancelled, firstErr>>,
             s \notin {"unlock", "finish", "done"}, t # "done"
      PROVE  Outcome
  BY <1>t, <1>m DEF At, Proceeds
\* A step that ends the attempt with an error.
<1>b. ASSUME NEW s, NEW e, At(p, j, s), s # "done", Bail(p, j, e), UNCHANGED <<cancelled, firstErr>>,
             e \in {"failed", "depChanged"} \/ (e = "canceled" /\ cancelled[p])
      PROVE  Outcome
  BY <1>t, <1>b DEF At, Bail, Breaks, Stops
<1> USE DEF GoTo, runs
<1>1. CASE SkipNode(p, j)  BY <1>t, <1>1 DEF SkipNode, Skips, At
<1>2. CASE Enqueue(p, j)  BY <1>m, <1>2 DEF Enqueue
<1>3. CASE GiveUp(p, j)  BY <1>t, <1>3 DEF GiveUp, Stops, At
<1>4. CASE TakeSlot(p, j)
  <2>1. /\ At(p, j, "queued") /\ pc' = [pc EXCEPT ![p][j] = "lookup"] /\ err' = err
        /\ UNCHANGED <<cancelled, firstErr>>
    BY <1>4 DEF TakeSlot
  <2>2. QED  BY <1>m, <2>1
<1>5. CASE Lookup(p, j)
  <2>1. /\ At(p, j, "lookup") /\ err' = err /\ UNCHANGED <<cancelled, firstErr>>
        /\ \E t \in {"finish", "lockOwn"} : pc' = [pc EXCEPT ![p][j] = t]
    BY <1>5 DEF Lookup
  <2>2. QED  BY <1>m, <2>1
<1>6. CASE LockOwn(p, j)
  <2>1. /\ At(p, j, "lockOwn") /\ pc' = [pc EXCEPT ![p][j] = "recheck"] /\ err' = err
        /\ UNCHANGED <<cancelled, firstErr>>
    BY <1>6 DEF LockOwn
  <2>2. QED  BY <1>m, <2>1
<1>7. CASE Recheck(p, j)
  <2>1. /\ At(p, j, "recheck") /\ err' = err /\ UNCHANGED <<cancelled, firstErr>>
        /\ \E t \in {"unlock", "checkDeps", "lockDeps"} : pc' = [pc EXCEPT ![p][j] = t]
    BY <1>7 DEF Recheck
  <2>2. QED  BY <1>m, <2>1
<1>8. CASE Blocked(p, j)  BY <1>m, <1>8 DEF Blocked
<1>9. CASE PollAgain(p, j)  BY <1>m, <1>9 DEF PollAgain
<1>10. CASE Abandon(p, j)  BY <1>b, <1>10 DEF Abandon
<1>11. CASE CheckDeps(p, j)
  <2>1. CASE DepsStillValid(p, j)  BY <1>m, <1>11, <2>1 DEF CheckDeps
  <2>2. CASE ~DepsStillValid(p, j)  BY <1>b, <1>11, <2>2 DEF CheckDeps
  <2>3. QED  BY <2>1, <2>2
<1>12. ASSUME NEW d \in Job, LockDep(p, j, d) PROVE Outcome
  <2>1. /\ At(p, j, "lockDeps") /\ err' = err /\ UNCHANGED <<cancelled, firstErr>>
        /\ \E t \in {"checkDeps", "lockDeps"} : pc' = [pc EXCEPT ![p][j] = t]
    BY <1>12 DEF LockDep
  <2>2. QED  BY <1>m, <2>1
<1>13. ASSUME NEW d \in Job, OpenPart(p, j, d) PROVE Outcome
  BY <1>13 DEF OpenPart, At, Proceeds
<1>14. ASSUME NEW d \in Job, PartMissing(p, j, d) PROVE Outcome
  BY <1>b, <1>14 DEF PartMissing
<1>15. CASE BuildCanceled(p, j)  BY <1>b, <1>15 DEF BuildCanceled
<1>16. CASE BuildDone(p, j)  BY <1>m, <1>16 DEF BuildDone
<1>17. CASE MoveAside(p, j)  BY <1>m, <1>17 DEF MoveAside
<1>18. CASE Promote(p, j)  BY <1>m, <1>18 DEF Promote
<1>19. CASE Unlock(p, j)
  <2>1. At(p, j, "unlock") /\ UNCHANGED <<cancelled, firstErr>>  BY <1>19 DEF Unlock
  <2>2. CASE err[p][j] = "depChanged" /\ tries[p][j] < Attempts
    <3>1. err' = [err EXCEPT ![p][j] = "none"] /\ pc' = [pc EXCEPT ![p][j] = "lookup"]
      BY <1>19, <2>2 DEF Unlock
    <3>2. QED  BY <1>t, <2>1, <3>1 DEF At, Leaves
  <2>3. CASE ~(err[p][j] = "depChanged" /\ tries[p][j] < Attempts)
    <3>1. /\ err' = [err EXCEPT ![p][j] = IF @ = "depChanged" THEN "failed" ELSE @]
          /\ pc' = [pc EXCEPT ![p][j] = "finish"]
      BY <1>19, <2>3 DEF Unlock
    <3>2. QED  BY <1>t, <2>1, <3>1 DEF At, Leaves
  <2>4. QED  BY <2>2, <2>3
<1>20. CASE Finish(p, j)
  <2>1. At(p, j, "finish") /\ pc' = [pc EXCEPT ![p][j] = "done"] /\ err' = err
    BY <1>20 DEF Finish
  <2>2. CASE err[p][j] = "failed" /\ firstErr[p] = {}
    <3>1. /\ firstErr' = [firstErr EXCEPT ![p] = {j}]
          /\ cancelled' = [cancelled EXCEPT ![p] = TRUE]
      BY <1>20, <2>2, Zenon DEF Finish, RecordFailure
    <3>2. QED  BY <1>t, <2>1, <2>2, <3>1 DEF At, Ends
  <2>3. CASE ~(err[p][j] = "failed" /\ firstErr[p] = {})
    <3>1. UNCHANGED <<cancelled, firstErr>>
      BY <1>20, <2>3, Zenon DEF Finish, RecordFailure
    <3>2. QED  BY <1>t, <2>1, <2>3, <3>1 DEF At, Ends
  <2>4. QED  BY <2>2, <2>3
<1>21. CASE AttemptFails(p, j)  BY <1>b, <1>21 DEF AttemptFails
<1>22. CASE PublishFails(p, j)  BY <1>b, <1>22 DEF PublishFails, PublishError
<1>23. QED
  BY <1>1, <1>2, <1>3, <1>4, <1>5, <1>6, <1>7, <1>8, <1>9, <1>10, <1>11, <1>12,
     <1>13, <1>14, <1>15, <1>16, <1>17, <1>18, <1>19, <1>20, <1>21, <1>22
     DEF Node, NodeStep

\* A step of one goroutine leaves the errors and attempts of the others alone.
LEMMA NodeErrors ==
  ASSUME ShapeOK, NEW p \in Proc, NEW j \in Job, NodeStep(p, j)
  PROVE  /\ UNCHANGED <<life, interrupted>>
         /\ \A q \in Proc, i \in Job : <<q, i>> # <<p, j>> =>
              err'[q][i] = err[q][i] /\ tries'[q][i] = tries[q][i]
         /\ \A q \in Proc \ {p} :
              cancelled'[q] = cancelled[q] /\ firstErr'[q] = firstErr[q]
<1>1. UNCHANGED <<life, interrupted>>
  BY DEF NodeStep, Node, SkipNode, Enqueue, GiveUp, TakeSlot, Lookup, LockOwn, Recheck,
     Blocked, PollAgain, Abandon, CheckDeps, LockDep, OpenPart, PartMissing,
     BuildCanceled, BuildDone, MoveAside, Promote, Unlock, Finish, AttemptFails,
     PublishFails, runs
<1>2. /\ err' = err \/ \E e : err' = [err EXCEPT ![p][j] = e]
      /\ tries' = tries \/ \E t : tries' = [tries EXCEPT ![p][j] = t]
  <2>1. CASE Unlock(p, j)  BY <2>1, Zenon DEF Unlock
  <2>2. CASE CheckDeps(p, j)  BY <2>2, Zenon DEF CheckDeps, Bail
  <2>3. CASE ~Unlock(p, j) /\ ~CheckDeps(p, j)
    BY <2>3, Zenon DEF NodeStep, Node, SkipNode, Enqueue, GiveUp, TakeSlot, Lookup,
       LockOwn, Recheck, Blocked, PollAgain, Abandon, LockDep, OpenPart,
       PartMissing, BuildCanceled, BuildDone, MoveAside, Promote, Finish,
       AttemptFails, PublishFails, Bail
  <2>4. QED  BY <2>1, <2>2, <2>3
<1>3. \A q \in Proc, i \in Job : <<q, i>> # <<p, j>> =>
              err'[q][i] = err[q][i] /\ tries'[q][i] = tries[q][i]
  BY <1>2 DEF ShapeOK
<1>4. \A q \in Proc \ {p} : cancelled'[q] = cancelled[q] /\ firstErr'[q] = firstErr[q]
  <2>1. \/ UNCHANGED <<cancelled, firstErr>>
        \/ /\ cancelled' = [cancelled EXCEPT ![p] = TRUE]
           /\ firstErr' = [firstErr EXCEPT ![p] = {j}]
    BY NodeOutcome DEF Proceeds, Stops, Breaks, Skips, Leaves, Ends
  <2>2. QED  BY <2>1 DEF ShapeOK
<1>5. QED  BY <1>1, <1>3, <1>4

\* What CausesAreKept says of one process.
Causes(p) ==
  /\ life[p] = "ok" => \A j \in Job : pc[p][j] = "done" /\ err[p][j] = "none"
  /\ life[p] = "failed" => firstErr[p] # {}
  /\ cancelled[p] => Explained(p)
  /\ \A j \in firstErr[p] : pc[p][j] = "done" /\ err[p][j] = "failed"
  /\ \A j \in Job :
       /\ err[p][j] = "canceled" => cancelled[p]
       /\ err[p][j] = "skipped" => Explained(p)
       /\ err[p][j] = "failed" /\ pc[p][j] = "done" => firstErr[p] # {}
       /\ err[p][j] = "depChanged" => pc[p][j] = "unlock"

LEMMA CausesByProcess ==
  /\ CausesAreKept => \A p \in Proc : Causes(p)
  /\ (\A p \in Proc : Causes(p)') => CausesAreKept'
BY DEF CausesAreKept, Causes

LEMMA CausesKept ==
  ASSUME ShapeOK, NEW q \in Proc, Causes(q), life'[q] = life[q], interrupted'[q] = interrupted[q],
         cancelled'[q] = cancelled[q], firstErr'[q] = firstErr[q],
         \A i \in Job : pc'[q][i] = pc[q][i] /\ err'[q][i] = err[q][i]
  PROVE  Causes(q)'
<1>1. firstErr[q] \subseteq Job  BY DEF ShapeOK
<1>2. Explained(q)' <=> Explained(q)  BY DEF Explained
<1>3. QED  BY <1>1, <1>2 DEF Causes

\* A goroutine that takes over an error finds its cause on record, and one that
\* makes an error records the cause before it is done.
LEMMA NodeCauses ==
  ASSUME ShapeOK, NEW p \in Proc, NEW j \in Job, NodeStep(p, j), Causes(p)
  PROVE  Causes(p)'
<1>1. /\ life[p] = Running /\ life'[p] = Running /\ pc[p][j] # "done"
      /\ interrupted' = interrupted
      /\ \A i \in Job : i # j => pc'[p][i] = pc[p][i] /\ err'[p][i] = err[p][i]
  BY NodeOutcome, NodeErrors, NodeFrame
<1>2. firstErr \in [Proc -> SUBSET Job] /\ cancelled \in [Proc -> BOOLEAN]
      /\ err \in [Proc -> [Job -> Errors]]
  BY DEF ShapeOK
<1>3. j \notin firstErr[p]  BY <1>1 DEF Causes
<1>4. ASSUME UNCHANGED <<cancelled, firstErr>>,
             err'[p][j] = "canceled" => cancelled[p],
             err'[p][j] = "skipped" => Explained(p),
             err'[p][j] = "failed" /\ pc'[p][j] = "done" => firstErr[p] # {},
             err'[p][j] = "depChanged" => pc'[p][j] = "unlock"
      PROVE  Causes(p)'
  <2>1. Explained(p)' <=> Explained(p)  BY <1>1, <1>4 DEF Explained
  <2>2. QED  BY <1>1, <1>2, <1>3, <1>4, <2>1 DEF Causes, Running
<1>5. CASE Proceeds(p, j)  BY <1>4, <1>5 DEF Proceeds, Causes
<1>6. CASE Stops(p, j)  BY <1>4, <1>6 DEF Stops
<1>7. CASE Breaks(p, j)  BY <1>4, <1>7 DEF Breaks
<1>8. CASE Skips(p, j)
  <2>1. PICK d \in Deps[j] : pc[p][d] = "done" /\ err[p][d] # "none"
    BY <1>8 DEF Skips
  <2>2. d \in Job /\ err[p][d] \in {"skipped", "canceled", "failed", "depChanged"}
    BY <1>2, <2>1, GraphAssumption DEF Errors
  <2>3. Explained(p)  BY <2>1, <2>2 DEF Causes, Explained
  <2>4. QED  BY <1>4, <1>8, <2>3 DEF Skips
<1>9. CASE Leaves(p, j)  BY <1>4, <1>9 DEF Leaves, Causes
<1>10. CASE Ends(p, j)
  <2>1. err'[p][j] = err[p][j] /\ err[p][j] # "depChanged"
    BY <1>10 DEF Ends, Causes
  <2>2. CASE UNCHANGED <<cancelled, firstErr>>
    BY <1>2, <1>4, <1>10, <2>1, <2>2 DEF Ends, Causes
  <2>3. CASE /\ err[p][j] = "failed" /\ firstErr[p] = {}
             /\ firstErr' = [firstErr EXCEPT ![p] = {j}]
             /\ cancelled' = [cancelled EXCEPT ![p] = TRUE]
    <3>1. firstErr'[p] = {j} /\ cancelled'[p] /\ Explained(p)' /\ pc'[p][j] = "done"
      BY <1>2, <1>10, <2>3 DEF Ends, Explained
    <3>2. QED  BY <1>1, <2>1, <2>3, <3>1 DEF Causes, Running
  <2>4. QED  BY <1>10, <2>2, <2>3 DEF Ends
<1>11. QED  BY <1>5, <1>6, <1>7, <1>8, <1>9, <1>10, NodeOutcome

LEMMA InitCauses == Init => CausesAreKept
BY DEF Init, CausesAreKept

LEMMA StepCauses == ShapeOK /\ CausesAreKept /\ [Next]_vars => CausesAreKept'
<1> SUFFICES ASSUME ShapeOK, CausesAreKept, [Next]_vars, NEW q \in Proc
             PROVE  Causes(q)'
  BY CausesByProcess
<1>1. Causes(q)  BY CausesByProcess
<1>2. ASSUME NEW p \in Proc, NEW j \in Job, NodeStep(p, j) PROVE Causes(q)'
  <2>1. CASE q = p  BY <1>1, <1>2, <2>1, NodeCauses
  <2>2. CASE q # p
    <3>1. /\ life' = life /\ interrupted' = interrupted
          /\ cancelled'[q] = cancelled[q] /\ firstErr'[q] = firstErr[q]
          /\ \A i \in Job : pc'[q][i] = pc[q][i] /\ err'[q][i] = err[q][i]
      BY <1>2, <2>2, NodeErrors, NodeFrame
    <3>2. QED  BY <1>1, <3>1, CausesKept
  <2>3. QED  BY <2>1, <2>2
<1>3. ASSUME NEW p \in Proc, Crash(p) \/ \E c \in Config : Launch(p, c)
      PROVE  Causes(q)'
  <2>1. /\ life'[p] \in {"idle", Running} /\ ~cancelled'[p] /\ firstErr'[p] = {}
        /\ \A i \in Job : err'[p][i] = "none"
    BY <1>3 DEF Crash, Launch, ResetRun, ShapeOK
  <2>2. CASE q = p  BY <2>1, <2>2 DEF Causes, Running
  <2>3. CASE q # p
    <3>1. /\ life'[q] = life[q] /\ interrupted'[q] = interrupted[q]
          /\ cancelled'[q] = cancelled[q] /\ firstErr'[q] = firstErr[q]
          /\ pc'[q] = pc[q] /\ err'[q] = err[q]
      BY <1>3, <2>3 DEF Crash, Launch, ResetRun, ShapeOK
    <3>2. QED  BY <1>1, <3>1, CausesKept
  <2>4. QED  BY <2>2, <2>3
<1>4. ASSUME NEW p \in Proc, Return(p) PROVE Causes(q)'
  <2>1. /\ UNCHANGED <<interrupted, cancelled, firstErr, pc, err>>
        /\ \A j \in Job : pc[p][j] = "done"
    BY <1>4 DEF Return
  <2>2. CASE q = p
    <3>1. /\ life'[p] \in {"ok", "failed", "canceled"}
          /\ life'[p] = "failed" => firstErr[p] # {}
          /\ life'[p] = "ok" => ~Explained(p)
      BY <1>4 DEF Return, Explained, ShapeOK
    <3>2. ~Explained(p) => \A j \in Job : err[p][j] = "none"
      <4> SUFFICES ASSUME ~Explained(p), NEW j \in Job PROVE err[p][j] = "none"
        OBVIOUS
      <4>1. err[p][j] \in Errors  BY DEF ShapeOK
      <4>2. ~cancelled[p] /\ firstErr[p] = {} /\ pc[p][j] = "done"
        BY <1>1, <2>1, <2>2 DEF Causes, Explained
      <4>3. QED  BY <1>1, <2>2, <4>1, <4>2 DEF Causes, Errors
    <3>3. Explained(p)' <=> Explained(p)  BY <2>1 DEF Explained
    <3>4. QED  BY <1>1, <2>1, <2>2, <3>1, <3>2, <3>3 DEF Causes
  <2>3. CASE q # p
    <3>1. life'[q] = life[q]  BY <1>4, <2>3 DEF Return, ShapeOK
    <3>2. QED  BY <1>1, <2>1, <3>1, CausesKept
  <2>4. QED  BY <2>2, <2>3
<1>5. ASSUME NEW p \in Proc, Interrupt(p) PROVE Causes(q)'
  <2>1. CASE q = p
    <3>1. /\ cancelled'[p] /\ interrupted'[p] /\ life[p] = Running
          /\ UNCHANGED <<life, firstErr, pc, err>>
      BY <1>5 DEF Interrupt, ShapeOK
    <3>2. QED  BY <1>1, <2>1, <3>1 DEF Causes, Explained, Running
  <2>2. CASE q # p
    <3>1. /\ cancelled'[q] = cancelled[q] /\ interrupted'[q] = interrupted[q]
          /\ UNCHANGED <<life, firstErr, pc, err>>
      BY <1>5, <2>2 DEF Interrupt, ShapeOK
    <3>2. QED  BY <1>1, <3>1, CausesKept
  <2>3. QED  BY <2>1, <2>2
<1>6. ASSUME UNCHANGED <<life, interrupted, cancelled, firstErr, pc, err>>
      PROVE  Causes(q)'
  BY <1>1, <1>6, CausesKept
<1>7. ASSUME NEW p \in Proc, NEW j \in Job, EmptyTrash(p, j) PROVE Causes(q)'
  BY <1>6, <1>7 DEF EmptyTrash
<1>8. CASE UNCHANGED vars  BY <1>6, <1>8 DEF vars, runs
<1>9. QED
  BY <1>2, <1>3, <1>4, <1>5, <1>7, <1>8 DEF Next, Environment, NodeStep, Quiet

\* For any graph, any number of processes and workers, and any pattern of
\* crashes, interruptions and failures: a run that returns nil hides no node
\* that was skipped, cancelled or failed, a run that fails names a job that did,
\* and nothing is skipped or cancelled without a cause.
THEOREM EndingsHaveCauses == Spec => []EndingsAreExplained
<1>1. CausesAreKept => EndingsAreExplained
  <2> SUFFICES ASSUME CausesAreKept, NEW p \in Proc
               PROVE  /\ life[p] = "ok" => \A j \in Job : err[p][j] = "none"
                      /\ life[p] = "failed" => \E j \in firstErr[p] : err[p][j] = "failed"
                      /\ \A j \in Job :
                           pc[p][j] = "done" /\ err[p][j] \in {"skipped", "canceled"} =>
                             interrupted[p] \/ firstErr[p] # {}
    BY DEF EndingsAreExplained
  <2>1. Causes(p)  BY CausesByProcess
  <2>2. QED  BY <2>1 DEF Causes, Explained
<1>2. ShapeOK /\ CausesAreKept /\ [Next]_vars => (ShapeOK /\ CausesAreKept)'
  BY StepShape, StepCauses
<1>3. QED  BY <1>1, <1>2, InitShape, InitCauses, PTL DEF Spec

--------------------------------------------------------------------------------
(* One configuration: what is built stays built *)

\* What WorkIsNotUndone says of one node.
Work(p, j) ==
  /\ pc[p][j] \notin {"waiting", "done"} => DepsDone(p, j)
  /\ pc[p][j] \in {"unlock", "finish", "done"} /\ err[p][j] = "none"
       => ValidAt(j, MyKey(p, j))
  /\ err[p][j] # "depChanged" /\ tries[p][j] = 1

LEMMA WorkByNode ==
  /\ WorkIsNotUndone => \A p \in Proc, j \in Job : Work(p, j)
  /\ (\A p \in Proc, j \in Job : Work(p, j)') => WorkIsNotUndone'
BY DEF WorkIsNotUndone, Work

\* An owner renames only an artifact without its key, and everybody's key is that.
LEMMA StaysValid ==
  ASSUME OneConfiguration, ShapeOK, Disciplined, [Next]_vars,
         NEW p \in Proc, NEW j \in Job, ValidAt(j, MyKey(p, j))
  PROVE  ValidAt(j, MyKey(p, j))'
<1>1. \A q \in Proc : MyKey(q, j) = MyKey(p, j) /\ MyKey(q, j)' = MyKey(p, j)
  BY StepShape DEF MyKey, OneConfiguration, ShapeOK
<1>2. art'[j] = art[j]  BY <1>1, OwnersRename
<1>3. QED  BY <1>1, <1>2 DEF ValidAt

LEMMA WorkKept ==
  ASSUME Deps \in [Job -> SUBSET Job], NEW q \in Proc, NEW i \in Job, Work(q, i),
         ValidAt(i, MyKey(q, i)) => ValidAt(i, MyKey(q, i))',
         pc'[q][i] = pc[q][i], err'[q][i] = err[q][i], tries'[q][i] = tries[q][i],
         \A d \in Job : pc[q][d] = "done" => pc'[q][d] = "done" /\ err'[q][d] = err[q][d]
  PROVE  Work(q, i)'
<1>1. DepsDone(q, i) => DepsDone(q, i)'  BY DEF DepsDone
<1>2. QED  BY <1>1 DEF Work

\* What a step of a node does for its own work: it starts only when its
\* dependencies are done, and it ends without an error only over an artifact
\* that carries its key; errDepChanged needs a dependency that lost its key.
LEMMA NodeWork ==
  ASSUME ShapeOK, NEW p \in Proc, NEW j \in Job, NodeStep(p, j), Work(p, j)
  PROVE  /\ pc'[p][j] \notin {"waiting", "done"} => DepsDone(p, j)
         /\ pc'[p][j] \in {"unlock", "finish", "done"} /\ err'[p][j] = "none"
              => ValidAt(j, MyKey(p, j)) \/ ValidAt(j, MyKey(p, j))'
         /\ err'[p][j] = "depChanged" => DepsDone(p, j) /\ ~DepsStillValid(p, j)
         /\ tries'[p][j] = 1
<1> DEFINE Done == /\ pc'[p][j] \notin {"waiting", "done"} => DepsDone(p, j)
                   /\ pc'[p][j] \in {"unlock", "finish", "done"} /\ err'[p][j] = "none"
                        => ValidAt(j, MyKey(p, j)) \/ ValidAt(j, MyKey(p, j))'
                   /\ err'[p][j] = "depChanged" => DepsDone(p, j) /\ ~DepsStillValid(p, j)
                   /\ tries'[p][j] = 1
<1>t. /\ pc \in [Proc -> [Job -> Stages]] /\ err \in [Proc -> [Job -> Errors]]
      /\ art = [i \in Job |-> art[i]]
  BY DEF ShapeOK
<1>w. /\ pc[p][j] \notin {"waiting", "done"} => DepsDone(p, j)
      /\ pc[p][j] \in {"unlock", "finish", "done"} /\ err[p][j] = "none"
           => ValidAt(j, MyKey(p, j))
      /\ err[p][j] # "depChanged" /\ tries[p][j] = 1
  BY DEF Work
\* A step within the attempt.
<1>m. ASSUME NEW s, NEW t, At(p, j, s), pc' = [pc EXCEPT ![p][j] = t], UNCHANGED <<err, tries>>,
             s \notin {"waiting", "done"} \/ DepsDone(p, j),
             t \notin {"unlock", "finish", "done"} \/ ValidAt(j, MyKey(p, j))
               \/ s \in {"unlock", "finish"}
      PROVE  Done
  BY <1>t, <1>w, <1>m DEF At
\* A step that ends the attempt with an error.
<1>b. ASSUME NEW s, NEW e, At(p, j, s), s \notin {"waiting", "done"}, Bail(p, j, e),
             UNCHANGED tries, e \in {"failed", "canceled"}
      PROVE  Done
  BY <1>t, <1>w, <1>b DEF At, Bail
<1> USE DEF GoTo
<1>1. CASE SkipNode(p, j)  BY <1>t, <1>w, <1>1 DEF SkipNode
<1>2. CASE Enqueue(p, j)  BY <1>m, <1>2 DEF Enqueue
<1>3. CASE GiveUp(p, j)  BY <1>t, <1>w, <1>3 DEF GiveUp
<1>4. CASE TakeSlot(p, j)
  <2>1. /\ At(p, j, "queued") /\ pc' = [pc EXCEPT ![p][j] = "lookup"]
        /\ UNCHANGED <<err, tries>>
    BY <1>4 DEF TakeSlot
  <2>2. QED  BY <1>m, <2>1
<1>5. CASE Lookup(p, j)
  <2>1. /\ At(p, j, "lookup") /\ UNCHANGED <<err, tries>>
        /\ \/ ValidAt(j, MyKey(p, j)) /\ pc' = [pc EXCEPT ![p][j] = "finish"]
           \/ pc' = [pc EXCEPT ![p][j] = "lockOwn"]
    BY <1>5 DEF Lookup
  <2>2. QED  BY <1>m, <2>1
<1>6. CASE LockOwn(p, j)
  <2>1. /\ At(p, j, "lockOwn") /\ pc' = [pc EXCEPT ![p][j] = "recheck"]
        /\ UNCHANGED <<err, tries>>
    BY <1>6 DEF LockOwn
  <2>2. QED  BY <1>m, <2>1
<1>7. CASE Recheck(p, j)
  <2>1. /\ At(p, j, "recheck") /\ UNCHANGED <<err, tries>>
        /\ \/ ValidAt(j, MyKey(p, j)) /\ pc' = [pc EXCEPT ![p][j] = "unlock"]
           \/ pc' = [pc EXCEPT ![p][j] = "checkDeps"]
           \/ pc' = [pc EXCEPT ![p][j] = "lockDeps"]
    BY <1>7 DEF Recheck, BuiltMeanwhile
  <2>2. QED  BY <1>m, <2>1
<1>8. CASE Blocked(p, j)  BY <1>m, <1>8 DEF Blocked
<1>9. CASE PollAgain(p, j)  BY <1>m, <1>9 DEF PollAgain
<1>10. CASE Abandon(p, j)  BY <1>b, <1>10 DEF Abandon
<1>11. CASE CheckDeps(p, j)
  <2>1. CASE DepsStillValid(p, j)  BY <1>m, <1>11, <2>1 DEF CheckDeps
  <2>2. CASE ~DepsStillValid(p, j)
    BY <1>t, <1>w, <1>11, <2>2 DEF CheckDeps, Bail, At
  <2>3. QED  BY <2>1, <2>2
<1>12. ASSUME NEW d \in Job, LockDep(p, j, d) PROVE Done
  <2>1. /\ At(p, j, "lockDeps") /\ UNCHANGED <<err, tries>>
        /\ \E t \in {"checkDeps", "lockDeps"} : pc' = [pc EXCEPT ![p][j] = t]
    BY <1>12 DEF LockDep
  <2>2. QED  BY <1>m, <2>1
<1>13. ASSUME NEW d \in Job, OpenPart(p, j, d) PROVE Done
  BY <1>w, <1>13 DEF OpenPart, At
<1>14. ASSUME NEW d \in Job, PartMissing(p, j, d) PROVE Done
  BY <1>b, <1>14 DEF PartMissing
<1>15. CASE BuildCanceled(p, j)  BY <1>b, <1>15 DEF BuildCanceled
<1>16. CASE BuildDone(p, j)  BY <1>m, <1>16 DEF BuildDone
<1>17. CASE MoveAside(p, j)  BY <1>m, <1>17 DEF MoveAside
<1>18. CASE Promote(p, j)
  <2>1. /\ pc[p][j] \notin {"waiting", "done"} /\ UNCHANGED <<err, tries, conf>>
        /\ art' = [art EXCEPT ![j] = {Built(p, j)}] /\ pc' = [pc EXCEPT ![p][j] = "unlock"]
    BY <1>18 DEF Promote, At, runs
  <2>2. ValidAt(j, MyKey(p, j))'
    BY <1>t, <2>1 DEF ValidAt, MyKey, Built
  <2>3. QED  BY <1>t, <1>w, <2>1, <2>2
<1>19. CASE Unlock(p, j)
  <2>1. /\ At(p, j, "unlock") /\ UNCHANGED tries /\ pc' = [pc EXCEPT ![p][j] = "finish"]
        /\ err' = [err EXCEPT ![p][j] = IF @ = "depChanged" THEN "failed" ELSE @]
    BY <1>w, <1>19 DEF Unlock
  <2>2. err'[p][j] = err[p][j] /\ pc'[p][j] = "finish" /\ pc[p][j] = "unlock"
    BY <1>t, <1>w, <2>1 DEF At
  <2>3. QED  BY <1>w, <2>1, <2>2
<1>20. CASE Finish(p, j)
  <2>1. /\ At(p, j, "finish") /\ pc' = [pc EXCEPT ![p][j] = "done"]
        /\ UNCHANGED <<err, tries>>
    BY <1>20 DEF Finish
  <2>2. QED  BY <1>m, <2>1
<1>21. CASE AttemptFails(p, j)  BY <1>b, <1>21 DEF AttemptFails
<1>22. CASE PublishFails(p, j)  BY <1>b, <1>22 DEF PublishFails, PublishError
<1>23. QED
  BY <1>1, <1>2, <1>3, <1>4, <1>5, <1>6, <1>7, <1>8, <1>9, <1>10, <1>11, <1>12,
     <1>13, <1>14, <1>15, <1>16, <1>17, <1>18, <1>19, <1>20, <1>21, <1>22
     DEF Node, NodeStep

LEMMA InitWork == Init => WorkIsNotUndone
BY DEF Init, WorkIsNotUndone

LEMMA StepWork ==
  OneConfiguration /\ ShapeOK /\ Disciplined /\ WorkIsNotUndone /\ [Next]_vars
    => WorkIsNotUndone'
<1> SUFFICES ASSUME OneConfiguration, ShapeOK, Disciplined, WorkIsNotUndone, [Next]_vars,
                    NEW q \in Proc, NEW i \in Job
             PROVE  Work(q, i)'
  BY WorkByNode
<1>1. \A d \in Job : Work(q, d)  BY WorkByNode
<1>2. \A d \in Job : ValidAt(d, MyKey(q, d)) => ValidAt(d, MyKey(q, d))'
  BY StaysValid
<1>3. ASSUME NEW p \in Proc, NEW j \in Job, NodeStep(p, j) PROVE Work(q, i)'
  <2>1. \A d \in Job : pc[q][d] = "done" => pc'[q][d] = "done" /\ err'[q][d] = err[q][d]
    <3> SUFFICES ASSUME NEW d \in Job, pc[q][d] = "done"
                 PROVE  pc'[q][d] = "done" /\ err'[q][d] = err[q][d]
      OBVIOUS
    <3>1. <<q, d>> # <<p, j>>  BY <1>3, NodeOutcome
    <3>2. QED  BY <1>3, <3>1, NodeErrors, NodeFrame
  <2>2. CASE <<q, i>> = <<p, j>>
    <3>1. q = p /\ i = j /\ Work(p, j)  BY <1>1, <2>2
    <3>2. DepsDone(p, j) => DepsDone(p, j)'
      BY <2>1, <3>1, GraphAssumption DEF DepsDone
    <3>3. DepsDone(p, j) => DepsStillValid(p, j)
      BY <1>1, <3>1, GraphAssumption DEF DepsDone, DepsStillValid, Work
    <3>4. QED  BY <1>2, <1>3, <3>1, <3>2, <3>3, NodeWork DEF Work
  <2>3. CASE <<q, i>> # <<p, j>>
    <3>1. /\ pc'[q][i] = pc[q][i] /\ err'[q][i] = err[q][i] /\ tries'[q][i] = tries[q][i]
      BY <1>3, <2>3, NodeErrors, NodeFrame
    <3>2. QED  BY <1>1, <1>2, <2>1, <3>1, WorkKept, GraphAssumption
  <2>4. QED  BY <2>2, <2>3
<1>4. ASSUME NEW p \in Proc, Crash(p) \/ \E c \in Config : Launch(p, c)
      PROVE  Work(q, i)'
  <2>1. CASE q = p
    <3>1. pc'[p][i] = "waiting" /\ err'[p][i] = "none" /\ tries'[p][i] = 1
      BY <1>4 DEF Crash, Launch, ResetRun, ShapeOK
    <3>2. QED  BY <2>1, <3>1 DEF Work
  <2>2. CASE q # p
    <3>1. pc'[q] = pc[q] /\ err'[q] = err[q] /\ tries'[q] = tries[q]
      BY <1>4, <2>2 DEF Crash, Launch, ResetRun, ShapeOK
    <3>2. QED  BY <1>1, <1>2, <3>1, WorkKept, GraphAssumption
  <2>3. QED  BY <2>1, <2>2
<1>5. CASE UNCHANGED <<pc, err, tries>>
  BY <1>1, <1>2, <1>5, WorkKept, GraphAssumption
<1>6. ASSUME NEW p \in Proc,
             Return(p) \/ Interrupt(p) \/ \E j \in Job : EmptyTrash(p, j)
      PROVE  UNCHANGED <<pc, err, tries>>
  BY <1>6 DEF Return, Interrupt, EmptyTrash
<1>7. QED
  BY <1>3, <1>4, <1>5, <1>6 DEF Next, Environment, NodeStep, Quiet, vars

\* With one configuration, for any graph, any number of processes and any pattern
\* of crashes and failures: what is built stays built.
THEOREM NothingIsUndone ==
  ASSUME OneConfiguration
  PROVE  Spec => [](ShapeOK /\ CausesAreKept /\ WorkIsNotUndone)
<1>1. /\ ShapeOK /\ Disciplined /\ CausesAreKept /\ WorkIsNotUndone /\ [Next]_vars
        => (ShapeOK /\ Disciplined /\ CausesAreKept /\ WorkIsNotUndone)'
  BY StepShape, StepDisciplined, StepCauses, StepWork
<1>2. QED
  BY <1>1, InitShape, InitDisciplined, InitCauses, InitWork, PTL DEF Spec

\* With one configuration, everything a successful run was asked for is on disk
\* when it returns and afterwards, whatever the other processes do and suffer.
THEOREM ReturnedMeansBuilt ==
  ASSUME OneConfiguration PROVE Spec => []ReturnedRunsAreBuilt
<1>1. CausesAreKept /\ WorkIsNotUndone => ReturnedRunsAreBuilt
  BY DEF CausesAreKept, WorkIsNotUndone, ReturnedRunsAreBuilt
<1>2. QED  BY <1>1, NothingIsUndone, PTL

\* With one configuration, no process ever makes another retry.
THEOREM PeersAreAtPeace ==
  ASSUME OneConfiguration PROVE Spec => []PeersDoNotFight
<1>1. WorkIsNotUndone => PeersDoNotFight
  BY DEF WorkIsNotUndone, PeersDoNotFight
<1>2. QED  BY <1>1, NothingIsUndone, PTL

(***************************************************************************)
(* BuildEngine implements ArtifactStore: seen through its artifacts and its*)
(* validated read locks, every step is a pin, a release, a withdrawal, the *)
(* stocking of one artifact, or none.                                      *)
(***************************************************************************)

\* Goroutines take read locks on their direct dependencies only.
LeasesOfDeps == \A d \in Job : \A t \in shared[d] : d \in Deps[t[2]]

LEMMA StepLeases == ShapeOK /\ LeasesOfDeps /\ [Next]_vars => LeasesOfDeps'
<1> SUFFICES ASSUME ShapeOK, LeasesOfDeps, [Next]_vars PROVE LeasesOfDeps'
  OBVIOUS
<1> USE DEF ShapeOK, LeasesOfDeps
<1>1. ASSUME NEW p \in Proc, NEW j \in Job, NodeStep(p, j) PROVE LeasesOfDeps'
  <2>1. CASE UNCHANGED shared  BY <2>1
  <2>2. CASE Unlock(p, j)  BY <2>2 DEF Unlock, ReleaseDeps
  <2>3. ASSUME NEW d \in Job, LockDep(p, j, d) PROVE LeasesOfDeps'
    BY <2>3 DEF LockDep, NextDep
  <2>4. QED
    BY <1>1, <2>1, <2>2, <2>3, NodeTouches DEF dist, LockOwn, MoveAside, Promote
<1>2. ASSUME NEW p \in Proc, Crash(p) \/ \E c \in Config : Launch(p, c)
      PROVE  LeasesOfDeps'
  BY <1>2 DEF Crash, Launch, dist
<1>3. CASE UNCHANGED dist  BY <1>3 DEF dist
<1>4. QED  BY <1>1, <1>2, <1>3, StepCases

--------------------------------------------------------------------------------
(* How a step moves the pins *)

LEMMA OthersPinned ==
  ASSUME ShapeOK, NEW p \in Proc, NEW j \in Job, NodeStep(p, j),
         NEW d \in Job, NEW t \in Proc \X Job, t # <<p, j>>
  PROVE  t \in Pinned(d)' <=> t \in Pinned(d)
<1>1. pc'[t[1]][t[2]] = pc[t[1]][t[2]]  BY NodeFrame
<1>2. t \in shared'[d] <=> t \in shared[d]
  <2>1. CASE UNCHANGED shared  BY <2>1
  <2>2. CASE Unlock(p, j)  BY <2>2 DEF Unlock, ReleaseDeps
  <2>3. ASSUME NEW e \in Job, LockDep(p, j, e) PROVE t \in shared'[d] <=> t \in shared[d]
    BY <2>3 DEF LockDep, ShapeOK
  <2>4. QED
    BY <2>1, <2>2, <2>3, NodeTouches DEF dist, LockOwn, MoveAside, Promote
<1>3. QED  BY <1>1, <1>2 DEF Pinned

\* A goroutine pins by validating, keeps its pins through Build and publish, and
\* loses them all in whatever other step it takes.
LEMMA OwnPinned ==
  ASSUME ShapeOK, NEW p \in Proc, NEW j \in Job, NodeStep(p, j)
  PROVE  \/ CheckDeps(p, j) /\ DepsStillValid(p, j)
         \/ pc'[p][j] \notin BuildStages
         \/ UNCHANGED shared /\ pc[p][j] \in BuildStages /\ pc'[p][j] \in BuildStages
<1> DEFINE Goal == \/ CheckDeps(p, j) /\ DepsStillValid(p, j)
                   \/ pc'[p][j] \notin BuildStages
                   \/ /\ UNCHANGED shared
                      /\ pc[p][j] \in BuildStages /\ pc'[p][j] \in BuildStages
<1> USE DEF ShapeOK, GoTo, Bail, At, BuildStages
<1>1. CASE \/ SkipNode(p, j) \/ Enqueue(p, j) \/ GiveUp(p, j) \/ TakeSlot(p, j)
  BY <1>1 DEF SkipNode, Enqueue, GiveUp, TakeSlot
<1>2. CASE Lookup(p, j) \/ LockOwn(p, j) \/ Recheck(p, j)
  BY <1>2 DEF Lookup, LockOwn, Recheck
<1>3. CASE Blocked(p, j) \/ PollAgain(p, j) \/ Abandon(p, j)
  BY <1>3 DEF Blocked, PollAgain, Abandon
<1>4. CASE CheckDeps(p, j)
  BY <1>4 DEF CheckDeps
<1>5. ASSUME NEW d \in Job, LockDep(p, j, d) \/ PartMissing(p, j, d) PROVE Goal
  BY <1>5 DEF LockDep, PartMissing
<1>6. ASSUME NEW d \in Job, OpenPart(p, j, d) PROVE Goal
  BY <1>6 DEF OpenPart, dist
<1>7. CASE BuildCanceled(p, j) \/ AttemptFails(p, j) \/ PublishFails(p, j)
  BY <1>7 DEF BuildCanceled, AttemptFails, PublishFails
<1>8. CASE BuildDone(p, j) \/ MoveAside(p, j) \/ Promote(p, j)
  BY <1>8 DEF BuildDone, MoveAside, Promote, dist
<1>9. CASE Unlock(p, j)
  <2>1. GoTo(p, j, "lookup") \/ GoTo(p, j, "finish")  BY <1>9, Zenon DEF Unlock
  <2>2. QED  BY <2>1
<1>10. CASE Finish(p, j)  BY <1>10 DEF Finish
<1>11. QED
  BY <1>1, <1>2, <1>3, <1>4, <1>5, <1>6, <1>7, <1>8, <1>9, <1>10 DEF Node, NodeStep

--------------------------------------------------------------------------------
(* The step simulation *)

Pins == [d \in Job |-> Pinned(d)]

LEMMA PinnedType == ASSUME ShapeOK, NEW d \in Job PROVE Pinned(d) \subseteq Proc \X Job
BY DEF ShapeOK, Pinned

\* The four actions of the store, in the variables of the engine.
LEMMA IsLetGo ==
  ASSUME NEW M \in SUBSET (Proc \X Job), UNCHANGED art,
         \A d \in Job : Pinned(d)' = Pinned(d) \ M
  PROVE  Store!Next
<1>1. Store!LetGo(M)  BY DEF Store!LetGo
<1>2. QED  BY <1>1 DEF Store!Next

LEMMA IsPin ==
  ASSUME NEW p \in Proc, NEW j \in Job, NEW c \in Config, UNCHANGED art,
         Deps[j] \subseteq Job, \A d \in Deps[j] : ValidAt(d, Key[c][d]),
         \A d \in Job : Pinned(d)' = IF d \in Deps[j] THEN Pinned(d) \cup {<<p, j>>}
                                                      ELSE Pinned(d)
  PROVE  Store!Next
<1>1. Store!Pin(<<p, j>>, j, c)  BY DEF Store!Pin, ValidAt
<1>2. <<p, j>> \in Proc \X Job  OBVIOUS
<1>3. QED  BY <1>1, <1>2 DEF Store!Next

LEMMA IsWithdraw ==
  ASSUME NEW j \in Job, NEW c \in Config, art' = [art EXCEPT ![j] = {}],
         Pinned(j) = {}, ~ValidAt(j, Key[c][j]), \A d \in Job : Pinned(d)' = Pinned(d)
  PROVE  Store!Next
<1>1. Store!Withdraw(j, c)  BY DEF Store!Withdraw, ValidAt
<1>2. QED  BY <1>1 DEF Store!Next

LEMMA IsStock ==
  ASSUME NEW p \in Proc, NEW j \in Job, NEW c \in Config,
         Deps[j] \subseteq Job, \A d \in Deps[j] : <<p, j>> \in Pinned(d),
         art' = [art EXCEPT ![j] = {[key |-> Key[c][j], body |-> Product[c][j]]}],
         Pinned(j) = {}, art[j] = {}, \A d \in Job : Pinned(d)' = Pinned(d) \ {<<p, j>>}
  PROVE  Store!Next
<1>1. Store!Stock(<<p, j>>, j, c)  BY DEF Store!Stock, Store!Fresh
<1>2. <<p, j>> \in Proc \X Job  OBVIOUS
<1>3. QED  BY <1>1, <1>2 DEF Store!Next

\* A step of one goroutine that changes no artifact.
LEMMA QuietNodeSimulates ==
  ASSUME ShapeOK, Disciplined, LeasesOfDeps, NEW p \in Proc, NEW j \in Job,
         NodeStep(p, j), UNCHANGED art
  PROVE  Store!Next
<1> DEFINE m == <<p, j>>
<1>1. \A d \in Job : /\ Pinned(d) \subseteq Proc \X Job
                     /\ Pinned(d)' \subseteq Proc \X Job
  <2>1. ShapeOK'  BY NodeShape, EnvironmentShape DEF NodeStep, Environment
  <2>2. QED  BY <2>1 DEF ShapeOK, Pinned
<1>2. \A d \in Job : \A t \in Proc \X Job : t # m => (t \in Pinned(d)' <=> t \in Pinned(d))
  BY OthersPinned
<1>3. CASE CheckDeps(p, j) /\ DepsStillValid(p, j)
  <2>1. /\ UNCHANGED shared /\ pc[p][j] = "checkDeps" /\ life[p] = Running
        /\ pc'[p][j] = "build"
    BY <1>3 DEF CheckDeps, At, GoTo, ShapeOK, dist
  <2>2. \A d \in Deps[j] : m \in shared[d] /\ d \in Job
    BY <2>1, DisciplinedByNode, GraphAssumption DEF NodeDisciplined
  <2>3. ASSUME NEW d \in Job
        PROVE  Pinned(d)' = IF d \in Deps[j] THEN Pinned(d) \cup {m} ELSE Pinned(d)
    <3>1. CASE d \in Deps[j]
      <4>1. m \in Pinned(d)'  BY <2>1, <2>2, <3>1 DEF Pinned, BuildStages
      <4>2. QED  BY <1>1, <1>2, <3>1, <4>1
    <3>2. CASE d \notin Deps[j]
      <4>1. m \notin Pinned(d) /\ m \notin Pinned(d)'
        BY <2>1, <3>2 DEF Pinned, LeasesOfDeps
      <4>2. \A t \in Proc \X Job : t \in Pinned(d)' <=> t \in Pinned(d)
        BY <1>2, <4>1
      <4>3. Pinned(d)' = Pinned(d)  BY <1>1, <4>2
      <4>4. QED  BY <3>2, <4>3
    <3>3. QED  BY <3>1, <3>2
  <2>4. \A d \in Deps[j] : ValidAt(d, Key[conf[p]][d])
    BY <1>3 DEF DepsStillValid, MyKey
  <2>5. conf[p] \in Config  BY DEF ShapeOK
  <2>6. QED  BY <2>2, <2>3, <2>4, <2>5, IsPin
<1>4. CASE pc'[p][j] \notin BuildStages
  <2>1. \A d \in Job : m \notin Pinned(d)'  BY <1>4 DEF Pinned
  <2>2. \A d \in Job : Pinned(d)' = Pinned(d) \ {m}  BY <1>1, <1>2, <2>1
  <2>3. {m} \in SUBSET (Proc \X Job)  OBVIOUS
  <2>4. QED  BY <2>2, <2>3, IsLetGo
<1>5. CASE UNCHANGED shared /\ pc[p][j] \in BuildStages /\ pc'[p][j] \in BuildStages
  <2>1. \A d \in Job : m \in Pinned(d)' <=> m \in Pinned(d)  BY <1>5 DEF Pinned
  <2>2. \A d \in Job : Pinned(d)' = Pinned(d) \ {}  BY <1>1, <1>2, <2>1
  <2>3. QED  BY <2>2, IsLetGo
<1>6. QED  BY <1>3, <1>4, <1>5, OwnPinned

\* The two renames of publish.
LEMMA RenameSimulates ==
  ASSUME TypeOK, Coherent, ReadsOnlyDeps, NEW p \in Proc, NEW j \in Job,
         MoveAside(p, j) \/ Promote(p, j)
  PROVE  Store!Next
<1> DEFINE m == <<p, j>>
<1>1. /\ ShapeOK /\ Disciplined /\ NodeStep(p, j) /\ conf[p] \in Config
      /\ life[p] = Running /\ pc[p][j] \in BuildStages
  BY DEF TypeOK, ShapeOK, Coherent, NodeStep, Node, MoveAside, Promote, At, BuildStages
<1>2. /\ shared[j] = {} /\ ~ValidAt(j, MyKey(p, j))
      /\ \A d \in Deps[j] : m \in shared[d]
  BY <1>1, DisciplinedByNode DEF NodeDisciplined, LocksExclude, BuildStages, OwnStages
<1>3. Pinned(j) = {}  BY <1>2 DEF Pinned
<1>4. \A d \in Job : Pinned(d) \subseteq Proc \X Job  BY <1>1 DEF ShapeOK, Pinned
<1>5. UNCHANGED shared  BY DEF MoveAside, Promote
<1>6. \A d \in Job : Pinned(d)' \subseteq Proc \X Job  BY <1>1, <1>5 DEF ShapeOK, Pinned
<1>7. \A d \in Job : \A t \in Proc \X Job : t # m => (t \in Pinned(d)' <=> t \in Pinned(d))
  BY <1>1, OthersPinned
<1>8. CASE MoveAside(p, j)
  <2>1. pc'[p][j] = "promote"  BY <1>1, <1>8 DEF MoveAside, GoTo, ShapeOK
  <2>2. \A d \in Job : m \in Pinned(d)' <=> m \in Pinned(d)
    BY <1>1, <1>5, <2>1 DEF Pinned, BuildStages
  <2>3. \A d \in Job : Pinned(d)' = Pinned(d)  BY <1>4, <1>6, <1>7, <2>2
  <2>4. QED  BY <1>1, <1>2, <1>3, <1>8, <2>3, IsWithdraw DEF MoveAside, MyKey
<1>9. CASE Promote(p, j)
  <2>1. pc'[p][j] = "unlock"  BY <1>1, <1>9 DEF Promote, GoTo, ShapeOK
  <2>2. \A d \in Job : Pinned(d)' = Pinned(d) \ {m}
    <3>1. \A d \in Job : m \notin Pinned(d)'  BY <2>1 DEF Pinned, BuildStages
    <3>2. QED  BY <1>4, <1>6, <1>7, <3>1
  <2>3. art[j] = {}
    BY <1>1, <1>9, DisciplinedByNode DEF Promote, At, NodeDisciplined
  <2>4. Built(p, j) = [key |-> Key[conf[p]][j], body |-> Product[conf[p]][j]]
    BY <1>1, <1>9, PublishedIsCurrent DEF MyKey
  <2>5. Deps[j] \subseteq Job /\ \A d \in Deps[j] : m \in Pinned(d)
    BY <1>1, <1>2, GraphAssumption DEF Pinned
  <2>6. art' = [art EXCEPT ![j] = {[key |-> Key[conf[p]][j], body |-> Product[conf[p]][j]]}]
    BY <1>9, <2>4 DEF Promote
  <2>7. QED  BY <1>1, <1>3, <2>2, <2>3, <2>5, <2>6, IsStock
<1>10. QED  BY <1>8, <1>9

LEMMA StepSimulates ==
  TypeOK /\ Coherent /\ LeasesOfDeps /\ ReadsOnlyDeps /\ [Next]_vars => [Store!Next]_(Store!vars)
<1> SUFFICES ASSUME TypeOK, Coherent, LeasesOfDeps, ReadsOnlyDeps, [Next]_vars
             PROVE  [Store!Next]_(Store!vars)
  OBVIOUS
<1>1. ShapeOK /\ Disciplined  BY DEF TypeOK, Coherent
<1>2. ASSUME NEW p \in Proc, NEW j \in Job, NodeStep(p, j) PROVE Store!Next
  <2>1. CASE UNCHANGED art  BY <1>1, <1>2, <2>1, QuietNodeSimulates
  <2>2. CASE MoveAside(p, j) \/ Promote(p, j)  BY <2>2, RenameSimulates
  <2>3. QED  BY <1>2, <2>1, <2>2, NodeTouches DEF dist, LockOwn, Unlock, LockDep
<1>3. ASSUME NEW p \in Proc, Crash(p) \/ \E c \in Config : Launch(p, c)
      PROVE  Store!Next
  <2> DEFINE M == {p} \X Job
  <2>1. /\ UNCHANGED art /\ \A i \in Job : pc'[p][i] = "waiting"
        /\ \A q \in Proc, i \in Job, d \in Job : q # p =>
             pc'[q][i] = pc[q][i] /\ (<<q, i>> \in shared'[d] <=> <<q, i>> \in shared[d])
        /\ \A d \in Job : shared'[d] \subseteq Proc \X Job /\ shared[d] \subseteq Proc \X Job
    BY <1>1, <1>3 DEF Crash, Launch, ResetRun, ShapeOK, dist
  <2>2. ASSUME NEW d \in Job, NEW t \in Proc \X Job
        PROVE  t \in Pinned(d)' <=> t \in Pinned(d) /\ t \notin M
    BY <2>1 DEF Pinned, BuildStages
  <2>3. \A d \in Job : /\ Pinned(d) \subseteq Proc \X Job
                       /\ Pinned(d)' \subseteq Proc \X Job
    BY <2>1 DEF Pinned
  <2>4. \A d \in Job : Pinned(d)' = Pinned(d) \ M  BY <2>2, <2>3
  <2>5. M \in SUBSET (Proc \X Job)  OBVIOUS
  <2>6. QED  BY <2>1, <2>4, <2>5, IsLetGo
<1>4. CASE UNCHANGED <<dist, pc>>
  BY <1>4 DEF Store!vars, Pinned, dist
<1>5. QED  BY <1>1, <1>2, <1>3, <1>4, StepCases

LEMMA InitSimulates == Init => Store!Init /\ LeasesOfDeps
BY DEF Init, Store!Init, LeasesOfDeps, Pinned

\* Every behaviour of the engine is, seen from outside, one of the store that
\* locks nothing and knows neither processes nor renames: the readers of a
\* dependency pin it at the key they want, it stays while it is pinned, and what
\* replaces it is what its key promises.
THEOREM EngineImplementsStore == ASSUME ReadsOnlyDeps PROVE Spec => ImplementsStore
<1>1. Spec => [](TypeOK /\ Coherent)  BY AlwaysCoherent
<1>2. Init => LeasesOfDeps  BY InitSimulates
<1>3. ShapeOK /\ LeasesOfDeps /\ [Next]_vars => LeasesOfDeps'  BY StepLeases
<1>4. Spec => []LeasesOfDeps
  BY <1>1, <1>2, <1>3, PTL DEF Spec, TypeOK
<1>5. Init => Store!Init  BY InitSimulates
<1>6. TypeOK /\ Coherent /\ LeasesOfDeps /\ [Next]_vars => [Store!Next]_(Store!vars)
  BY StepSimulates
<1>7. QED
  BY <1>1, <1>4, <1>5, <1>6, PTL DEF Spec, ImplementsStore, Store!Spec

================================================================================
