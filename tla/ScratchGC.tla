------------------------------- MODULE ScratchGC -------------------------------
(***************************************************************************)
(* The scratch directories and heartbeats of internal/core: processes, in  *)
(* one or several PID namespaces, that share dist/. Each one first makes a *)
(* collecting pass (EnsureDirs, GCStale), then may build. Time is counted  *)
(* in heartbeat intervals and every age saturates where the code stops     *)
(* telling ages apart.                                                     *)
(*                                                                         *)
(* Directories are named <slug>.<pid>.<random> and heartbeats <slug>.json, *)
(* so slugs do not interact and one is enough; its exclusive lock is what  *)
(* BuildEngine models, here only "one builder at a time".                  *)
(***************************************************************************)
EXTENDS Naturals, FiniteSets

CONSTANTS
  Proc,        \* process incarnations
  Namespace,   \* [Proc -> ...]: the PID namespace of each
  Pid,         \* [Proc -> ...]: its pid there; pids are reused
  KeepWork,    \* SUBSET Proc: started with --keep-work
  Reliable,    \* SUBSET Proc: those whose heartbeat writes get through
  LiveFor,     \* a heartbeat is live for this many intervals
  StaleAge,    \* age from which a scratch directory may be collected
  MaxSkips,    \* assumption: intervals a reliable builder's beat may be late
  PassTime     \* assumption: intervals a collecting pass may take

ASSUME ProcessAssumption == KeepWork \subseteq Proc /\ Reliable \subseteq Proc

\* A beat may be lost or late, but not until its heartbeat counts as dead; and
\* a directory younger than two passes and such a delay is not stale.
ASSUME TimingAssumption ==
  /\ LiveFor \in Nat /\ StaleAge \in Nat /\ MaxSkips \in Nat /\ PassTime \in Nat
  /\ MaxSkips + 1 < LiveFor
  /\ 2 * PassTime + MaxSkips + 1 < StaleAge

VARIABLES
  pc,        \* stage of each process
  dir,       \* what it has under work/, .staging/ and .trash/
  age,       \* age of those directories
  art,       \* the slug has an artifact
  heart,     \* whose heartbeat the file holds: nobody's or one process's
  heartAge,  \* age of the UpdatedAt in it
  ticking,   \* the ticker goroutine of a builder runs
  writing,   \* it is writing a beat
  skipped,   \* intervals since its last one
  root,      \* the directory a collector walks
  todo,      \* its entries that the collector has still to look at
  entry,     \* the one it looks at
  passAge,   \* age of its pass
  owed       \* history: what was abandoned when its pass started

beats == <<heart, heartAge, ticking, writing, skipped>>
passes == <<root, todo, entry, passAge, owed>>
vars == <<pc, dir, age, art, beats, passes>>

Collecting == {"readBeat", "dropBeat", "list", "scan", "check", "remove"}
Building == {"locked", "mkdirs", "building", "published", "closeBuilt", "closeFailed"}
Over == {"done", "failed", "killed"}
Stages == {"unborn", "ready", "built", "gaveUp"} \cup Collecting \cup Building \cup Over

Running(p) == pc[p] \notin {"unborn"} \cup Over
GoTo(p, s) == pc' = [pc EXCEPT ![p] = s]
SetDir(p, d) ==
  /\ dir' = [dir EXCEPT ![p] = d]
  /\ age' = [age EXCEPT ![p] = IF d = {} THEN 0 ELSE @]
Older(a, cap) == IF a < cap THEN a + 1 ELSE cap

\* kill(pid, 0) as g sees it.
PidAlive(g, p) ==
  \E q \in Proc : Running(q) /\ Namespace[q] = Namespace[g] /\ Pid[q] = Pid[p]

\* Heartbeat.Live. Slip: the pid decides alone.
LivePid(g) == \E p \in heart : PidAlive(g, p)
Live(g) == \E p \in heart : PidAlive(g, p) \/ heartAge < LiveFor

Init ==
  /\ pc = [p \in Proc |-> "unborn"]
  /\ dir = [p \in Proc |-> {}]
  /\ age = [p \in Proc |-> 0]
  /\ art \in BOOLEAN
  /\ heart = {} /\ heartAge = 0
  /\ ticking = [p \in Proc |-> FALSE]
  /\ writing = [p \in Proc |-> FALSE]
  /\ skipped = [p \in Proc |-> 0]
  /\ root = [p \in Proc |-> "work"]
  /\ todo = [p \in Proc |-> {}]
  /\ entry = [p \in Proc |-> {}]
  /\ passAge = [p \in Proc |-> 0]
  /\ owed = [p \in Proc |-> {}]

--------------------------------------------------------------------------------
(* Time and processes *)

Tick ==
  /\ \A p \in Proc : pc[p] \in Collecting => passAge[p] < PassTime
  /\ \A p \in Proc : ~writing[p]
  /\ \A p \in Reliable : ticking[p] => skipped[p] <= MaxSkips
  /\ age' = [p \in Proc |-> IF dir[p] = {} THEN 0 ELSE Older(age[p], StaleAge)]
  /\ heartAge' = IF heart = {} THEN 0 ELSE Older(heartAge, LiveFor)
  /\ skipped' = [p \in Proc |-> IF ticking[p] THEN Older(skipped[p], MaxSkips + 1) ELSE 0]
  /\ passAge' = [p \in Proc |-> IF pc[p] \in Collecting THEN passAge[p] + 1 ELSE 0]
  /\ UNCHANGED <<pc, dir, art, heart, ticking, writing, root, todo, entry, owed>>

\* What is abandoned when g starts its pass, as far as it can tell: a directory of
\* a dead process that has its own pid looks like its own.
DeadTo(g, p) ==
  /\ age[p] >= StaleAge /\ ~Running(p)
  /\ heart = {} \/ heartAge >= LiveFor
  /\ \A q \in {p} \cup heart : ~PidAlive(g, q) /\ Pid[q] # Pid[g]
Abandoned(g) == UNION {{p} \X dir[p] : p \in {q \in Proc : DeadTo(g, q)}}

\* The pid is used again, or a heartbeat is written: earlier findings are void.
NothingOwed == owed' = [g \in Proc |-> {}]

Launch(p) ==
  /\ pc[p] = "unborn"
  /\ \A q \in Proc : Running(q) /\ Namespace[q] = Namespace[p] => Pid[q] # Pid[p]
  /\ GoTo(p, "readBeat")
  /\ owed' = [g \in Proc |-> IF g = p THEN Abandoned(p) ELSE {}]
  /\ UNCHANGED <<dir, age, art, beats, root, todo, entry, passAge>>

\* Killed in any stage: its lock and its goroutines die with it.
Kill(p) ==
  /\ Running(p)
  /\ GoTo(p, "killed")
  /\ ticking' = [ticking EXCEPT ![p] = FALSE]
  /\ writing' = [writing EXCEPT ![p] = FALSE]
  /\ todo' = [todo EXCEPT ![p] = {}]
  /\ entry' = [entry EXCEPT ![p] = {}]
  /\ skipped' = [skipped EXCEPT ![p] = 0]
  /\ owed' = [owed EXCEPT ![p] = {}]
  /\ passAge' = [passAge EXCEPT ![p] = 0]
  /\ UNCHANGED <<dir, age, art, heart, heartAge, root>>

\* Run waits for the removal of its trash.
Exit(p) ==
  /\ pc[p] \in {"ready", "built", "gaveUp"} /\ ".trash" \notin dir[p] /\ ~writing[p]
  /\ GoTo(p, IF pc[p] = "gaveUp" THEN "failed" ELSE "done")
  /\ UNCHANGED <<dir, age, art, beats, passes>>

--------------------------------------------------------------------------------
(* GCStale: the heartbeats, then work/, then .staging/ *)

ReadBeat(g) ==
  /\ pc[g] = "readBeat"
  /\ GoTo(g, IF heart = {} \/ Live(g) THEN "list" ELSE "dropBeat")
  /\ UNCHANGED <<dir, age, art, beats, passes>>

\* Removes the heartbeat that is there by now.
DropBeat(g) ==
  /\ pc[g] = "dropBeat"
  /\ heart' = {} /\ heartAge' = 0
  /\ GoTo(g, "list")
  /\ UNCHANGED <<dir, age, art, ticking, writing, skipped, passes>>

List(g) ==
  /\ pc[g] = "list"
  /\ todo' = [todo EXCEPT ![g] = {p \in Proc : root[g] \in dir[p]}]
  /\ GoTo(g, "scan")
  /\ UNCHANGED <<dir, age, art, beats, root, entry, passAge, owed>>

\* An entry is skipped if the heartbeat of its slug is live.
Scan(g, p) ==
  /\ pc[g] = "scan" /\ p \in todo[g]
  /\ todo' = [todo EXCEPT ![g] = @ \ {p}]
  /\ IF Live(g) THEN UNCHANGED <<pc, entry>>
                ELSE GoTo(g, "check") /\ entry' = [entry EXCEPT ![g] = {p}]
  /\ UNCHANGED <<dir, age, art, beats, root, passAge, owed>>

\* And if its pid is alive, it vanished meanwhile, or it is not old enough.
OldEnough(p) == age[p] >= StaleAge

Check(g) ==
  /\ pc[g] = "check"
  /\ \E p \in entry[g] :
       IF root[g] \in dir[p] /\ ~PidAlive(g, p) /\ OldEnough(p)
         THEN GoTo(g, "remove") /\ UNCHANGED entry
         ELSE GoTo(g, "scan") /\ entry' = [entry EXCEPT ![g] = {}]
  /\ UNCHANGED <<dir, age, art, beats, root, todo, passAge, owed>>

Remove(g) ==
  /\ pc[g] = "remove"
  /\ \E p \in entry[g] : SetDir(p, dir[p] \ {root[g]})
  /\ entry' = [entry EXCEPT ![g] = {}]
  /\ GoTo(g, "scan")
  /\ UNCHANGED <<art, beats, root, todo, passAge, owed>>

\* The directory is done. Slip: .staging/ is not walked.
WorkOnly(g) == root[g] = "work"
LastRoot(g) == root[g] = ".staging"

NextRoot(g) ==
  /\ pc[g] = "scan" /\ todo[g] = {}
  /\ IF LastRoot(g)
       THEN /\ GoTo(g, "ready")
            /\ passAge' = [passAge EXCEPT ![g] = 0]
            /\ owed' = [owed EXCEPT ![g] = {}]
            /\ UNCHANGED root
       ELSE /\ GoTo(g, "list")
            /\ root' = [root EXCEPT ![g] = ".staging"]
            /\ UNCHANGED <<passAge, owed>>
  /\ UNCHANGED <<dir, age, art, beats, todo, entry>>

--------------------------------------------------------------------------------
(* tryBuild under the exclusive lock of the slug *)

Lock(p) ==
  /\ pc[p] = "ready" /\ \A q \in Proc : pc[q] \notin Building
  /\ GoTo(p, "locked")
  /\ UNCHANGED <<dir, age, art, beats, passes>>

\* startHeartbeat writes the first beat itself; a write that fails is only logged.
StartBeat(p) ==
  /\ pc[p] = "locked"
  /\ \/ heart' = {p} /\ heartAge' = 0
     \/ p \notin Reliable /\ UNCHANGED <<heart, heartAge>>
  /\ ticking' = [ticking EXCEPT ![p] = TRUE]
  /\ skipped' = [skipped EXCEPT ![p] = 0]
  /\ NothingOwed
  /\ GoTo(p, "mkdirs")
  /\ UNCHANGED <<dir, age, art, writing, root, todo, entry, passAge>>

MakeDirs(p) ==
  /\ pc[p] = "mkdirs"
  /\ dir' = [dir EXCEPT ![p] = {"work", ".staging"}]
  /\ age' = [age EXCEPT ![p] = 0]
  /\ GoTo(p, "building")
  /\ UNCHANGED <<art, beats, passes>>

\* The ticker goroutine: a temporary file, then a rename.
BeginBeat(p) ==
  /\ ticking[p] /\ ~writing[p]
  /\ writing' = [writing EXCEPT ![p] = TRUE]
  /\ UNCHANGED <<pc, dir, age, art, heart, heartAge, ticking, skipped, passes>>

EndBeat(p) ==
  /\ writing[p]
  /\ writing' = [writing EXCEPT ![p] = FALSE]
  /\ heart' = {p} /\ heartAge' = 0
  /\ skipped' = [skipped EXCEPT ![p] = 0]
  /\ NothingOwed
  /\ UNCHANGED <<pc, dir, age, art, ticking, root, todo, entry, passAge>>

\* The second directory cannot be made; or the build, the manifest or publish
\* fails, the last perhaps after it moved the old artifact away. work/ is left for
\* inspection.
MakeDirsFails(p) ==
  /\ pc[p] = "mkdirs"
  /\ \E made \in SUBSET {"work"} : SetDir(p, made)
  /\ GoTo(p, "closeFailed")
  /\ UNCHANGED <<art, beats, passes>>

BuildFails(p) ==
  /\ pc[p] = "building"
  /\ \E moved \in {FALSE, art} :
       /\ SetDir(p, (dir[p] \ {".staging"}) \cup (IF moved THEN {".trash"} ELSE {}))
       /\ art' = (art /\ ~moved)
  /\ GoTo(p, "closeFailed")
  /\ UNCHANGED <<beats, passes>>

Publish(p) ==
  /\ pc[p] = "building" /\ ".staging" \in dir[p]
  /\ SetDir(p, (dir[p] \ {".staging"}) \cup (IF art THEN {".trash"} ELSE {}))
  /\ art' = TRUE
  /\ GoTo(p, "published")
  /\ UNCHANGED <<beats, passes>>

DropWork(p) ==
  /\ pc[p] = "published"
  /\ SetDir(p, IF p \in KeepWork THEN dir[p] ELSE dir[p] \ {"work"})
  /\ GoTo(p, "closeBuilt")
  /\ UNCHANGED <<art, beats, passes>>

EmptyTrash(p) ==
  /\ Running(p) /\ ".trash" \in dir[p]
  /\ SetDir(p, dir[p] \ {".trash"})
  /\ UNCHANGED <<pc, art, beats, passes>>

\* beat.close stops the ticker, waits for it and removes the file. Slip: no wait.
NotAwaited(p) == pc[p] \in Building
TickerIdle(p) == ~writing[p]

CloseBeat(p) ==
  /\ pc[p] \in {"closeBuilt", "closeFailed"} /\ TickerIdle(p)
  /\ ticking' = [ticking EXCEPT ![p] = FALSE]
  /\ heart' = {} /\ heartAge' = 0
  /\ skipped' = [skipped EXCEPT ![p] = 0]
  /\ GoTo(p, IF pc[p] = "closeBuilt" THEN "built" ELSE "gaveUp")
  /\ UNCHANGED <<dir, age, art, writing, passes>>

--------------------------------------------------------------------------------
(* Specification *)

CollectStep(g) ==
  \/ ReadBeat(g) \/ DropBeat(g) \/ List(g) \/ Check(g) \/ Remove(g) \/ NextRoot(g)
  \/ \E p \in Proc : Scan(g, p)

BuildStep(p) ==
  \/ Lock(p) \/ StartBeat(p) \/ MakeDirs(p) \/ BeginBeat(p) \/ EndBeat(p)
  \/ MakeDirsFails(p) \/ BuildFails(p) \/ Publish(p) \/ DropWork(p)
  \/ EmptyTrash(p) \/ CloseBeat(p)

Next ==
  \/ Tick
  \/ \E p \in Proc : CollectStep(p) \/ BuildStep(p) \/ Launch(p) \/ Kill(p) \/ Exit(p)

Spec == Init /\ [][Next]_vars

--------------------------------------------------------------------------------
(* Properties *)

TypeOK ==
  /\ pc \in [Proc -> Stages]
  /\ dir \in [Proc -> SUBSET {"work", ".staging", ".trash"}]
  /\ age \in [Proc -> 0..StaleAge]
  /\ art \in BOOLEAN
  /\ heart \in SUBSET Proc /\ Cardinality(heart) <= 1 /\ heartAge \in 0..LiveFor
  /\ ticking \in [Proc -> BOOLEAN] /\ writing \in [Proc -> BOOLEAN]
  /\ \A p \in Proc : writing[p] => ticking[p]
  /\ skipped \in [Proc -> 0..(MaxSkips + 1)]
  /\ root \in [Proc -> {"work", ".staging"}]
  /\ todo \in [Proc -> SUBSET Proc] /\ entry \in [Proc -> SUBSET Proc]
  /\ passAge \in [Proc -> 0..PassTime]
  /\ owed \in [Proc -> SUBSET (Proc \X {"work", ".staging", ".trash"})]

\* No pass removes a directory of a build in progress, however long the build
\* and in whichever PID namespace it runs; unless the builder's beats fail, and
\* then only a collector of another namespace does.
LostToStranger(p) ==
  p \notin Reliable /\ \E g \in Proc : Namespace[g] # Namespace[p] /\ pc'[g] # pc[g]
LiveScratchSpared ==
  [][\A p \in Proc :
       pc[p] = "building" /\ pc'[p] = "building" => dir'[p] = dir[p] \/ LostToStranger(p)]_vars

PassEnds(g) == pc[g] = "scan" /\ pc'[g] = "ready"

\* A pass leaves no work or staging tree behind that was abandoned when it
\* started, unless a process turned up meanwhile that may own it.
PassCollects ==
  [][\A g \in Proc : PassEnds(g) =>
       \A p \in Proc, r \in {"work", ".staging"} :
         <<p, r>> \in owed[g] => r \notin dir[p]]_vars

\* A heartbeat never outlives its build in a process that goes on: only a killed
\* builder leaves one behind for status to misreport.
NoGhostHeartbeat ==
  \A p \in heart : pc[p] \in Building \/ pc[p] = "killed"

================================================================================
