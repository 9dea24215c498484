------------------------------ MODULE BuildEngine ------------------------------
(***************************************************************************)
(* The build engine of internal/core: staticpy processes that share one    *)
(* dist/ directory, each running a DAG of jobs with one goroutine per job. *)
(* A job is skipped when the artifact on disk carries its Merkle key, and  *)
(* otherwise built under an exclusive flock on its own slug and shared     *)
(* flocks on its direct dependencies, then published by renames.           *)
(*                                                                         *)
(* One step of this model is one point at which another goroutine or       *)
(* another process can observe or change something: a lock-free look at a  *)
(* manifest, one flock attempt, one artifact opened by Build, one rename.  *)
(***************************************************************************)
EXTENDS Naturals, FiniteSets

CONSTANTS
  Proc,          \* processes that may run against the shared dist/
  Job,           \* job slugs
  Config,        \* configurations a process can be started with
  Deps,          \* [Job -> SUBSET Job]: Job.Deps, what is locked and keyed
  Reads,         \* [Job -> SUBSET Job]: artifacts whose files Build opens
  Rank,          \* [Job -> Nat]: position of a slug in the sorted order
  Input,         \* [Config -> [Job -> value]]: Job.KeyInputs
  Key,           \* [Config -> [Job -> value]]: the Merkle key, core.Key
  Product,       \* [Config -> [Job -> value]]: what Build yields undisturbed
  Workers,       \* Env.Workers: jobs one process builds at a time
  MaxLaunches,   \* bound: processes started in one behaviour
  MaxCrashes,    \* bound: processes killed in one behaviour
  MaxSignals,    \* bound: runs interrupted by the user in one behaviour
  MaxFailures    \* bound: builds and renames that fail in one behaviour

(***************************************************************************)
(* The key of a job is its inputs and the keys of its dependencies; two    *)
(* keys are equal only when those are (SHA-256 is taken as injective).     *)
(***************************************************************************)
ASSUME MerkleAssumption ==
  \A c \in Config, j \in Job :
    Key[c][j] = [input |-> Input[c][j], deps |-> [d \in Deps[j] |-> Key[c][d]]]

\* What a build makes is a function of its inputs and of what it reads.
ASSUME ProductAssumption ==
  \A c \in Config, j \in Job :
    Product[c][j] = [input |-> Input[c][j],
                     parts |-> {<<d, Product[c][d]>> : d \in Reads[j]}]

\* Job.Deps is acyclic (computeKey rejects a cycle) and slugs are ordered.
ASSUME GraphAssumption ==
  /\ Deps \in [Job -> SUBSET Job]
  /\ Reads \in [Job -> SUBSET Job]
  /\ Rank \in [Job -> Nat]
  /\ \A i, j \in Job : Rank[i] = Rank[j] => i = j

ASSUME BoundsAssumption ==
  /\ Config # {}
  /\ Workers \in Nat \ {0}
  /\ MaxLaunches \in Nat /\ MaxCrashes \in Nat
  /\ MaxSignals \in Nat /\ MaxFailures \in Nat

VARIABLES
  \* dist/, shared by every process
  art,           \* [Job -> set of at most one artifact]: {} is "no directory"
  excl,          \* [Job -> SUBSET Proc]: processes holding LOCK_EX on the slug
  shared,        \* [Job -> SUBSET (Proc \X Job)]: goroutines holding LOCK_SH
  \* one Run per process
  life,          \* what the process is doing, or what its Run returned
  conf,          \* the configuration it was started with
  interrupted,   \* ctx is cancelled: the user asked it to stop
  cancelled,     \* runCtx is cancelled: interrupted, or a job failed
  firstErr,      \* set of at most one job: the failure Run will report
  slots,         \* jobs occupying the worker semaphore
  trash,         \* jobs whose replaced artifact is still being deleted
  \* one goroutine per node
  pc, err, tries, got,
  \* counters behind the bounds
  launches, crashes, signals, failures

dist == <<art, excl, shared>>
runs == <<life, conf, interrupted, cancelled, firstErr, slots, trash>>
counters == <<launches, crashes, signals, failures>>
vars == <<dist, runs, pc, err, tries, got, counters>>

Running == "running"
Stages == {"waiting", "queued", "lookup", "lockOwn", "pollOwn", "recheck",
           "lockDeps", "pollDeps", "checkDeps", "build", "publish",
           "promote", "unlock", "finish", "done"}

\* The stages of tryBuild in which a goroutine holds its slug's exclusive lock.
OwnStages == {"recheck", "lockDeps", "pollDeps", "checkDeps", "build",
              "publish", "promote"}
\* Where Build's guarantee applies: every dependency validated and locked.
BuildStages == {"build", "publish", "promote"}

Errors == {"none", "skipped", "canceled", "failed", "depChanged"}

Attempts == 3

--------------------------------------------------------------------------------
(* Helpers *)

\* validAt: the directory exists and its manifest carries this key.
ValidAt(j, k) == \E a \in art[j] : a.key = k

MyKey(p, j) == Key[conf[p]][j]

\* The artifact a process publishes: its manifest and what Build put in stage.
Built(p, j) == [key |-> MyKey(p, j),
                body |-> [input |-> Input[conf[p]][j], parts |-> got[p][j]]]

At(p, j, s) == life[p] = Running /\ pc[p][j] = s
GoTo(p, j, s) == pc' = [pc EXCEPT ![p][j] = s]

\* Leave tryBuild with this error; the deferred releases run at "unlock".
Bail(p, j, e) ==
  /\ pc' = [pc EXCEPT ![p][j] = "unlock"]
  /\ err' = [err EXCEPT ![p][j] = e]

\* The dependencies whose read lock this goroutine already holds.
Held(p, j) == {d \in Job : <<p, j>> \in shared[d]}

\* n.deps is sorted by slug: the next lock to take is the least one missing.
NextDep(p, j, d) ==
  /\ d \in Deps[j] \ Held(p, j)
  /\ \A e \in Deps[j] \ Held(p, j) : Rank[d] <= Rank[e]

\* flock: LOCK_EX excludes every other lease, LOCK_SH only an exclusive one.
\* Slips (not the code) are defined before what they would replace, here a lock
\* that ignores leases of the other kind.
FreeForExclIgnoringReaders(j) == excl[j] = {}
FreeForSharedIgnoringWriter(d) == d \in Job
FreeForExcl(j) == excl[j] = {} /\ shared[j] = {}
FreeForShared(d) == excl[d] = {}

Fail == failures < MaxFailures /\ failures' = failures + 1

--------------------------------------------------------------------------------
(* Processes: Run, and what ends it *)

Init ==
  /\ art = [j \in Job |-> {}]
  /\ excl = [j \in Job |-> {}]
  /\ shared = [j \in Job |-> {}]
  /\ life = [p \in Proc |-> "idle"]
  /\ conf = [p \in Proc |-> CHOOSE c \in Config : TRUE]
  /\ interrupted = [p \in Proc |-> FALSE]
  /\ cancelled = [p \in Proc |-> FALSE]
  /\ firstErr = [p \in Proc |-> {}]
  /\ slots = [p \in Proc |-> {}]
  /\ trash = [p \in Proc |-> {}]
  /\ pc = [p \in Proc |-> [j \in Job |-> "waiting"]]
  /\ err = [p \in Proc |-> [j \in Job |-> "none"]]
  /\ tries = [p \in Proc |-> [j \in Job |-> 1]]
  /\ got = [p \in Proc |-> [j \in Job |-> {}]]
  /\ launches = 0 /\ crashes = 0 /\ signals = 0 /\ failures = 0

\* No goroutine has started, nothing has failed.
ResetRun(p) ==
  /\ cancelled' = [cancelled EXCEPT ![p] = FALSE]
  /\ firstErr' = [firstErr EXCEPT ![p] = {}]
  /\ slots' = [slots EXCEPT ![p] = {}]
  /\ pc' = [pc EXCEPT ![p] = [j \in Job |-> "waiting"]]
  /\ err' = [err EXCEPT ![p] = [j \in Job |-> "none"]]
  /\ tries' = [tries EXCEPT ![p] = [j \in Job |-> 1]]
  /\ got' = [got EXCEPT ![p] = [j \in Job |-> {}]]

\* A process starts (again, after an exit or a crash), perhaps with another
\* configuration, and Run starts one goroutine per node.
Launch(p, c) ==
  /\ life[p] # Running
  /\ launches < MaxLaunches
  /\ launches' = launches + 1
  /\ life' = [life EXCEPT ![p] = Running]
  /\ conf' = [conf EXCEPT ![p] = c]
  /\ interrupted' = [interrupted EXCEPT ![p] = FALSE]
  /\ ResetRun(p)
  /\ UNCHANGED <<dist, trash, crashes, signals, failures>>

\* The user's ctx is cancelled; runCtx is derived from it.
Interrupt(p) ==
  /\ life[p] = Running /\ ~interrupted[p]
  /\ signals < MaxSignals
  /\ signals' = signals + 1
  /\ interrupted' = [interrupted EXCEPT ![p] = TRUE]
  /\ cancelled' = [cancelled EXCEPT ![p] = TRUE]
  /\ UNCHANGED <<dist, life, conf, firstErr, slots, trash, pc, err, tries, got,
                 launches, crashes, failures>>

\* The process is killed: the kernel drops its flocks, its files stay.
Crash(p) ==
  /\ life[p] = Running
  /\ crashes < MaxCrashes
  /\ crashes' = crashes + 1
  /\ life' = [life EXCEPT ![p] = "idle"]
  /\ excl' = [j \in Job |-> excl[j] \ {p}]
  /\ shared' = [j \in Job |-> shared[j] \ ({p} \X Job)]
  /\ interrupted' = [interrupted EXCEPT ![p] = FALSE]
  /\ trash' = [trash EXCEPT ![p] = {}]
  /\ ResetRun(p)
  /\ UNCHANGED <<art, conf, launches, signals, failures>>

\* wg.Wait and trashWG.Wait are through: Run returns firstErr or ctx.Err().
Return(p) ==
  /\ life[p] = Running
  /\ \A j \in Job : pc[p][j] = "done"
  /\ trash[p] = {}
  /\ life' = [life EXCEPT ![p] = IF firstErr[p] # {} THEN "failed"
                                 ELSE IF interrupted[p] THEN "canceled"
                                 ELSE "ok"]
  /\ UNCHANGED <<dist, conf, interrupted, cancelled, firstErr, slots, trash,
                 pc, err, tries, got, counters>>

--------------------------------------------------------------------------------
(* Nodes: scheduling *)

\* Dependencies are waited for in slug order; the first one found done with an
\* error skips the node, whatever the later ones are doing.
SkipNode(p, j) ==
  /\ At(p, j, "waiting")
  /\ \E d \in Deps[j] :
       /\ pc[p][d] = "done" /\ err[p][d] # "none"
       /\ \A e \in Deps[j] : Rank[e] < Rank[d] =>
                               pc[p][e] = "done" /\ err[p][e] = "none"
  /\ GoTo(p, j, "done")
  /\ err' = [err EXCEPT ![p][j] = "skipped"]
  /\ UNCHANGED <<dist, runs, tries, got, counters>>

DepsDone(p, j) == \A d \in Deps[j] : pc[p][d] = "done" /\ err[p][d] = "none"

\* All dependencies are built: look at runCtx, then queue for a worker slot.
Enqueue(p, j) ==
  /\ At(p, j, "waiting") /\ DepsDone(p, j) /\ ~cancelled[p]
  /\ GoTo(p, j, "queued")
  /\ UNCHANGED <<dist, runs, err, tries, got, counters>>

\* runCtx is done, at the check or in the select that waits for a slot.
GiveUp(p, j) ==
  /\ At(p, j, "queued") \/ (At(p, j, "waiting") /\ DepsDone(p, j))
  /\ cancelled[p]
  /\ GoTo(p, j, "done")
  /\ err' = [err EXCEPT ![p][j] = "canceled"]
  /\ UNCHANGED <<dist, runs, tries, got, counters>>

\* The semaphore is a channel of capacity Workers. Slip: it never fills.
SlotUnbounded(p) == p \in Proc
SlotFree(p) == Cardinality(slots[p]) < Workers

\* The select takes a free slot; it may do so even when runCtx is done too.
TakeSlot(p, j) ==
  /\ At(p, j, "queued") /\ SlotFree(p)
  /\ slots' = [slots EXCEPT ![p] = @ \cup {j}]
  /\ GoTo(p, j, "lookup")
  /\ UNCHANGED <<dist, life, conf, interrupted, cancelled, firstErr, trash,
                 err, tries, got, counters>>

--------------------------------------------------------------------------------
(* Nodes: tryBuild, up to the point where Build may run *)

\* The fast path: a lock-free look at the manifest of the own slug.
Lookup(p, j) ==
  /\ At(p, j, "lookup")
  /\ GoTo(p, j, IF ValidAt(j, MyKey(p, j)) THEN "finish" ELSE "lockOwn")
  /\ UNCHANGED <<dist, runs, err, tries, got, counters>>

\* One LOCK_EX attempt on the own slug that succeeds.
LockOwn(p, j) ==
  /\ At(p, j, "lockOwn") /\ FreeForExcl(j)
  /\ excl' = [excl EXCEPT ![j] = @ \cup {p}]
  /\ GoTo(p, j, "recheck")
  /\ UNCHANGED <<art, shared, runs, err, tries, got, counters>>

\* Someone may have built it while this goroutine waited for the lock. Slip:
\* the second look is left out.
NotLookedAgain(p, j) == j \notin Job
BuiltMeanwhile(p, j) == ValidAt(j, MyKey(p, j))

Recheck(p, j) ==
  /\ At(p, j, "recheck")
  /\ GoTo(p, j, IF BuiltMeanwhile(p, j) THEN "unlock"
                ELSE IF Deps[j] = {} THEN "checkDeps" ELSE "lockDeps")
  /\ UNCHANGED <<dist, runs, err, tries, got, counters>>

\* One LOCK_SH attempt on the next dependency that succeeds.
LockDep(p, j, d) ==
  /\ At(p, j, "lockDeps") /\ NextDep(p, j, d) /\ FreeForShared(d)
  /\ shared' = [shared EXCEPT ![d] = @ \cup {<<p, j>>}]
  /\ GoTo(p, j, IF Deps[j] \ Held(p, j) = {d} THEN "checkDeps" ELSE "lockDeps")
  /\ UNCHANGED <<art, excl, runs, err, tries, got, counters>>

\* A LOCK_NB attempt that finds the lock taken: wait 50ms or for ctx.Done.
Blocked(p, j) ==
  /\ \/ /\ At(p, j, "lockOwn") /\ ~FreeForExcl(j)
        /\ GoTo(p, j, "pollOwn")
     \/ /\ At(p, j, "lockDeps")
        /\ \E d \in Job : NextDep(p, j, d) /\ ~FreeForShared(d)
        /\ GoTo(p, j, "pollDeps")
  /\ UNCHANGED <<dist, runs, err, tries, got, counters>>

\* The timer fires: try the lock again.
PollAgain(p, j) ==
  /\ \/ At(p, j, "pollOwn") /\ GoTo(p, j, "lockOwn")
     \/ At(p, j, "pollDeps") /\ GoTo(p, j, "lockDeps")
  /\ UNCHANGED <<dist, runs, err, tries, got, counters>>

\* ctx is done while acquire waits.
Abandon(p, j) ==
  /\ At(p, j, "pollOwn") \/ At(p, j, "pollDeps")
  /\ cancelled[p]
  /\ Bail(p, j, "canceled")
  /\ UNCHANGED <<dist, runs, tries, got, counters>>

\* Under the read locks, every dependency must still carry the key this run
\* computed for it; another process may have republished it meanwhile. Slip:
\* the dependencies are trusted because their nodes succeeded.
DepsTrusted(p, j) == j \in Job
DepsStillValid(p, j) == \A d \in Deps[j] : ValidAt(d, MyKey(p, d))

CheckDeps(p, j) ==
  /\ At(p, j, "checkDeps")
  /\ IF DepsStillValid(p, j)
       THEN GoTo(p, j, "build") /\ UNCHANGED err
       ELSE Bail(p, j, "depChanged")
  /\ UNCHANGED <<dist, runs, tries, got, counters>>

--------------------------------------------------------------------------------
(* Nodes: Build and publish *)

Opened(p, j) == {part[1] : part \in got[p][j]}

\* Build opens the files of one artifact it reads.
OpenPart(p, j, d) ==
  /\ At(p, j, "build")
  /\ d \in Reads[j] \ Opened(p, j)
  /\ \E a \in art[d] : got' = [got EXCEPT ![p][j] = @ \cup {<<d, a.body>>}]
  /\ UNCHANGED <<dist, runs, pc, err, tries, counters>>

\* Build finds no such directory.
PartMissing(p, j, d) ==
  /\ At(p, j, "build")
  /\ d \in Reads[j] \ Opened(p, j) /\ art[d] = {}
  /\ Bail(p, j, "failed")
  /\ UNCHANGED <<dist, runs, tries, got, counters>>

\* A command of the recipe fails, or the file system does: opening or locking
\* a lock file, the log and scratch directories, the manifest.
AttemptFails(p, j) ==
  /\ At(p, j, "lockOwn") \/ At(p, j, "lockDeps") \/ At(p, j, "build")
  /\ Fail
  /\ Bail(p, j, "failed")
  /\ UNCHANGED <<dist, runs, tries, got, launches, crashes, signals>>

\* The running command is killed because runCtx is done.
BuildCanceled(p, j) ==
  /\ At(p, j, "build") /\ cancelled[p]
  /\ Bail(p, j, "canceled")
  /\ UNCHANGED <<dist, runs, tries, got, counters>>

\* Build is through and the manifest is stamped into the staging directory.
BuildDone(p, j) ==
  /\ At(p, j, "build") /\ Opened(p, j) = Reads[j]
  /\ GoTo(p, j, "publish")
  /\ UNCHANGED <<dist, runs, err, tries, got, counters>>

\* publish, first rename: the old artifact goes to .trash and a goroutine of
\* this process starts deleting it. The slug has no artifact now.
MoveAside(p, j) ==
  /\ At(p, j, "publish") /\ art[j] # {}
  /\ art' = [art EXCEPT ![j] = {}]
  /\ trash' = [trash EXCEPT ![p] = @ \cup {j}]
  /\ GoTo(p, j, "promote")
  /\ UNCHANGED <<excl, shared, life, conf, interrupted, cancelled, firstErr,
                 slots, err, tries, got, counters>>

\* publish, the rename that makes the staged directory the artifact.
Promote(p, j) ==
  /\ At(p, j, "promote") \/ (At(p, j, "publish") /\ art[j] = {})
  /\ art' = [art EXCEPT ![j] = {Built(p, j)}]
  /\ GoTo(p, j, "unlock")
  /\ UNCHANGED <<excl, shared, runs, err, tries, got, counters>>

\* Either rename fails; an old artifact already moved aside is not put back.
\* Slip: the error of the rename is dropped.
ErrorDropped == "none"
PublishError == "failed"

PublishFails(p, j) ==
  /\ At(p, j, "publish") \/ At(p, j, "promote")
  /\ Fail
  /\ Bail(p, j, PublishError)
  /\ UNCHANGED <<dist, runs, tries, got, launches, crashes, signals>>

\* The goroutine publish started has removed the old tree.
EmptyTrash(p, j) ==
  /\ life[p] = Running /\ j \in trash[p]
  /\ trash' = [trash EXCEPT ![p] = @ \ {j}]
  /\ UNCHANGED <<dist, life, conf, interrupted, cancelled, firstErr, slots,
                 pc, err, tries, got, counters>>

--------------------------------------------------------------------------------
(* Nodes: leaving tryBuild *)

\* leases.release.
ReleaseDeps(p, j) == shared' = [d \in Job |-> shared[d] \ {<<p, j>>}]

\* The loop counter of buildNode. Slip: it is not incremented.
SameTry(p, j) == tries[p][j]
NextTry(p, j) == tries[p][j] + 1

\* The deferred releases, in one step: one by one they only keep others waiting.
\* buildNode then retries errDepChanged, with the same keys and without rebuilding
\* the dependency, or gives up after Attempts.
Unlock(p, j) ==
  /\ At(p, j, "unlock")
  /\ excl' = [excl EXCEPT ![j] = @ \ {p}]
  /\ ReleaseDeps(p, j)
  /\ got' = [got EXCEPT ![p][j] = {}]
  /\ IF err[p][j] = "depChanged" /\ tries[p][j] < Attempts
       THEN /\ tries' = [tries EXCEPT ![p][j] = NextTry(p, j)]
            /\ err' = [err EXCEPT ![p][j] = "none"]
            /\ GoTo(p, j, "lookup")
       ELSE /\ err' = [err EXCEPT ![p][j] = IF @ = "depChanged" THEN "failed" ELSE @]
            /\ GoTo(p, j, "finish")
            /\ UNCHANGED tries
  /\ UNCHANGED <<art, runs, counters>>

\* fail: the first real failure is kept and cancels runCtx; a cancellation is
\* no failure. Slip: runCtx is cancelled, the failure is not kept.
CancelOnly(p, j) ==
  /\ cancelled' = [cancelled EXCEPT ![p] = @ \/ err[p][j] = "failed"]
  /\ UNCHANGED firstErr
RecordFailure(p, j) ==
  IF err[p][j] = "failed" /\ firstErr[p] = {}
    THEN /\ firstErr' = [firstErr EXCEPT ![p] = {j}]
         /\ cancelled' = [cancelled EXCEPT ![p] = TRUE]
    ELSE UNCHANGED <<firstErr, cancelled>>

\* n.err is set, fail is called, the slot is returned and n.done is closed.
Finish(p, j) ==
  /\ At(p, j, "finish")
  /\ RecordFailure(p, j)
  /\ slots' = [slots EXCEPT ![p] = @ \ {j}]
  /\ GoTo(p, j, "done")
  /\ UNCHANGED <<dist, life, conf, interrupted, trash, err, tries, got, counters>>

--------------------------------------------------------------------------------
(* Specification *)

\* What the goroutine of one node does when nothing fails around it.
Node(p, j) ==
  \/ SkipNode(p, j) \/ Enqueue(p, j) \/ GiveUp(p, j) \/ TakeSlot(p, j)
  \/ Lookup(p, j) \/ LockOwn(p, j) \/ Recheck(p, j)
  \/ Blocked(p, j) \/ PollAgain(p, j) \/ Abandon(p, j)
  \/ CheckDeps(p, j)
  \/ \E d \in Job : LockDep(p, j, d) \/ OpenPart(p, j, d) \/ PartMissing(p, j, d)
  \/ BuildCanceled(p, j) \/ BuildDone(p, j)
  \/ MoveAside(p, j) \/ Promote(p, j)
  \/ Unlock(p, j) \/ Finish(p, j)

Environment(p) ==
  \/ \E c \in Config : Launch(p, c)
  \/ Interrupt(p) \/ Crash(p)
  \/ \E j \in Job : AttemptFails(p, j) \/ PublishFails(p, j)

\* Nobody is building: the shared dist/ may stay as it is for ever.
Quiet == (\A p \in Proc : life[p] # Running) /\ UNCHANGED vars

Next ==
  \/ \E p \in Proc :
       \/ Environment(p) \/ Return(p)
       \/ \E j \in Job : Node(p, j) \/ EmptyTrash(p, j)
  \/ Quiet

Spec == Init /\ [][Next]_vars

(***************************************************************************)
(* Fairness: the Go scheduler and the kernel keep running goroutines that  *)
(* can run, and a recipe's commands end (Build has no timeout of its own). *)
(* Nothing makes a process start, stop, crash or fail.                     *)
(***************************************************************************)
Fairness ==
  \A p \in Proc :
    /\ WF_vars(Return(p))
    /\ \A j \in Job : WF_vars(Node(p, j)) /\ WF_vars(EmptyTrash(p, j))

FairSpec == Spec /\ Fairness

--------------------------------------------------------------------------------
(* Properties *)

\* The shape of every variable.
ShapeOK ==
  /\ art = [j \in Job |-> art[j]]
  /\ excl \in [Job -> SUBSET Proc]
  /\ shared \in [Job -> SUBSET (Proc \X Job)]
  /\ life \in [Proc -> {"idle", Running, "ok", "failed", "canceled"}]
  /\ conf \in [Proc -> Config]
  /\ interrupted \in [Proc -> BOOLEAN]
  /\ cancelled \in [Proc -> BOOLEAN]
  /\ firstErr \in [Proc -> SUBSET Job]
  /\ slots \in [Proc -> SUBSET Job]
  /\ trash \in [Proc -> SUBSET Job]
  /\ pc \in [Proc -> [Job -> Stages]]
  /\ err \in [Proc -> [Job -> Errors]]
  /\ tries \in [Proc -> [Job -> 1..Attempts]]
  /\ got = [p \in Proc |-> [j \in Job |-> got[p][j]]]
  /\ launches \in 0..MaxLaunches /\ crashes \in 0..MaxCrashes
  /\ signals \in 0..MaxSignals /\ failures \in 0..MaxFailures

OneArtifact == \A j \in Job : \A a, b \in art[j] : a = b
SlotsBounded ==
  \A p \in Proc : IsFiniteSet(slots[p]) /\ Cardinality(slots[p]) <= Workers

\* Every variable has its type, a slug has at most one artifact, and a process
\* never builds more jobs at a time than it has worker slots.
TypeOK == ShapeOK /\ OneArtifact /\ SlotsBounded

\* An artifact is what its key promises: whichever process built it, beside
\* whatever other builds, crashes and retries, it equals the product of every
\* configuration that computes this key, so taking it from the cache is sound.
KeyNamesContent ==
  \A j \in Job, c \in Config :
    \A a \in art[j] : a.key = Key[c][j] => a.body = Product[c][j]

\* While Build runs and until it is published, every direct dependency stays
\* read-locked and stays at the key this run computed for it: the contract of
\* Job.Build.
BuildsOnPinnedDeps ==
  \A p \in Proc, j \in Job :
    life[p] = Running /\ pc[p][j] \in BuildStages =>
      \A d \in Deps[j] : <<p, j>> \in shared[d] /\ ValidAt(d, MyKey(p, d))

\* A run that returns nil hides no failed, skipped or cancelled node; one that
\* returns an error names a job that did fail; and no node is skipped or
\* cancelled in a run nobody interrupted and no job of which failed.
EndingsAreExplained ==
  \A p \in Proc :
    /\ life[p] = "ok" => \A j \in Job : err[p][j] = "none"
    /\ life[p] = "failed" => \E j \in firstErr[p] : err[p][j] = "failed"
    /\ \A j \in Job : pc[p][j] = "done" /\ err[p][j] \in {"skipped", "canceled"} =>
                       interrupted[p] \/ firstErr[p] # {}

\* No artifact is replaced or removed while any goroutine of any process holds
\* a read lock on it.
LeasesPinArtifacts ==
  [][\A j \in Job : art'[j] # art[j] => shared[j] = {}]_vars

\* A job is rebuilt only when its key changed: an artifact leaves its place
\* only for a process that holds the slug's lock and wants another key, also
\* when several processes decided to build it at the same time.
RebuiltOnlyOnNewKey ==
  [][\A j \in Job : art[j] # {} /\ art'[j] # art[j] =>
       \E p \in Proc : /\ excl[j] = {p}
                       /\ \A a \in art[j] : a.key # MyKey(p, j)]_vars

\* When all processes run one configuration, everything a successful run was
\* asked for is on disk when it returns and afterwards, whatever crashes and
\* failures the other processes have.
ReturnedRunsAreBuilt ==
  \A p \in Proc : life[p] = "ok" => \A j \in Job : ValidAt(j, MyKey(p, j))

\* Processes of one configuration never make each other retry: errDepChanged
\* needs a rival with other keys.
PeersDoNotFight == \A p \in Proc, j \in Job : tries[p][j] = 1

\* Every run ends, whatever it has to wait for: no lock is waited for in a
\* cycle, none is left behind, and retries are bounded.
EveryRunEnds == \A p \in Proc : life[p] = Running ~> life[p] # Running

--------------------------------------------------------------------------------
(* The inductive invariant behind the safety properties *)

\* flock: an exclusive lease is alone.
LocksExclude == \A j \in Job : \A p \in excl[j] : excl[j] = {p} /\ shared[j] = {}

\* From recheck to the last rename a goroutine owns its slug; past recheck it
\* has seen that the artifact is not the one it wants; between the renames
\* there is none.
OwnersHoldTheSlug ==
  \A p \in Proc, j \in Job : life[p] = Running =>
    /\ pc[p][j] \in OwnStages => p \in excl[j]
    /\ pc[p][j] \in OwnStages \ {"recheck"} => ~ValidAt(j, MyKey(p, j))
    /\ pc[p][j] = "promote" => art[j] = {}

\* The read locks are all taken before the dependencies are looked at.
ReadersHoldTheirDeps ==
  \A p \in Proc, j \in Job : life[p] = Running =>
    /\ pc[p][j] = "checkDeps" => \A d \in Deps[j] : <<p, j>> \in shared[d]
    /\ pc[p][j] \in BuildStages =>
         \A d \in Deps[j] : <<p, j>> \in shared[d] /\ ValidAt(d, MyKey(p, d))

\* What Build has opened so far is, part by part, the product of every
\* configuration that gives the part this key.
PartsAreCurrent ==
  \A p \in Proc, j \in Job : life[p] = Running =>
    /\ pc[p][j] \in BuildStages =>
         \A part \in got[p][j] :
           /\ part[1] \in Reads[j] /\ part = <<part[1], part[2]>>
           /\ \A c \in Config : Key[c][part[1]] = MyKey(p, part[1]) =>
                                  part[2] = Product[c][part[1]]
    /\ pc[p][j] \in {"publish", "promote"} => Opened(p, j) = Reads[j]
    /\ pc[p][j] \notin BuildStages \cup {"unlock"} => got[p][j] = {}

\* The part that is about locks alone, whatever Build reads.
Disciplined == LocksExclude /\ OwnersHoldTheSlug /\ ReadersHoldTheirDeps

\* Holds when Build reads only what it locks; KeyNamesContent needs all of it.
Coherent == Disciplined /\ PartsAreCurrent /\ KeyNamesContent

\* Build opens nothing but the artifacts of its direct dependencies.
ReadsOnlyDeps == \A j \in Job : Reads[j] \subseteq Deps[j]

--------------------------------------------------------------------------------
(* The inductive invariants behind the endings of runs *)

\* Somebody stopped the run, or it knows of a failure.
Explained(p) == interrupted[p] \/ firstErr[p] # {}

\* Every error has its cause on record before anybody can see it, and the
\* errDepChanged of an attempt is gone when its locks are.
CausesAreKept ==
  \A p \in Proc :
    /\ life[p] = "ok" => \A j \in Job : pc[p][j] = "done" /\ err[p][j] = "none"
    /\ life[p] = "failed" => firstErr[p] # {}
    /\ cancelled[p] => Explained(p)
    /\ \A j \in firstErr[p] : pc[p][j] = "done" /\ err[p][j] = "failed"
    /\ \A j \in Job :
         /\ err[p][j] = "canceled" => cancelled[p]
         /\ err[p][j] = "skipped" => Explained(p)
         /\ err[p][j] = "failed" /\ pc[p][j] = "done" => firstErr[p] # {}
         /\ err[p][j] = "depChanged" => pc[p][j] = "unlock"

\* Only one configuration is in use.
OneConfiguration == \A c, d \in Config : c = d

\* With one configuration an artifact that was found or made stays: a node that
\* goes on has its dependencies, and one that is through has its own.
WorkIsNotUndone ==
  \A p \in Proc, j \in Job :
    /\ pc[p][j] \notin {"waiting", "done"} => DepsDone(p, j)
    /\ pc[p][j] \in {"unlock", "finish", "done"} /\ err[p][j] = "none"
         => ValidAt(j, MyKey(p, j))
    /\ err[p][j] # "depChanged" /\ tries[p][j] = 1

(***************************************************************************)
(* The engine implements ArtifactStore: a slot is pinned by the goroutines *)
(* that hold its read lock and have validated it.                          *)
(***************************************************************************)
Pinned(d) == {t \in shared[d] : pc[t[1]][t[2]] \in BuildStages}

Store == INSTANCE ArtifactStore
           WITH Slot <- Job, Maker <- Proc \X Job, Needs <- Deps,
                shelf <- art, pins <- [d \in Job |-> Pinned(d)]

\* Seen through its artifacts and validated read locks, the engine only ever
\* pins, lets go, withdraws for a new key, and stocks what the key promises.
ImplementsStore == Store!Spec

================================================================================
