-------------------------------- MODULE Rebuilds -------------------------------
(***************************************************************************)
(* One dist/ over a history of edits and commands. A command plans jobs,   *)
(* takes what has the right key from dist/, and builds the rest; then, or  *)
(* half-way, somebody edits the configuration, re-publishes a toolchain,   *)
(* asks for something else, or goes on from another machine.               *)
(*                                                                         *)
(* Jobs come one at a time here and builds do not fail: processes that     *)
(* race, locks and crashes are in BuildEngine. A world does not change     *)
(* while a job is built.                                                   *)
(***************************************************************************)
EXTENDS Recipes

CONSTANTS
  World,       \* the sets of turned knobs that occur
  Start,       \* the one it begins with
  Commands,    \* the commands that are given
  Depth,       \* number of levels of the deepest job graph
  Order,       \* [Job -> Nat]: dependencies first
  MaxChanges,  \* bound: edits and new commands
  MaxHasty,    \* bound: how many of them may interrupt a plan
  Key(_, _),   \* the key of a job in a world
  KeyDoc(_),   \* the document a key is the hash of
  Baked(_),    \* what a build makes of what it reads
  Content(_, _) \* what a build from nothing would make of a job in a world

ASSUME CommandsAssumption ==
  \A o \in Commands :
    /\ o.verify \in Level /\ o.profile \in Profile
    /\ \A t \in o.targets : <<o.host, t>> \in Makes(o.profile)
    /\ o.kit => <<o.host, o.host>> \in Builds

ASSUME BoundsAssumption == Start \in World /\ Depth \in Nat /\ MaxChanges \in Nat /\ MaxHasty \in Nat

ASSUME OrderAssumption ==
  /\ Order \in [Job -> Nat]
  /\ \A w \in World, j \in Job : \A d \in Deps(w, j) \cup Parts(w, j) :
       d \in Job /\ Order[d] < Order[j]

\* A key is the hash of the job's name, its inputs and its dependencies' keys.
\* The hash is taken to be injective: it determines what was hashed.
ASSUME KeyAssumption ==
  \A w \in World, j \in Job :
    KeyDoc(Key(w, j)) =
      [slug |-> Slug(w, j), inputs |-> Inputs(w, j), deps |-> {Key(w, d) : d \in Deps(w, j)}]

\* A build is a function of what it reads: its own inputs and the content of
\* other artifacts.
Reads(w, j, parts) == [slug |-> Slug(w, j), uses |-> Uses(w, j), parts |-> parts]

ASSUME ContentAssumption ==
  \A w \in World, j \in Job :
    Content(w, j) = Baked(Reads(w, j, {Content(w, d) : d \in Parts(w, j)}))

VARIABLES
  world,     \* the configuration, the assets and the toolchains as they are
  command,   \* what was asked for
  wanted,    \* the jobs of its graph
  store,     \* the artifacts in dist/: place, key and content
  proven,    \* history: the contents that passed a level of verification
  changes    \* counter behind MaxChanges

vars == <<world, command, wanted, store, proven, changes>>

--------------------------------------------------------------------------------
(* Planning *)

Roots(o) ==
  IF o.kit THEN {Kit(o.host, o.verify)}
  ELSE {IF o.pack THEN Pack(o.profile, o.host, t, o.verify)
        ELSE IF o.verify # "none" THEN Verify(o.profile, o.host, t, o.verify)
        ELSE Interpreter(o.profile, o.host, t) : t \in o.targets}

\* Some jobs and everything they depend on.
Closure(w, jobs) ==
  LET reach[n \in 0..Depth] ==
        IF n = 0 THEN jobs
        ELSE LET nearer == reach[n - 1] IN nearer \cup UNION {Deps(w, j) : j \in nearer}
  IN reach[Depth]

Graph(w, o) == Closure(w, Roots(o))
Below(w, j) == Closure(w, {j})

ASSUME DepthAssumption ==
  \A w \in World, j \in Job :
    LET below == Below(w, j) IN \A d \in below : Deps(w, d) \subseteq below

--------------------------------------------------------------------------------
(* Artifacts *)

Valid(w, j) ==
  LET at == Place(w, j)
      key == Key(w, j)
  IN \E a \in store : a.key = key /\ a.at = at

Artifact(w, j) ==
  LET at == Place(w, j)
      key == Key(w, j)
  IN CHOOSE a \in store : a.key = key /\ a.at = at

\* What a build of j makes of the artifacts it finds.
Made(w, j) == Baked(Reads(w, j, {Artifact(w, d).content : d \in Parts(w, j)}))

\* Publishing replaces whatever is at the place.
Publish(at, key, content) ==
  store' = {a \in store : a.at # at} \cup {[at |-> at, key |-> key, content |-> content]}

--------------------------------------------------------------------------------
(* Steps *)

Init ==
  /\ world = Start
  /\ command \in Commands
  /\ wanted = Graph(world, command)
  /\ store = {} /\ proven = {}
  /\ changes = 0

Missing == {j \in wanted : ~Valid(world, j)}

Change ==
  /\ changes < MaxChanges
  /\ changes >= MaxHasty => Missing = {}
  /\ changes' = changes + 1
  /\ wanted' = Graph(world', command')
  /\ UNCHANGED <<store, proven>>

\* Something is edited, taken back or re-published; the command is run again.
Edit(w) == w # world /\ world' = w /\ UNCHANGED command /\ Change

\* Another command, on this machine or on another one that shares dist/.
Ask(o) == o # command /\ command' = o /\ UNCHANGED world /\ Change

\* Which of several independent jobs goes first does not show in dist/.
First(jobs) == CHOOSE j \in jobs : \A i \in jobs : Order[j] <= Order[i]

\* A verification that fails publishes nothing; one that passes proves its
\* interpreter, unless it was skipped.
Proves(w, j) ==
  IF j.kind = "verify" /\ ~SkipRequested(w)
  THEN {[level |-> j.level, content |-> Artifact(w, InterpreterOf(j)).content]} ELSE {}

Build(j) ==
  /\ \A d \in Deps(world, j) \cup Parts(world, j) : Valid(world, d)
  /\ Publish(Place(world, j), Key(world, j), Made(world, j))
  /\ proven' = proven \cup Proves(world, j)
  /\ UNCHANGED <<world, command, wanted, changes>>

BuildNext ==
  LET missing == Missing IN
  missing # {} /\ \E j \in {First(missing)} : Build(j)

Finished == Missing = {} /\ changes = MaxChanges /\ UNCHANGED vars

Next ==
  \/ \E w \in World : Edit(w)
  \/ \E o \in Commands : Ask(o)
  \/ BuildNext
  \/ Finished

Spec == Init /\ [][Next]_vars /\ WF_vars(BuildNext)

--------------------------------------------------------------------------------
(* Properties *)

\* "Rebuilding with identical inputs is a no-op, changing one configure flag
\* rebuilds exactly what depends on it" (cli/help.go), safely: whatever edits
\* and commands filled dist/, an artifact with the key a job has now is what
\* building the job now, from nothing, would give.
AlwaysFresh ==
  \A j \in wanted : Valid(world, j) => Artifact(world, j).content = Content(world, j)

\* ... and exactly: an edit that moves the key of a source tree, a library, a
\* probe, a sysroot or an interpreter changes what its build would give, unless it
\* moves a setting that is hashed in vain for the job or for one below it.
Bookkeeping == {"verify", "pack", "kit"}
Moved(j) == j.kind \notin Bookkeeping /\ Key(world, j) # Key(world', j)
RebuildsAreNeeded ==
  [][\A j \in wanted \cap wanted' :
       Moved(j) => \/ Content(world, j) # Content(world', j)
                   \/ \E d \in Below(world, j) : Ignored(world, d) # Ignored(world', d)]_vars

\* "An unverified interpreter is never packed" (pack.go), over skipped
\* verifications, packs of earlier commands without --verify, and interpreters
\* rebuilt since: the interpreter in an archive that counts as built under
\* --verify did pass that level.
PackedIsVerified ==
  \A j \in wanted :
    (j.kind = "pack" /\ j.level # "none" /\ ~SkipRequested(world) /\ Valid(world, j)) =>
      \E p \in proven :
        /\ p.level = j.level
        /\ Artifact(world, j).content = Baked(Reads(world, j, {p.content}))

\* A plan gets done: no two of its jobs take each other's place.
EveryPlanCompletes == <>[](Missing = {})

--------------------------------------------------------------------------------
(* What the keys overlook *)

\* Knobs that builds read and keys do not: make_vars of packages; a machine's
\* native toolchain, where packages have helpers compiled with it; the suite's
\* pins and the target's ABI in a kit; and target patches of CPython for a triple
\* that builds the reference interpreter.
Overlooked ==
  {<<"make_vars", p, f>> : p \in Package, f \in Profile \cup {""}}
  \cup {<<"native", h, h>> : h \in IF RunsHelpers = {} THEN {} ELSE Host}
  \cup {<<"pins">>} \cup {<<"abi", h>> : h \in Host}
  \cup {<<"target_patches", "python", h>> : h \in Host}

\* None of them is touched, and no machine has a cross toolchain for itself,
\* which pyhost's key would not show.
NothingOverlooked ==
  /\ \A w, v \in World : w \cap Overlooked = v \cap Overlooked
  /\ \A h \in Host : <<h, h>> \notin CrossTree
================================================================================
