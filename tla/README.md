# staticpy in TLA+

A verification development kept beside `staticpy`, the tool that builds static
CPython interpreters: TLA+ modules translated from its Go and shell sources,
TLC configurations that check them on small instances, and TLAPS proofs of what
holds for every value of the constants. Paths below are relative to `src/`;
`core/`, `sources/`, `recipe/`, ... stand for `src/staticpy/internal/core/` and so on.

1. [The system](#1-the-system)
2. [Plan](#2-plan)
3. [The modules and the code](#3-the-modules-and-the-code)
4. [The runs](#4-the-runs)
5. [What is proved](#5-what-is-proved)
6. [Where the code and its documentation disagree](#6-where-the-code-and-its-documentation-disagree)
7. [What is not modelled](#7-what-is-not-modelled)

## 1. The system

`staticpy` turns a configuration (versions, flags, patches, packages) into a DAG
of jobs: source trees, libraries, a sysroot of symlinks, interpreters, their
verification, tarballs. Every job is named by a slug and carries a Merkle key of
its inputs and its dependencies' keys. Any number of `staticpy` processes, on one
host or in containers, may share one `dist/` directory; all coordination goes
through the file system: `flock` on lock files, `rename`, manifests and markers.

| component | state it keeps | operations | talks to |
|---|---|---|---|
| job graph (`core/job.go`) | `keyCache` of the process; per call: `byslug`, `order`, the walk's stack | `resolve`, `sameJob`, `jobFingerprint`, `computeKey` | recipes hand it jobs; `Plan` and `Run` take its nodes |
| build engine (`core/run.go`, `lock.go`, `job.go`) | `dist/artifacts/<slug>` with `manifest.json`; `dist/locks/`; per run: one goroutine per node, a semaphore, `runCtx`, the first error | `Run`, `buildNode`, `tryBuild`, `acquire`, `publish` | every recipe's `Build`; other processes through locks and renames |
| scratch and heartbeats (`core/env.go`, `heartbeat.go`) | `work/`, `.staging/`, `.trash/`, `heartbeats/<slug>.json` | `EnsureDirs`, `GCStale`, `gcHeartbeats`, `startHeartbeat`, `beat.close` | builders of any process; `status`, lock-wait messages |
| download cache (`sources/fetch.go`) | `dist/src/<file>`, `.done` marker, lock file, temporary files | `Fetch` | mirrors; other processes through `flock` |
| source trees (`sources/srctree.go`, `extract.go`, `patches.go`, `edits.go`) | none between calls | `SrcTree`, `ExtractTarGz`, `ApplyPatches`, `ApplyEdits`, `EditSetHash` | download cache, build engine |
| recipes (`recipe/*.go`) | none: a plan becomes `core.Job` values | `Jobs`, one constructor per kind of job | configuration, engine, sysroot, verification |
| sysroot composer (`recipe/sysroot.go`) | the staged tree and who owns each path | `Build`, `merge`, `place`, `rewritten`, `collide` | artifacts of the dependencies, by absolute symlink |
| archives and rpaths (`recipe/lto.go`, `rpath.go`) | none | `ar`, link checks, ELF edits | recipes |
| step runner (`core/runner.go`) | `dist/logs/<job>/<attempt>/`, the `latest` link | `NewRunner`, `Run`, `RecordRun` | compilers and `make` as child processes |
| configuration (`config/*.go`) | none: files become tables, tables a resolved profile | `Load`, `mergeFile`, `Validate`, `Resolve`, `KeyInputs` | CLI, recipes |
| interpreter verification (`ensure/*.go`) | the report artifact | `Verify` (a fixed sequence of gates), `Classify`, `LookupExpect` | interpreter artifact, qemu |
| benchmark suite and session (`bench/run.go`, `session.go`, ...) | session directory, timeline, `latest` link, per-cell results | `RunSuite`, `NewSession`, `ParseOutcome`, ETA | interpreters as child processes |
| benchmark machine (`bench/cpu.go`, `pin.go`, `fingerprint.go`, ...) | none | reads `/proc` and `/sys`, picks the core to pin to | benchmark suite |
| command line (`cli/*.go`) | exit code, signal state | one command each; `signalContext` | everything |
| inspection commands (`cli/status.go`, `state.go`, `logs.go`, ...) | none | lock-free reads of `dist/` | artifacts, heartbeats, logs |
| terminal interface, help (`tui/`, `cli/help.go`) | menu position | prompts and texts | CLI |
| run log (`logging/logging.go`) | log files behind a mutex | `write`, `uniqueDir` | CLI |
| generators, compiler probe (`gen/`, `hostcc/`) | none | one input, one text | recipes |
| shim (`staticpy`) | cached binary, downloaded toolchain | `needs_rebuild`, `build_binary`, `fetch_toolchain` | `go build`, curl |
| benchmark archive (`manage_benchmarks.py`) | archive directory and index | import, delete, index | bench sessions |
| release, container, CI scripts | none | sequences of external commands | - |

### What is hard, and what makes each part correct

*Job graph.* Callers pass objects, everything below goes by slug, and several objects
may claim one. Correct means: nodes come in an order in which each waits for earlier
ones only; the object that is built answers like every object asked for under its
slug; a key covers all that is below it, also when it comes from a cache that
outlives the call; what the recipes are meant to pass is never refused; and a cycle
does not hang the walk.

*Build engine.* Every job of every process has a goroutine, so a lock-free look
at a manifest, a lock, a read of a dependency and the two renames of `publish`
interleave freely with those of rivals that want **other** keys for the same
slug. Each of them may be killed anywhere. Correct means: an artifact is always
what its key promises (otherwise the cache is unsound for everyone); a job builds
on dependencies that are locked and at the keys its run computed; a lease pins an
artifact; nothing is rebuilt that is already there; a run that returns success
has everything on disk; failures and cancellations are told apart; and every
run ends (goroutines hold their own slug exclusively while they wait for others).

*Scratch.* A collector decides from a pid and a heartbeat whether a directory is
abandoned, the pid means nothing in another PID namespace, and the decision is
many file operations long. Correct means: a live build's tree is never removed,
an abandoned one always is, and a heartbeat does not outlive its build.

*Download cache.* A marker is trusted without hashing. The lock is waited for by
a goroutine that a cancelled `Fetch` leaves behind. Mirrors lie, stall and break
off, and attempts, permanent errors and mirrors nest. Correct means: what is
trusted matched its pin; one fetcher at a time; a good tarball is not lost; a
good mirror gets its own attempts; every `Fetch` ends.

*Recipes.* Eleven families of jobs hash some inputs, read others, and publish under
names that leave out the build machine, a level or a version. Profiles inherit and
scopes and variants override, so one edit reaches some jobs and not others. Correct
means, over any history of edits, re-published toolchains, machines and commands:
what counts as up to date is what a build from nothing would give; nothing is
rebuilt for an input that neither it nor anything below it heeds; two jobs of a plan never share a place; and
nothing is packed under `--verify` from an interpreter that did not pass.

*Source trees.* Edits apply in order, each to what the earlier ones left, and must match
exactly as often as declared. Correct means: what `Validate` lets pass, the job refuses
only for what it finds in the tree, for a path out of it or for an expression that does not
compile; an edit never silently does nothing; order matters only among edits
that see each other's lines; the hash tells any two lists with different results apart;
and a failed extraction leaves nothing half made.

*Sysroot.* The same path from two packages is an error unless it is the same file, also
when one was rewritten, left out on purpose, or is a link. Correct means: every library
finds each of its files, no file leads into a library's own prefix, and the order of
the packages decides nothing.

*Verification.* A test may be printed in several buckets, named in several expectations,
or not be printed at all; a suite may die or run out of time; a report is stored and
shown again. Correct means: a green report is earned, a red one has a cause, and a report
that is shown again stands for a run that took place.

*Configuration.* Entries replace entries, lists are extended and shortened along a chain
of profiles and scopes. Correct means: the last layer that speaks of a flag decides, no
`--config` directory touches the pins, and what `Load` accepts can be planned, but for
inputs that are not there.

*Attempts and readers.* Directories are named after the second and a process number that
two containers may share; `latest` moves; `--failed` and `--follow` read all this without
a lock. Correct means: no attempt's logs are lost or mixed with another's, `latest` and
`--failed` lead to the newest, and an error says how its command ended and what it said last.

*Benchmarks.* Cells fail, run out of time or exit 0 without a usable file; the command may
be killed. Correct means: a mean is over what the session's files time on both sides, and
what leaves no file or an empty one is named; no number comes from a failed process; the
baseline is one of the arms; and a pin that was asked for is applied or refused, and confines
what is measured.

*Shim.* Shells race to build the binary and to unpack a toolchain, and may be killed at any
point. Correct means: what runs was made from the sources it found, and a toolchain that is
there is whole.

`PROJECT.json` lists the hazards of all parts, each at its line, with the properties that
cover it.

## 2. Plan

Ordered by what a mistake would cost. *Done* modules are described in section 3.

1. **Engine.** `ArtifactStore` (abstract) and `BuildEngine` (detailed, refines it).
   *Done*, with all its safety and the refinement proved.
2. **Downloads.** `FetchCache`. *Done*, all its safety proved.
3. **Scratch.** `ScratchGC`. *Done*, all its safety proved.
4. **Graph walk.** `JobGraph`. *Done*, all its safety proved.
5. **Recipes.** `Recipes` (jobs, edges, keys, reads, places) and `Rebuilds` (a history
   of edits and commands over one `dist/`). *Done*, all its safety proved.
6. **Verification.** `Verdict`. *Done*, proved.
7. **Source trees.** `SourceTree`. *Done*, proved.
8. **Sysroot composer.** `SysrootTree`. *Done*, proved.
9. **Configuration.** `Config`. *Done*, all its safety proved.
10. **Logs.** `Attempts`. *Done*, all its safety proved.
11. **Benchmarks.** `Bench`, the session among several commands included. *Done*, proved.
12. **Shim.** `Shim`. *Done*, proved.

What is left, in this order:

1. The command line's second interrupt.
2. The archive of benchmark results (`manage_benchmarks.py`).

## 3. The modules and the code

### `BuildEngine`, `ArtifactStore`

One step is one point where another goroutine or process can observe or change
something. `pc[p][j]` is the place of process `p`'s goroutine for job `j`.

| state | in the code |
|---|---|
| `art[j]` | `dist/artifacts/<slug>`: `{}` or one record of `key` (manifest) and `body` (what Build put there) |
| `excl[j]`, `shared[j]` | `flock` on the slug's lock file; an exclusive lease belongs to a process, a shared one to a goroutine |
| `life`, `conf`, `interrupted`, `cancelled`, `firstErr` | `Run`'s result, the configuration, `ctx`, `runCtx`, the failure it will return |
| `slots`, `trash` | the worker semaphore; `trashWG` |
| `pc`, `err`, `tries`, `got` | `node.err`, the attempt counter of `buildNode`, what `Build` has opened so far |

| actions | code |
|---|---|
| `Launch`, `Interrupt`, `Crash`, `Return` | start of `Run`; the signal; a kill (the kernel drops flocks, files stay); `wg.Wait`, `trashWG.Wait`, the result |
| `SkipNode`, `Enqueue`, `GiveUp`, `TakeSlot` | `buildNode` up to the semaphore |
| `Lookup`, `LockOwn`, `Recheck`, `LockDep`, `Blocked`, `PollAgain`, `Abandon`, `CheckDeps` | `tryBuild` and `acquire` up to `Build` |
| `OpenPart`, `PartMissing`, `AttemptFails`, `BuildCanceled`, `BuildDone` | `Job.Build` as the engine sees it: opens artifacts one by one, fails, is cancelled, ends |
| `MoveAside`, `Promote`, `PublishFails`, `EmptyTrash` | `publish`: the two renames, their failures, the background removal |
| `Unlock`, `Finish` | deferred releases and the retry of `errDepChanged`; `fail`, the slot, `close(n.done)` |

`Key` and `Product` are constants with assumptions: a key is the record of its
inputs and its dependencies' keys (SHA-256 taken as injective), a product is the
record of its inputs and of the products it reads (builds taken as deterministic).
`Reads` is separate from `Deps` because the code keeps them apart: `Deps` is what
is keyed and locked, `Reads` is what `Build` opens.

`ArtifactStore` is what this promises without locks and goroutines: makers pin
all they need at once at the versions they want, a pinned slot does not change,
and what is stocked is exactly what its key promises. The refinement mapping takes
`art` for `shelf` and, for `pins`, the read locks whose holders have validated
their dependencies (`Pinned`).

### `JobGraph`

`resolve` with the key it computes, as a machine that a caller starts and may start
again in the same process, with other objects: a command resolves its jobs for `Plan`,
`Run` and `Plan`, and `bench` does so for one `--interp` after the other, each time from
jobs it has made anew (`findBuiltInterp`, `cli/bench.go:493`). `roots` is what a call was
asked for, and `CallAgain` takes any other list of `Roots`. `sameJob` compares the objects
of one call; what links the calls is `keyCache`, which goes by slug alone. `made` records
every object that became a node, in whatever call: `KeysAreMerkle` says which of them a
cached key stands for, and, where the rule of `job.go:31` is kept (`SlugsDetermineJobs`),
that it covers the one that will be built. The recursion of `visit` is the explicit
`stack`: a frame is a visit in progress with the dependency it is at and `n.deps` so
far, and its bottom frame is the loop over the roots. `nodes` is `byslug`, `keyCache` the
cache of the process. `Revisit` and `Conflict` are `sameJob` on a slug that has a node,
`Panic` is its call of `Slug` on a nil dependency, `Cycle` the check of `onStack`, `Descend`
the recursive call, `BadName` and `Finish` what comes after the loop: the key, `byslug`,
`order`, and the return to the caller's loop. What a job answers (`Name`, `KeyInputs`) is
one value, `Own`; the hash is injective, so a key is the record it is computed from.
`computeKey` walks the graph again, but only from a job whose dependencies have just
been keyed: it finds them in the cache, so neither its own cycle check nor its guard
against one slug with two keys can fire, and `NewKey` is what is left of it.

`BuildEngine` takes `Deps`, an order `Rank` and `Key` as constants; `DependencyFirst` and
`KeysAreMerkle` are what `GraphAssumption` and `MerkleAssumption` ask of them.

### `FetchCache`

`Fetch` of one source (lock, marker and file carry the source's hash, so sources
do not interact). `file` is `none`, `good` (matches the pin) or `bad`; `marker` the
`.done` file; `flock[p]` the lock descriptor, which the off-thread waiter of a
cancelled `Fetch` may hold after `pc[p]` has become `canceled`. `SeeMarker`,
`TrustFile`, `MissFile` are the fast path and its repetition under the lock;
`CallFlock`, `Granted`, `Proceed`, `AbandonLock`, `CloseOrphan` are
`lockExclusive`; `HashFile`, `RemoveCorrupt` the leftover file; `StartBody` to
`BackoffOver` the loops over mirrors and attempts; `Rename` and `Mark` the end.
`FetchFails` and `PartFails` are the disk errors: the first end `Fetch`, the second
cost an attempt. `Crash` and `DeleteByHand` come from outside. Mirrors answer in
one of five ways, fixed per run: they send the pinned bytes, other bytes, a 4xx,
a 5xx or refusal, or nothing at all.

### `ScratchGC`

The scratch side of one slug, in discrete time: a tick is one heartbeat interval
(5 s). `dir[p]` and `age[p]` are what process `p` has under the three roots,
`heart`/`heartAge` the heartbeat file, `ticking`/`writing`/`skipped` the ticker
goroutine. A collector goes through `ReadBeat`, `DropBeat` (`gcHeartbeats`), then,
for `work/` and `.staging/`, `List`, `Scan`, `Check`, `Remove`, `NextRoot`
(`GCStale`): its look at the beat, its look at pid and age, and its removal are
separate steps. A process is collector first and then builder, as in `EnsureDirs`
followed by `Run`. `Proc` are incarnations: `Pid` may give two the same pid, and
`PidAlive` is `kill(pid, 0)` in the collector's own `Namespace`. `owed` is a history
variable: what was abandoned when the pass began.

`LiveFor` and `StaleAge` are the code's constants in ticks, scaled down (2 and 4
for 4 and 120): what matters is which order they are in, and `TimingAssumption`
states what is needed of them: a beat may be late by `MaxSkips` intervals but not
until it counts as dead, and a directory that is two passes and such a delay old is not
yet stale.

### `Recipes`, `Rebuilds`

`Recipes` has no state. A *world* is the set of knobs that are turned: a version pin, a
patch set, an asset, a toolchain's manifest key, a hand-bumped version such as
`recipe.Version` (`Code`), and one knob per layer and setting that the layer may give. What
`KeyInputs` and `Build` of a job family hash and read is a record of knobs:

| operators | code |
|---|---|
| `Winner`, `Resolved`, `Field`, `Skipped` | `Resolve`, `scopeLayers`, `apply`, `packageFor`. A layer sets a value or does not; that lists are extended and shortened is in `Config` |
| `Settings`, `ForAll`, `ForPython` | the fields of a resolved profile, and which of them `Resolved.KeyInputs` hashes for a library and for an interpreter. `cflags`, `cxxflags`, `ldflags` and `strip`, which every build reads, are the one setting `flags`; `debug`, `lto_mode`, `pgo`, `profile_task`, `test_modules`, `modules`, `bundle` and `lto` are settings of their own |
| `DepHeeds`, `PyHostHeeds`, `PyBuildHeeds`, `PyRefHeeds`, `Trains`, `Ignored` | which of these a build of the family makes use of, written from `Build`: nothing reads `debug`; a cross build never trains, so that `pgo` and `profile_task` are lost on it; and what is hashed and not heeded |
| `Toolchain`, `ToolchainNative`, `ToolchainHost`, `ToolchainFor` | `recipe/env.go`: the preference for a cross tree and the dispatch to the host's compiler |
| `SrcTree` ... `Kit`, `Slug`, `Place`, `Deps` | the constructors, `Slug`, `ArtifactDir` and `Deps` of each job; a job is identified by what distinguishes two objects, its build machine included, a name often is not |
| `DepInputs`, `PyBuildInputs`, ... | `KeyInputs` |
| `DepUses`, `PyBuildUses`, ..., `Parts` | what `Build` reads: of the world, and of other artifacts. Written from `Build`, not from `KeyInputs`; families without an operator of their own read just what they hash |

`Rebuilds` runs the jobs of a command in order against one `dist/` (`store`: place, key
and content of each artifact). `Edit` turns knobs, `Ask` gives another command or
goes on from another machine; either may come in the middle of a plan. `Graph` is what
`resolve` reaches (`Closure`) from the roots `Plan` gives (`Roots`). `Key` and `Content` are constants
tied to `Recipes` by `KeyAssumption` and `ContentAssumption`: a key is an injective hash of
name, inputs and dependencies' keys; a build is a function of what it reads. `Made`
is what a build makes of the artifacts that are there, `Content` what it would make from
nothing; `AlwaysFresh` says that they never part. Jobs run one at a time and
do not fail here, since `BuildEngine` has the rest; the file-by-file race through the
sysroot is there too, while `Parts` has the content the links lead to. A build holds
one world from beginning to end: a file edited under a running build is read as it was
planned, or not, and is left out.

### `Config`

One command: `Load` takes a `--config` directory and a `sources.toml`, `MergeFile` merges
a file after the other (`mergeFile`: an entry replaces the whole entry of its name),
`EndLoad` is `Validate`, and `Plan` is what the planners make of the result. `Resolve`,
`Chain`, `LayersOf` and `Apply` are `config/resolve.go`: recursive functions along the chain
and the layers, where the code has loops. `PassedOver` is a `sources.toml` that lies where it
is not read. `PlanOutcome` goes through the
planners up to the last of their early returns: it is `refused` where the code returns
an error and `hollow` where a lookup in a map finds nothing and the code goes on.
`DepRefused` is the job of a library, `PyHostOk` and `PyBuildOk` are the interpreters. Each
reads more than the tables: `Toolchains` has the trees that are installed, `Fragments` the
targets with a `pyconfig` fragment, and a source has the patch files that can be read under
the directory of its `sources.toml` (`files`; a name that is no bare file name is in none).
`--bundle` overrides the bundle of the profile. What the source tree of Python itself cannot
read, its common patches, stops that job's `Build` and no plan.

Abstractions: one flag list stands for the three; an entry's own missing or malformed
fields are the set `bad`; a file with a key that no struct has is a flag of the file; a
module of a bundled package is what `moduleLine` asks of it.
The overlays of `MCConfig` are the shipped configuration in small and some fifty mistakes,
and profiles of one's own below the shipped ones with two layers of six kinds.

### `SourceTree`

The `Build` of one source tree job. `ExtractEntry`, `SkipEntry` and `ExtractFails` are the
loop of `extract.go` with its rules for the wrapper directory, metadata, links and hard
links (a path has an inode, so that a hard link shares its text); `ApplyPatch` is one run
of `patch(1)`; `ApplyEdit` is one edit, refused (`EditApplies`) for each of the reasons of
`applyEdit`: its form, a path that leads out of the tree, an expression that does not compile (one
that is not in the domain of `RegexLines`), a file that is not there, another number of matches.
An asset that cannot be read is found by `SrcTree` and ends `Build` on its first line. A text is a sequence of lines as
`strings.Split` finds them, so that the final newline and the empty file are what they are
in the code. `patched` and `edits` are history variables: the tree the edits found and the
whole list, for properties that compare the result with a definition.

### `SysrootTree`

The merge of the libraries, one entry at a time in any order within a library
(`MergeEntry`: `place` or `collide`). A file has a body and the set of prefixes it
records. `placed` says what lies at a path: a symlink into a library, a link of the
library's own, or a rewritten copy. `Readable` reads through it as `collide` does.
Directories, and therefore a path that is a file in one library and a directory in
another, are left out.

### `Verdict`

`staticpy verify` and its job, as often as `MaxVerifies` allows: `Ask`, then `Reuse` of a
stored report, `SkipVerify`, or `Inspect`, `Probe` and `Test` in the order of
`ensure/verify.go`. An interpreter is a record of what is true of it; what a run of it
prints is chosen anew each time (`ProbeRuns`, `SuiteRuns`), so a suite may die, be cut off
or leave tests out. `Classify` and its helpers translate `ensure/expect.go`; the
properties compare the outcome with `Proven`, which is said of the interpreter and of the
expectations and does not use them.

### `Bench`

The bench command from its flags to its report. `Lineup` and `ChoosePin` are the pure
part (`cli/bench.go`, `cli/benchcpu.go`, `bench/cpu.go`), evaluated by `ChooseArms`.
`OpenSession`, `Prepare`, `Install`, `Account`, `Measure`, `Finish` are the command over one
session directory (`sessions`, by stamp), `AccountMicro` and `MeasureMicro` the built-in
suite. Each cell succeeds, fails or runs out of time, and leaves a file or none; a file names
benchmarks and has times of some of them (`PyperfFiles`), one that does not parse names none.
As `ParseResult` does, `Usable` takes any that names one. `raw` has them by cell, so that
the properties compare a mean with the files that it should be made of. `ChoosePin` may meet a kernel that
refuses. A process of the built-in suite has the affinity of the thread that starts it, which
may be another than the one that was pinned (`MeasureMicro`); pyperf pins its workers itself.
`Killed` may happen anywhere, `Tick` moves the clock the
stamps are made of. A command that has opened its directory has an `OwnSession` unless another one
opened the same; the properties of a session's files speak of those.

### `Attempts`

The log directory of one job. `NewRunner`, `MakeDir` and `LinkLatest` are the three steps
of a new attempt, between which another process may do the same; `Run`, `Output`, `Exit` are
a command and its log; `StartFollow`, `RollOn` and `ShowMore` are `logs --follow`, which
looks at the directory now and then. `Choose` decides once whether the job has a lock
(one of a plan) or none (one of a benchmark session). `TailWrite` and `TailString` are the
ring of last lines an error carries. Names compare as the directory listing does:
`LogKey` puts a number that outgrew its padding among the shorter ones.

### `Shim`

The shell script `staticpy`, in several shells. `Look` is `needs_rebuild`, `BuildBinary` is
`go build` with the sources it read at `Look`, `Provision` asks the binary,
`SeeToolchain` to `Move` are `fetch_toolchain`, `Exec` the end. `Kill` strikes anywhere, also
in the middle of `go build`'s copy; `Change` is an edit that `find -newer` sees, or a
deletion or restored file that it does not. The loop that fetches is a subshell at the
end of a pipe; `FetchFails` ends the shim because `set -e` sees the status of the pipe.
One toolchain stands for all. Shells have process numbers of their own: two containers with
one number would share `.stage.$$`.

### `Maps`, `MCParts`

`Maps` is one operator, `With`: a Go map after an assignment to one of its entries.

TLC checks the last seven together: they share no variable, so an instance in which a behaviour is
one of any of them (`Alone`: a part that has begun keeps the others where they are) is
seven searches in one run, and the properties of each are evaluated in all its states.

## 4. The runs

| run | module, cfg | what it shows |
|---|---|---|
| `shared` | `BuildEngine_shared` | two processes with different library flags (`src`, `lib`, `app`), a kill, a restart, a failure: `KeyNamesContent`, `BuildsOnPinnedDeps`, `LeasesPinArtifacts`, `RebuiltOnlyOnNewKey` and `ImplementsStore` |
| `diamond` | `BuildEngine_diamond` | processes of one configuration, four jobs on one slot, a kill, an interrupt and a failure: `TypeOK` (slots, one artifact), `EndingsAreExplained`, `ReturnedRunsAreBuilt` (success means all is on disk), `PeersDoNotFight` (nobody is made to retry) |
| `live` | `BuildEngine_live` | rivals on the sysroot graph, so that a part may vanish under `Build`, a kill, an interrupt, fair goroutines: every run ends |
| `sysroot` | `BuildEngine_sysroot` | *violated*: reads through the sysroot's symlinks are not locked |
| `jobgraph` | `JobGraph_small` | `resolve` on every graph of three objects within a bound, called twice in one process, also for other objects under the same slugs: `TypeOK`, `DependencyFirst`, `KeysAreMerkle`, `ClaimsAreCompared`, `FailuresHaveCause`, `Ends` |
| `fetch` | `FetchCache_fetch` | two fetchers and an offline one; a liar, a mirror that is down, a mute one and one that moved before the good one, which may break off three times; a kill, an interrupt, a disk error, a deletion by hand: `TrustedMeansVerified`, `OneFetcher`, `GoodFileStays`, `MirrorsDoNotInterfere`, `NoHopelessRetry`, and every `Fetch` ends (`EveryFetchEnds`) |
| `gc_containers` | `ScratchGC_containers` | two processes in one container and one in another whose pid occurs in both; the heartbeats of one may fail; kills, passes racing builds: `TypeOK`, `LiveScratchSpared`, `PassCollects`, `NoGhostHeartbeat` |
| `recipes_fresh` | `Recipes_fresh` | four packages, four profiles, three machines that share `dist/`, six commands, seventeen edits: `AlwaysFresh`, `PackedIsVerified`, `RebuildsAreNeeded`, `EveryPlanCompletes` |
| `recipes_stale` | `Recipes_stale` | *violated* (`AlwaysFresh`): `make_vars` are in no key |
| `parts` | `Parts` | a behaviour of any one of seven parts; the properties are those of the table below |
| `config_inherit` | `Config_inherit` | *violated* (`LoadedConfigPlans`): a package's scope that a profile inherits is first resolved when the package is planned |
| `bench_sessions` | `Bench_sessions` | *violated* (`NeverOverwritten`): two commands that begin in one second share a session |

Each property of `parts` is a conjunction of named parts, of which the module says what each
means and which sentence of the code it takes at its word:

| property | parts | what is at stake |
|---|---|---|
| `LateFailuresAreKnown` | one | what is left of `LoadedConfigPlans`: a plan from a loaded configuration is refused only for inputs that are not there (`LacksInputs`: a toolchain, a fragment, a patch file), a `sources.toml` without Python, or what `Validate` does not try (`Untried`: a cycle of needs, an empty profile, a package with an empty name, an inherited scope, a module line), and never goes on with an entry that is absent |
| `LayersAreKept` | `ConfigTypeOK`, `LastWordWins`, `PinsAreNotOverlaid` | `Resolve` against a definition without order; the pins against overlays |
| `TreesAreWhole` | `TreeTypeOK`, `FailedExtractLeavesNothing` | an extraction that fails anywhere |
| `EditsAreExact` | `RefusedByTheTree`, `DeclaredEditsHappened`, `IndependentEditsCommute`, `SameKeySameTree` | two validators that must agree and what is left to the tree, the match counts, the order, the hash |
| `SysrootIsTheUnion` | `SysrootTypeOK`, `NoSilentWinner`, `ConsumersStayInside`, `OrderDecidesNothing` | collisions among three libraries in all six orders |
| `VerdictsAreEarned` | `VerdictTypeOK`, `GreenIsEarned`, `RedHasCause`, `ReportStandsForARun`, `JudgedOnce` | nine interpreters, five tables of expectations, three levels, two verifications in a row |
| `NumbersAreAccounted` | `BenchTypeOK`, `MeanIsOverTheNamedSet`, `KilledRunIsAccounted`, `NumbersComeFromGoodRuns`, `BaselineIsChosen`, `PinnedAsAsked`, `PyperfIsConfined` | every way a cell, a case or a command may fail, files with all, some or none of their times, where no other command shares the session |
| `LogsAreKept` | `AttemptTypeOK`, `AttemptsAreSeparate`, `LatestIsNewest`, `FailedShowsTheDeath`, `RolledLogsAreWhole` | attempts of one second and one process number, with and without a lock |
| `ErrorsTellTheEnd` | `TailIsTheEnd`, `BlameIsEarned` | the tail over every way to cut an output into writes; killed is not failed |
| `ShimsRunWhatTheyNeed` | `ShimTypeOK`, `RunsItsSources`, `ToolchainIsWhole`, `ProvisionedAtExec` | races for one binary and one toolchain, a kill, an edit |

**Bounds.** Two rivals are enough for the engine's lock and cache properties: each
of them relates one builder to one other process, and the proofs of section 5
hold for any number. Three launches let a process that was killed come back with
another configuration beside a live rival; one kill, one failure and one
interrupt each reach every stage because they may strike in any of them. The
chain has the engine's three shapes of node (none, one and two dependencies), and
the diamond has two independent nodes that compete for one slot and sorted
locks that overlap. The graphs of `jobgraph` have three objects under up to three good
slugs and a bad one; the first lists up to two dependencies, also one twice or nil,
so that chains, diamonds of two objects, cycles through objects of one slug, conflicts
in one list and across roots all occur (each failure is an action, and each fires). A fetch needs two contenders and a third for the offline path;
five mirrors put every kind of bad one before the good one; `MaxFaults = 3` can
exhaust the three attempts at it. Two launches give each contender its turn or one its
retry. Scratch needs a collector, a builder in another
namespace, and one in its own; the two namespaces share a pid. In `recipes_fresh` two
changes (`MaxChanges`), of which the first may be hasty (`MaxHasty`), are an edit and its
reversal, two edits, or an edit and another command: what goes stale does so between
two worlds. The packages are one with a need, its need, one that only some
profiles skip and one with a helper; the profiles are a parent, a child that overrides it, the host-built one
and the one of the build Python; of each kind of knob there is an edit that reaches
some of these and not the others. In `parts` each module has its own bounds. Edits: lists of up to two of fourteen edits and
lists of three around each, on archives with a hard link, a symlink, a device and each kind
of refusal. Sysroot: three libraries are what it takes for an order to matter between two
collisions, with every pair out of eight kinds of file. Verdict: two verifications, so that the
second may meet the report of the first. Bench: one command, two cases of which one measures
two names, two or three arms, files that are whole, have no time of a name, lack a name or have
none (a second command is in `bench_sessions`). Attempts: two processes with one
number, two attempts in two seconds, two commands each; as many commands as the padding of a log's number
orders (`LastNumber`). Shim: three shells, since
the third is the first whose `mv` fails; one kill and one edit. Shells and processes are
numbered in the order they begin, which loses nothing: they are alike.
Counters that only bound the
search (`launches`, `crashes`, ...) are guards of the environment's actions
alone, never of the code's.

**Deadlock** is checked in every run but `jobgraph` and those of `MCParts`, `MCConfig` and
`MCBench`: the walk is over after the last call, a command after its last step. In `jobgraph` `Ends`
takes its place. In the others `Quiet` is the one stuttering step and it is
enabled only when nothing runs, so a run in which someone runs and nobody can step
would be reported. In `Rebuilds` that step is `Finished`: all is built and the changes are
used up. `ScratchGC` always has time or a kill.

**Fairness.** `JobGraph!FairSpec` is weak fairness of one sequential function.
`BuildEngine!FairSpec` is weak fairness for each goroutine (`Node`), the
trash removal and `Return`: the Go scheduler runs runnable goroutines and a
recipe's commands are assumed to end, as the code assumes. Polling (`Blocked`,
`PollAgain`) is modelled, so a waiter is enabled for ever without progressing:
weak fairness of the node grants it steps and not the lock, and the property holds
because the lock's holder ends. `FetchCache!FairSpec` adds strong fairness for
`Granted`: `flock` queues starve nobody. `Exit` is not fair: the process of an
abandoned waiter may live for ever, so the orphan has to be closed by its own
goroutine. `Rebuilds!Spec` is fair to `BuildNext` alone: a command that is not interrupted
goes on building. Nothing makes a process start, stop, crash or fail.

Each property of a passing run has a mutant in `PROJECT.json`: a slip defined next
to the operator it would replace (a look left out, a lock of the wrong kind, a
missing reset) under which TLC finds the property violated. For the conjunctions of `parts`
that is one slip each, against one of their parts; the others were tried by hand, one slip
for every part, and each was found.

## 5. What is proved

All proofs are checked by tlapm (SMT, Zenon, PTL). The assumptions are named, stand in the
module that declares the constants they are about, and are evaluated by TLC on the instances
of section 4:

| module | assumptions | why the code justifies them |
|---|---|---|
| `BuildEngine` | `MerkleAssumption`, `ProductAssumption`, `GraphAssumption`, `BoundsAssumption` | keys are SHA-256 of inputs and dependencies' keys; builds are deterministic; `resolve` refuses cycles (`JobGraph` proves it) |
| `FetchCache` | `MirrorAssumption`, `CapsAssumption` | how a mirror answers; the caps are positive numbers |
| `JobGraph` | `GraphAssumption` | the objects a caller may pass |
| `ScratchGC` | `ProcessAssumption`, `TimingAssumption` | `heartbeatInterval`, `staleAfter` and what lies between them |
| `Recipes`, `Rebuilds` | `NeedsAssumption`, `ProfileAssumption`, `CommandsAssumption`, `OrderAssumption`, `DepthAssumption`, `KeyAssumption`, `ContentAssumption`, `BoundsAssumption` | `needs` is closed; the shipped profiles; a command asks for what its profile can make; jobs form no cycle, and `Depth` reaches the deepest; keys and builds as in the engine |
| `SourceTree` | `TextsAssumption` | files and fragments are texts; `EditSetHash` has read every asset before the job runs |
| `SysrootTree` | `OrdersAssumption`, `TreesAssumption` | each library of a profile is merged once; no library's build knows the sysroot; `isText` looks at the bytes. A bound: links lead to files |
| `Verdict` | `SuiteAssumption`, `InterpretersAssumption`, `ExpectationsAssumption` | regrtest counts under OK what it lists nowhere. Two bounds: what is expected and what `core` asks for is shipped |
| `Config` | `FilesAssumption` | what TOML can say: finite tables, lists and strings; at most one `cflags` per layer; the shipped `profiles.toml` has the profile that `pyhost` takes |
| `Bench` | `BenchAssumption` | a suite lists a benchmark once, and the built-in one measures something; what a file has a time of it names; flags, kit and sysfs say what their types allow |
| `Attempts` | `AttemptsAssumption`, `TailAssumption` | bounds and lengths are numbers; what a command writes is a sequence |

**The engine** (`BuildEngineProofs`, any processes, graph, configurations and bounds).

* `TypeCorrect`: the slot bound needs that slots are finite sets that grow by one under
  their guard.
* The inductive invariant of the cache is `TypeOK /\ Coherent` where
  `Coherent == Disciplined /\ PartsAreCurrent /\ KeyNamesContent`.
  - `Disciplined` is about locks alone: leases exclude each other; a goroutine
    between `recheck` and the last rename owns its slug, has seen it not to be at
    its key, and finds it empty between the renames; one past `lockDeps` holds
    all its dependencies, and past `checkDeps` they are at its keys.
    `BuildsOnPinnedDeps` is a part of it. It is inductive whatever `Build` reads, so
    `BuildContract`, `LeasesPin` and `RebuildsAreNeeded` need no further hypothesis.
  - `PartsAreCurrent` says that what `Build` has opened so far is, part by part, the
    product of every configuration that gives the part the key this run wants.
    It needs `ReadsOnlyDeps`: what `Build` opens is among the job's dependencies.
    With it `CacheIsSound` proves `KeyNamesContent`: a part was opened under a lease
    and at a known key, `KeyNamesContent` gives its body, and equal keys have equal
    dependency keys (`MerkleAssumption`), so the parts agree for every configuration
    that computes the published key.
  - `ReadsOnlyDeps` is a hypothesis of the theorem and not an assumption of the
    module: the run `sysroot` gives the graph of this program in which it is false,
    and there the conclusion is false too. It is the exact condition for the cache
    to be sound.
* `EndingsHaveCauses`: `CausesAreKept` follows each ending to what it came from. `firstErr`
  names nodes that failed, a node that is done and failed has filled it, a run is cancelled, and
  a node skipped, only after an interrupt or such a failure, and `errDepChanged` is gone when
  the locks of its attempt are. So no node is
  skipped or cancelled for nothing, and a run that returns nil hides none.
* `ReturnedMeansBuilt` and `PeersAreAtPeace` have the hypothesis `OneConfiguration` (all
  processes compute the same keys), without which they are false by design: a process with
  another configuration may replace what was built. `WorkIsNotUndone` is inductive under it:
  a node that has left `waiting` finds its dependencies done, one that is done without an
  error is at its key on disk, and no attempt is ever the second. It rests on `Disciplined`:
  an owner renames only an artifact without its key, and everybody's key is that.
* `EngineImplementsStore`: under `ReadsOnlyDeps` every step maps to `Pin`, `LetGo`,
  `Withdraw`, `Stock` or a stutter.

**The graph walk** (`JobGraphProofs`). The invariant `Walk` is about the stack. The children
a frame has behind it agree with their nodes (`Agrees`: a node under that slug whose object is
the same or gives the same answers), each frame is the child its predecessor is at, no
slug on the stack has a node or occurs on it twice, and every node's dependencies
agree with their nodes. Lemmas state what the three moves of the stack do to it
(`AdvancePath`, `DescendPath`, `PopPath`). `OrderIsTopological` and
`AcceptedCallsAreCompared` follow for every set of objects and every graph. For
`KeysCoverWhatIsBuilt` the cache matters: a key may stem from an object of an earlier call.
`Cached` says that each entry is the key document of an object that was built under the
slug (`Stands`), and every step keeps that because the cache and `made` only grow
(`StandsOn`). From there the two halves of `KeysAreMerkle` follow: which object the key
covers, for any objects the calls bring; and, under the rule of `core/job.go:31`, that this
object answers as the one that will be built does (`SameJobSameDeps`: equal answers and
equal lists of slugs give equal key documents). `FailuresAreReasoned` adds
`Within`: the walk never leaves a set of jobs that contains the roots and is closed under
dependencies. What it trips over is therefore among the jobs asked for, and the cycle it
reports is the part of the stack from the slug that came back, which is a cycle of that set.

**Downloads** (`FetchCacheProofs`, any processes and mirrors and any number of kills,
errors and deletions). `IInv` is the type of the lock state, `Trust` (a marker or a
successful `Fetch` means the file is not bad; whoever is about to mark has a
good one; whoever is about to rename holds verified bytes), `Exclusion` (a
process past the lock holds it, and one holds it) and `RemovesBad` (who is about to
remove the file has found it bad or it is gone). From it `OnlyVerifiedIsTrusted`,
`FetchersExclude` and the action property `GoodTarballSurvives`. `Paid` counts: the transfers
that broke off so far are enough to pay for every attempt at the good mirrors behind any
`Fetch`, and for those at the one it is at, as long as no disk error and no deletion helped.
Hence `BadMirrorsDoNoHarm` (a `Fetch` that has failed has used up all attempts at all good
mirrors, so lies and silence of others cost it nothing) and `OnlyHopefulRetries`.

**Scratch** (`ScratchGCProofs`). `Lifecycle` (directories exist once made, a ticker runs only
while its process builds, one builder) is inductive by itself and gives `TypeCorrect`
and `HeartbeatsAreRetracted`. `RemovesDead` says that a directory about to be removed
belongs to a process that will build no more; it is inductive as soon as the checks
of a collector choose no builder (`ChoosesNoBuilder`), and that has two proofs:

* `SparedOnOneHost`: in one PID namespace the pid of a builder is alive. Nothing is
  assumed of heartbeats. (`LiveScratchSpared` excuses a loss to a collector of another
  namespace only, of which there is none.)
* `SparedByHeartbeat`: when `Reliable = Proc`, `BuildersProtected` is inductive. A
  collector may act on an old beat it has read before the builder wrote its own and
  remove the new one; then the tree is at most a pass old, it stays without a
  beat for at most the delay of one, and whoever picks it in that time needs at
  most a pass to look at its age. Hence `2 * PassTime + MaxSkips + 1 < StaleAge` in
  `TimingAssumption`, which is far from tight for the code's ten minutes, and
  `MaxSkips + 1 < LiveFor`.

`PassesCollect` is the other direction, without any hypothesis: `DebtsAreAhead` says that
what a pass owes stays dead to its collector, since a process that starts or a beat that
is written settles all debts, and that the walk has still to come to it (`Ahead`), under `work/`
or, later, under `.staging/`. `PassInOrder` gives the order of the walk, and only
`NextRoot` ends it.

**Recipes** (`RebuildsProofs`, any packages, profiles, machines, knobs, edits and commands).
`RebuildsAreFresh` and `PacksAreVerified` have `NothingOverlooked` as their hypothesis: that no
knob that moves is one that `Build` reads and the key leaves out. It is an assumption about the
history, not about the program: the shipped `sqlite` has a helper, so it excludes histories in
which the native toolchain is re-published. The run `recipes_stale` shows that it
is needed, section 6 which knobs of this program are of that kind. The heart is that two jobs that share a key, in whatever worlds,
have the same content. It goes by a least counterexample along `Order`: equal keys mean equal
names, inputs and keys of dependencies (`KeyAssumption`); family by family, the inputs that are hashed
determine what is read, and each artifact that is read is a dependency or stands behind one; those are
lower in the order, so that they agree, and so do the two builds (`ContentAssumption`). The
inductive invariant is then `DistInv == Asked /\ Fresh /\ Vouched /\ Sealed`: each artifact in
`dist/` is what building any job of its key would give in any world; a report that was not
skipped stands for an interpreter that passed at its level, and an archive packed under
`--verify` holds such a one.

`NoIdleRebuilds` is the converse: a key moves only if the content does, or a setting that is
hashed but not heeded (`Ignored`), of the job or of one below it. It has two more hypotheses, which the instance of
`recipes_fresh` satisfies: `BuildsShow`, that nothing a build reads is lost in what it makes,
and `KeysAreHashes`, that equal documents have equal keys. No compiler promises the first (a
comment in a patched source changes nothing), so the theorem says what keys
hash: nothing that no build reads, but for the settings in `Ignored` (section 6). It is again a least counterexample along `Order`, among the jobs below one
(`WhatIsBelow`): a job whose content stays has the parts it had (`PartsStay`); with its idle
settings it has the same inputs (`InputsStay`), and the same dependencies with, by minimality,
the same keys.

**Verification** (`PartsProofs`, any interpreters, suites, tables of expectations and
outcomes of runs). `ReportsAreEarned`: `VerdictInv` says at each phase which checks stand in
the report and because of which answers (`Progress`), and of what is stored that it was proven
for that interpreter, level and table unless it was skipped (`StoredIsProven`). Lemmas about
`Classify` say that it judges each shipped test once, whatever buckets the test is printed in,
and that green and red have their cause.

**Attempts** (`RecordsProofs`, any processes, process numbers and seconds).
`LogsAreNeverLost`: attempts are numbered as they are born and no two have one number; who works holds an
attempt of its own, and, where the job has a lock, alone and the newest; `latest` leads to an attempt that
was linked, with a lock to the newest of those; and what `--follow` has left can no longer
grow, since it left it for a later log or a later attempt (`AttemptsOK`, `ProcsOK`,
`LatestOK`, `FollowOK`).
`ErrorsAreTrue`, any output in any writes, and a tail and a line of any length: the ring holds the newest of the
lines that are whole and `part` the rest (`Matches`), as long as no line is too long to keep
(`Fine`), byte by byte within a write and then write by write. This is an induction over the
output: a recursive function over an interval is shown to exist as a walk through its values
(`Iterates` of the module `Walks`) and what holds of a walk at first and from step to step
holds all the way (`AllTheWay`, from the least number that would be an exception). The other half,
`BlameIsEarned`, is inductive once `ProcsOK` is known.

**Benchmarks** (`RecordsProofs`, any commands at once, any suite, lineup, machine and pins).
`NumbersAreEarned`: the inductive invariant `BenchInv` says of every command, at each of its places, what it
has (`RunOK`) and of every session that is a command's own what its files hold (`SessionOK`).
- While requirements install, what is left, what is queued and what was dropped are together the
  suite (`Installing`); while cells run, those that wait, the numbers and the failures are apart and
  together every benchmark that was not dropped on every arm (`CellsOK`). The files under `raw/`
  are those of cells that are done, name something just if the cell counts as measured, and have
  the times that the command has (`Filed`). None of these follows from the properties
  alone, and both halves of the mean need them all: what is behind it is what the files of the arm and of the
  baseline both time (`MeanOfDone`), and the account lists just the cells whose file names
  nothing (`MissedOfDone`).
- A number and a file under `raw/` have a record of success in the timeline, which no step of the
  command shortens; the account is in place before the first number (`SessionOK`), so that a kill finds it.
- The pure part is proved by induction along its lists: `InOrder` keeps first places and no
  repetition (`InOrderNames`) and adds a new label at the end (`LabelsGrow`), `PickCore` ends with the
  first of the best (`PickCoreIs`), the queue holds each benchmark once per arm (`QueueIs`).
- A step touches one session (`StepFrame`), whichever other commands are under way. Two that begin in one second
  share theirs, which the code does not prevent (section 6): nothing is claimed of its files.
  `OwnSessionsStay` says that this is the only way to lose a report: what a command has left stays as it is
  as long as no other opens its directory.

**Configuration** (`PartsProofs`, any files in any number, `--config` directories and
hosts). `ConfigInv`: while files are read the one `sources.toml` is still the last of them and
no source is there yet, and `pyhost`'s profile is there or to come (`Reading`); what was
loaded is what `Validate` passed (`Loaded`); an outcome is that of a plan (`Planned`).
`LayersKept` needs besides what resolution computes: a list after its layers holds what the
last one that speaks of it says (`LastWord`, by induction along the layers, on what one layer does,
`ApplyIs`, and what a removal leaves, `WithoutIs`). `LateFailures`, for any toolchains, fragments and patch files: the scopes that were tried
resolve (`ResolvedAtLoad`), a bundle that a profile ends up with is there (`BundlesAreThere`),
what packages need are packages (`NeedsAre`), and a scope of a package that no profile of
the chain spells has the layers of `deps` (`InheritedLayers`), which resolves.

**The other parts** (`PartsProofs`).

* `ShimsAreServed`, any number of shims: a shim asks for the past (`AsksThePast`), a binary
  with no newer source beside it is of the latest (`UpToDate`), what a staging directory holds
  fits the place of its shim (`StagingFits`), and who is past the check of the binary or of the
  toolchain still finds one (`HasItsBinary`, `HasItsToolchain`). The excuses of `RunsItsSources` are carried along.
* `SysrootsAreUnions`, any libraries in any order: every path that was visited has an owner
  that was visited (`VisitedIsOwned`), the owner's image is what lies there unless it was left out
  (`OwnersArePlaced`), and whoever else has the path would have placed the same
  (`OthersAgree`). So the outcome does not depend on who came first, a path is lost only
  where the code leaves it out, and a failure means that no order would have done.
* `ExtractedTreesAreWhole`, any archive and edits: what is known of the tree at each place of
  the job (`TreeInv`).
* `EditsAreMadeExactly`, any texts, edits in any number and regular expressions: at each
  place of the job the texts are what the edits so far make of them, one after the other, and as
  long as these declare (`EditInv`, `Made`); an edit that applies is one more (`OneMade`, from
  `TextLength`, what its matches add). For the order, a file is taken as its pieces, the lines and
  what is behind the last newline: an edit turns each piece into some pieces by itself (`Spread`
  of `Walks`, `PiecesEdited`), independent edits in a row come to one such turn, each
  piece by the one edit that matches it (`Picked`, `OneMorePicked`, `Together`), and this does
  not speak of an order (`TurnedAround`). Both proofs met what the files of the run were too
  few for: a file of which only blank lines or none are left loses its newline, since `applyEdit`
  takes it for no text. The properties now say so, and the run has lists of edits for each case.

**Only model-checked.** Every invariant and every action property of the passing runs is a theorem. What is left:

* Fairness is out of the prover's reach: the liveness properties `EveryRunEnds`, `Ends`,
  `EveryFetchEnds` and `EveryPlanCompletes`.

## 6. Where the code and its documentation disagree

* `sysroot`: `core/core.go:10` says two processes may share one `dist/` safely. An
  interpreter lists only the sysroot as its dependency and reads the libraries
  through the sysroot's absolute symlinks; a process with other library flags may
  replace them while it builds, and the interpreter is published under a key that
  does not describe it.
* `recipes_stale`: `cli/help.go:17` says keys cover whatever a rebuild depends on. `make`
  gets a package's `make_vars` (`recipe/dep.go:307`), the key does not
  (`recipe/dep.go:172`). `Overlooked` lists the other knobs of this kind, met while
  translating: the compiler of helpers (below), CPython's target patches, which `pyref`
  applies (`recipe/pyref.go:246`) and does not hash, the suite's pins in a kit, and the
  target's ABI in the factors a kit records (`recipe/kit.go:275`). `recipes_fresh` leaves these
  alone, except that the native toolchain is re-published of a machine that compiles
  with nothing else there; `NothingOverlooked` leaves all of them alone, and also has it that no
  machine has a cross tree for its own triple, which `pyhost` would compile with and not
  hash (`recipe/env.go:179`).
* `config_inherit`: `config/validate.go:205` says every scope is resolved at load "so a
  `*_remove` that matches nothing fails at load rather than hours later". `validateProfiles`
  resolves the three general scopes and those the profile itself spells; one that it
  inherits is first resolved by the package's job. The run needs no overlay: the shipped
  `bootstrap` drops on its own the flag that the scope `deps.mimalloc`, which it inherits, has
  already dropped. `Load` accepts it, and a plan of packages for it is refused.
  `LateFailuresAreKnown` is what does hold. Its `Untried` names four more of the kind: cycles of
  `needs`, a profile without packages, a package with an empty name, and a module of a bundle
  without sources, with a blank in an argument or with a name that is no identifier
  (`gen/setup.go:85`).
* `bench_sessions`: `cli/bench.go:96` says results are "never overwritten". `NewSessionIn`
  (`bench/session.go:34`) is content with a directory that is there. `OwnSessionsStay` is what does hold.

Read while translating, without a run of their own:

* `recipe/env.go:65` says every recipe folds its toolchain into its key, "so
  re-publishing a toolchain invalidates the whole tree below it". A package whose `make_vars`
  name `@BUILD_CC@` compiles a helper with the build machine's native toolchain
  (`recipe/dep.go:311`), as the shipped `sqlite` does. The key of a cross or a host-built library
  has the cross or the host's toolchain only. In the model `DepUses` reads it, and `Overlooked`
  names it: with it among the worlds of `recipes_fresh`, `AlwaysFresh` fails.
* `cli/help.go:17` and `README.md:57` say "changing one configure flag rebuilds
  exactly what depends on it". `Resolved.KeyInputs` (`config/resolve.go:205`) hashes `pgo` and
  `profile_task` into every python's key, also that of a cross build (`recipe/cpython.go:329`) and
  of the bootstrap python, which are never trained; `lto`, which only a reference build reads;
  `lto_mode`, which only static libraries read; and `debug`, which nothing reads.
  `RebuildsAreNeeded` is what does hold: such a key moves for one of the settings in `Ignored`.
* `bench/run.go:25` says that a benchmark that dies must reach `skipped.json`, which
  exists to prevent "a geomean over a set nobody chose". `ParseResult` (`bench/pyperf.go:113`) accepts a
  file that names one benchmark, whether or not it has a value of it and of the others; no `Failure`
  is recorded, and `Reduce` drops what has no samples, so that such a benchmark is in no row and not in
  `skipped.json`. `MeanIsOverTheNamedSet` is what does hold: the mean
  is over what the files time, and the account is right about files that name nothing.
* `cli/bench.go:114` says the affinity is inherited by every interpreter spawned.
  `SchedSetaffinity(0)` (`bench/pin.go:27`) is about the calling thread, and nothing locks the
  goroutine to it. Interpreters that the built-in suite starts after it has moved are not
  confined (`MeasureMicro`); those of pyperformance are, by pyperf's `--affinity`: `PyperfIsConfined`.
* `core/run.go:246` promises that readers see either the old artifact or the new one.
  Between the two renames of `publish`, and for good if the second fails, there is none.
* `core/heartbeat.go:14` says heartbeats drive no correctness. To a collector in another PID
  namespace they are all that protects a live work tree (`core/env.go:86`); this is why
  `SparedByHeartbeat` has the hypothesis `Reliable = Proc`.
* `core/env.go:43` and `cli/help.go:82` count `.trash/` among what is collected; `GCStale`
  (`core/env.go:71`) does not walk it.
* `Validate` accepts expectation keys such as `all:qemu` or `static:native`, which
  `LookupExpect` never asks for; a cycle of `needs` passes it, too.
* `applyEdit` takes a single blank line that is left of a file for an empty file.
* The help says that `--interp` "adds or overrides" an arm of a `--kit` (`cli/bench.go:69`); the code
  replaces the whole lineup by it (`Lineup`).
* `Session.WriteJSON` truncates the file it writes, so a kill in the middle of the second accounting leaves
  neither the first nor the second; `Finish` writes in one step.
* A result file that does not parse after an exit of 0 has two records in the timeline
  (`bench/run.go:141`), which promises one per measurement.
* `StatusOf` cannot tell a test that the full level lost from one that passed, since `Requested` is
  empty there: `GreenIsEarned` asks for completeness at the core level only.
* `logs --follow` goes by the path of a log below `latest`, so that it stays on a log of the same
  name of a newer attempt, and it never shows a log that began and ended between two looks.
  `--failed` picks the wrong log from the thousandth command on.
* The shim's comment (`staticpy:59`) has `find -newer` wrong "only in the direction of rebuilding
  too often". It does not see a deleted file, one put back with its old time, an edit during `go build`, nor
  a `go build` killed while it copies; `RunsItsSources` excuses these by name (`excused`). A second `mv`
  puts its toolchain inside the first, where it stays.

## 7. What is not modelled

What the external tools do (compilers, `make`, `ar`, `patch`, `qemu`, `git`), file
formats (tar, gzip, ELF, TOML, JSON), compiler command lines and autoconf answers, archives
and rpaths (`recipe/lto.go`, `rpath.go`), the generators, the layout of reports, menus and help, and
the description of the benchmark machine. These are either pure input and output, or one
text computed once from one input: they hold no state and nothing interleaves. So are the
flags and exit codes of the command line and the inspection commands other than `logs`.
`ValidateSource` and the resolution of paths are taken as inputs of the models that need
them. `manage_benchmarks.py` and the scripts are run by hand, alone. `PROJECT.json` lists each
component with its status.

Of the modelled parts: of a source tree, modes and times; of a verification, argument lists; of
the bench command, timings, the estimate of what is left and the identities of interpreters;
of attempts, the environment of a command, `commands.sh` and the listings; of the shim, the
revision stamp.

In the modelled parts: disk
full inside a rename, NFS locks, and clocks that run backwards are left out.
`BuildEngine` leaves scratch directories to `ScratchGC` and treats a kill in the middle
of `Build` as leaving no artifact; `ScratchGC` takes the exclusive lock of the slug as
given by `BuildEngine`.
