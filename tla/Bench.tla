--------------------------------- MODULE Bench ---------------------------------
(***************************************************************************)
(* The benchmark command (cli/bench.go, cli/benchsuite.go, internal/bench):*)
(* the lineup and the core it is pinned to, the session directory, the     *)
(* preparation of every arm, the interleaved measurements, and what the    *)
(* session says of the numbers that are missing.                           *)
(*                                                                         *)
(* Timings are left out: a measurement is a number that is there or not.   *)
(* Several commands share one parent directory and one clock; each may be  *)
(* killed at any step.                                                     *)
(***************************************************************************)
EXTENDS Integers, FiniteSetsExt, SequencesExt, Maps

CONSTANTS
  Commands,        \* bench commands that may run at the same time
  Cases,           \* the benchmarks of the suite, in order
  NamesIn,         \* case -> the names of what it measures; "micro" is one
  PyperfFiles,     \* what pyperf may write: see Whole
  Suites,          \* pyperformance, micro
  Lineups,         \* what the flags and the kit may say: see Lineup
  Known,           \* the names that resolve to an interpreter without a path
  Machines,        \* what sysfs says of the CPUs: see Topology
  PinFlags,        \* [off, want, pick]: --no-pin, --cpu and the answer of the menu
  MaxTime          \* bound on the clock, in seconds

VARIABLES
  clock,
  run,             \* command -> its state
  sessions         \* stamp -> the files of the session directory

benchVars == <<clock, run, sessions>>

\* What a flag or a path that is not given reads as.
NotGiven == ""

Requests == [kit : Seq([arms : Seq([label : STRING, path : STRING]), baseline : STRING]),
             interps : Seq([label : STRING, path : STRING]), only : SUBSET STRING, flag : STRING]

\* What a file of measurements holds: the benchmarks it names and, of those, the
\* ones it has a time of. One that does not parse names none.
Whole(case) == [names |-> NamesIn[case], timed |-> NamesIn[case]]
NamesNone == [names |-> {}, timed |-> {}]

\* A suite lists each benchmark once, and the built-in one measures something;
\* pyperf times what it names; the flags, the kit and sysfs say what their types
\* allow.
ASSUME BenchAssumption ==
  /\ Cases \in Seq(STRING) /\ IsInjective(Cases) /\ NamesIn["micro"] # {}
  /\ \A f \in PyperfFiles : f.timed \subseteq f.names
  /\ Lineups \subseteq Requests
  /\ Machines \subseteq Seq([capacity : Nat, freq : Nat, rank : Int])

--------------------------------------------------------------------------------
(* The lineup: kit is <<>> or one [arms, baseline], interps a sequence of   *)
(* [label, path] with "" for a bare name, only a set of labels, flag a label *)
(* or "".                                                                   *)

\* The members of a set in the order in which a list names them first.
InOrder(list, set) ==
  LET seen[i \in 0..Len(list)] ==
        IF i = 0 THEN <<>>
        ELSE IF list[i] \in set \ ToSet(seen[i - 1]) THEN Append(seen[i - 1], list[i]) ELSE seen[i - 1]
  IN  seen[Len(list)]

\* add: a label keeps the place it was first given, and the last path.
Labels(interps) ==
  LET labels == [i \in DOMAIN interps |-> interps[i].label]
  IN  InOrder(labels, ToSet(labels))
LastPath(interps, l) ==
  interps[Max({i \in DOMAIN interps : interps[i].label = l})].path

KitPath(kit, l) ==
  IF kit # <<>> /\ \E a \in ToSet(kit[1].arms) : a.label = l
  THEN (CHOOSE a \in ToSet(kit[1].arms) : a.label = l).path ELSE NotGiven

\* What the ratios are measured against if nobody says.
DefaultBaseline(order) ==
  IF "reference" \in ToSet(order) THEN "reference" ELSE IF order = <<>> THEN NotGiven ELSE Head(order)

Lineup(q) ==
  LET named  == q.interps # <<>>
      all    == IF named THEN Labels(q.interps) ELSE IF q.kit # <<>> THEN Labels(q.kit[1].arms) ELSE <<>>
      given(l) == IF named THEN LastPath(q.interps, l) ELSE NotGiven
      path(l) == IF given(l) # NotGiven THEN given(l)
                 ELSE IF KitPath(q.kit, l) # NotGiven THEN KitPath(q.kit, l)
                 ELSE IF l \in Known THEN l ELSE NotGiven
      order  == IF q.only = {} THEN all ELSE InOrder(all, q.only)
      asked  == IF q.flag = NotGiven /\ ~named /\ q.kit # <<>> THEN q.kit[1].baseline ELSE q.flag
  IN  [order |-> order, path |-> [l \in ToSet(order) |-> path(l)],
       baseline |-> IF asked # NotGiven THEN asked ELSE DefaultBaseline(order),
       refused |-> \/ q.kit # <<>> /\ \/ ~IsInjective([i \in DOMAIN q.kit[1].arms |-> q.kit[1].arms[i].label])
                                      \/ q.kit[1].baseline \notin ToSet(Labels(q.kit[1].arms))
                   \/ all = <<>> \/ \E l \in ToSet(all) : path(l) = NotGiven
                   \/ ~(q.only \subseteq ToSet(all))
                   \/ asked # NotGiven /\ asked \notin ToSet(order)]

--------------------------------------------------------------------------------
(* The core: a machine is <<>> when its topology cannot be read, or a       *)
(* sequence of [capacity, freq, rank], cpu0 first.                           *)

Differ(machine, field) == \E i \in DOMAIN machine : machine[i][field] # machine[1][field]

Topology(machine) ==
  LET class(c) == IF Differ(machine, "capacity") THEN c.capacity
                  ELSE IF Differ(machine, "freq") THEN c.freq
                  ELSE IF c.capacity > 0 THEN c.capacity ELSE c.freq
  IN  [id \in {i - 1 : i \in DOMAIN machine} |-> [class |-> class(machine[id + 1]), rank |-> machine[id + 1].rank]]

Fastest(topo) == {c \in DOMAIN topo : \A d \in DOMAIN topo : topo[d].class <= topo[c].class}

\* The loop of PickCore keeps the first of the candidates that rank highest.
PickCore(topo) ==
  LET cands == Fastest(topo)
      pick[c \in DOMAIN topo] ==
        IF c = 0 THEN Min(cands)
        ELSE IF c \in cands /\ (pick[c - 1] = 0 \/ topo[c].rank > topo[pick[c - 1]].rank) THEN c
        ELSE pick[c - 1]
  IN  pick[Max(DOMAIN topo)]

Unpinned == [cpu |-> 0, applied |-> FALSE, refused |-> FALSE]
NoPin    == [cpu |-> 0, applied |-> FALSE, refused |-> TRUE]

\* want is {} or {cpu}; the menu answers with a cpu, or with nothing off a terminal;
\* the kernel may refuse the affinity (a cpuset without that cpu).
ChoosePin(machine, flags, allowed) ==
  LET topo   == Topology(machine)
      chosen == IF flags.want # {} THEN CHOOSE c \in flags.want : TRUE
                ELSE IF flags.pick # {} THEN CHOOSE c \in flags.pick : TRUE ELSE PickCore(topo)
  IN  IF machine = <<>> THEN IF flags.want # {} THEN NoPin ELSE Unpinned
      ELSE IF flags.off THEN Unpinned
      ELSE IF chosen \notin DOMAIN topo \/ ~allowed THEN NoPin
      ELSE [cpu |-> chosen, applied |-> TRUE, refused |-> FALSE]

--------------------------------------------------------------------------------
(* The command.                                                             *)

\* values are the cells that were measured, results the <<arm, name>> with a time.
Idle == [at |-> "idle", suite |-> "pyperformance", written |-> 0, asked |-> {}, pinned |-> FALSE,
         order |-> <<>>, baseline |-> NotGiven, stamp |-> 0, left |-> <<>>, cells |-> <<>>,
         missing |-> {}, values |-> {}, results |-> {}, failures |-> <<>>]

\* The timeline is a file: the records by position. raw/ has a file per cell.
NoFiles == [timeline |-> <<>>, accounting |-> {}, raw |-> <<>>, report |-> {}]

BenchInit == clock = 0 /\ run = [c \in Commands |-> Idle] /\ sessions = <<>>

Goes(c, r) == run' = [run EXCEPT ![c] = r]

ChooseArms(c, suite, q, machine, flags, allowed) ==
  /\ run[c].at = "idle"
  /\ LET l == Lineup(q)
         p == ChoosePin(machine, flags, allowed)
     IN  Goes(c, [Idle EXCEPT !.at = IF l.refused \/ p.refused THEN "failed" ELSE "chosen",
                              !.suite = suite,
                              !.asked = {[q |-> q, machine |-> machine, flags |-> flags, pin |-> p, paths |-> l.path]},
                              !.pinned = p.applied, !.order = l.order, !.baseline = l.baseline])
  /\ UNCHANGED <<clock, sessions>>

\* NewSessionIn: MkdirAll is content with a directory that is there, Create truncates.
OpenSession(c) ==
  /\ run[c].at = "chosen"
  /\ LET there == IF clock \in DOMAIN sessions THEN sessions[clock] ELSE NoFiles
     IN  sessions' = With(sessions, clock, [there EXCEPT !.timeline = <<>>])
  /\ Goes(c, [run[c] EXCEPT !.at = "preparing", !.asked = {}, !.stamp = clock])
  /\ UNCHANGED clock

\* MakeVenv and Bootstrap of every arm, then DiscoverSuite.
Prepare(c, ok) ==
  /\ run[c].at = "preparing" /\ run[c].suite = "pyperformance"
  /\ Goes(c, IF ok THEN [run[c] EXCEPT !.at = "installing", !.left = Cases] ELSE [run[c] EXCEPT !.at = "failed"])
  /\ UNCHANGED <<clock, sessions>>

\* InstallRequirements into every arm; the first that fails drops the case.
Install(c, failed) ==
  LET case == Head(run[c].left)
  IN  /\ run[c].at = "installing" /\ run[c].left # <<>>
      /\ Goes(c, IF failed = {} THEN [run[c] EXCEPT !.left = Tail(@), !.cells = Append(@, case)]
                 ELSE [run[c] EXCEPT !.left = Tail(@), !.missing = @ \cup {[bench |-> case, why |-> "requirements", arms |-> failed]}])
      /\ UNCHANGED <<clock, sessions>>

Files(c) == sessions[run[c].stamp]

WriteAccounting(c, missing) ==
  sessions' = [sessions EXCEPT ![run[c].stamp].accounting = {missing}]

\* The arms of one benchmark follow each other.
Queue(order, cases) ==
  FlattenSeq([k \in DOMAIN cases |-> [i \in DOMAIN order |-> <<cases[k], order[i]>>]])

Account(c) ==
  /\ run[c].at = "installing" /\ run[c].left = <<>>
  /\ IF run[c].cells = <<>>
     THEN Goes(c, [run[c] EXCEPT !.at = "failed"]) /\ UNCHANGED sessions
     ELSE /\ WriteAccounting(c, run[c].missing)
          /\ Goes(c, [run[c] EXCEPT !.at = "measuring", !.cells = Queue(run[c].order, @)])
  /\ UNCHANGED clock

\* The built-in suite needs no preparation: every arm is one cell.
AccountMicro(c) ==
  /\ run[c].at = "preparing" /\ run[c].suite = "micro"
  /\ WriteAccounting(c, {})
  /\ Goes(c, [run[c] EXCEPT !.at = "measuring", !.cells = Queue(run[c].order, <<"micro">>)])
  /\ UNCHANGED clock

\* Every command writes where it left off in the file it opened.
Record(c, event, times) ==
  LET at == run[c].written
  IN  [sessions EXCEPT ![run[c].stamp].timeline = Over([i \in at + 1 .. at + times |-> event], @)]

\* What lies at a cell's path under raw/ once its process has ended: what it
\* wrote, or what was there; of a process that failed, nothing (os.Remove).
Kept(raw, cell, ok, file) ==
  IF ~ok THEN Restrict(raw, DOMAIN raw \ {cell})
  ELSE IF file = <<>> THEN raw ELSE With(raw, cell, Head(file))
Found(raw, cell) == IF cell \in DOMAIN raw THEN raw[cell] ELSE NamesNone

\* ParseResult: a file that names a benchmark is a result, even if it has no
\* time of it or of another; slip: one without results is a cell like another.
UsableExit(ok, found) == ok
Usable(ok, found) == ok /\ found.names # {}

\* The cells that are left.
Rest(cells, good) == Tail(cells)

Event(c, cell, ok, confined) == [by |-> c, cell |-> cell, ok |-> ok, confined |-> confined]

\* One cell: the process succeeds, fails or runs out of time, and writes a file
\* or none. Of one that succeeds without a result there are two records. pyperf
\* pins its workers itself (--affinity).
Measure(c, ok, file) ==
  LET cell  == Head(run[c].cells)
      raw   == Kept(Files(c).raw, cell, ok, file)
      found == Found(raw, cell)
      good  == Usable(ok, found)
      times == IF ok /\ ~good THEN 2 ELSE 1
      event == Event(c, cell, ok, run[c].pinned)
  IN  /\ run[c].at = "measuring" /\ run[c].cells # <<>> /\ run[c].suite = "pyperformance"
      /\ \A f \in ToSet(file) : f.names \subseteq NamesIn[cell[1]]
      /\ Goes(c, [run[c] EXCEPT !.cells = Rest(@, good), !.written = @ + times,
                                !.values = IF good THEN @ \cup {cell} ELSE @,
                                !.results = IF good THEN @ \cup {<<cell[2], n>> : n \in found.timed} ELSE @,
                                !.failures = IF good THEN @ ELSE Append(@, cell)])
      /\ sessions' = [Record(c, event, times) EXCEPT ![run[c].stamp].raw = raw]
      /\ UNCHANGED clock

\* A cell of the built-in suite that fails ends the command. Its processes have
\* the affinity of the thread that forks them: pinning set that of one thread, and
\* the goroutine is on whichever thread the scheduler gives it.
MeasureMicro(c, ok, pinnedThread) ==
  LET cell == Head(run[c].cells)
  IN  /\ run[c].at = "measuring" /\ run[c].cells # <<>> /\ run[c].suite = "micro"
      /\ Goes(c, [run[c] EXCEPT !.at = IF ok THEN @ ELSE "failed", !.cells = Tail(@), !.written = @ + 1,
                                !.values = IF ok THEN @ \cup {cell} ELSE @,
                                !.results = IF ok THEN @ \cup {<<cell[2], n>> : n \in NamesIn["micro"]} ELSE @])
      /\ sessions' = Record(c, Event(c, cell, ok, run[c].pinned /\ pinnedThread), 1)
      /\ UNCHANGED clock

SummarizeFailures(failures) ==
  {[bench |-> f[1], why |-> "runtime", arms |-> {g[2] : g \in {h \in ToSet(failures) : h[1] = f[1]}}] :
     f \in ToSet(failures)}

\* Rows need the baseline; an arm without a number has no part in the row.
Compare(results, baseline, order) ==
  {[name |-> n, arms |-> {a \in ToSet(order) : <<a, n>> \in results}] :
     n \in {r[2] : r \in {x \in results : x[1] = baseline}}}

Finish(c) ==
  /\ run[c].at = "measuring" /\ run[c].cells = <<>>
  /\ LET missing == run[c].missing \cup SummarizeFailures(run[c].failures)
     IN  /\ sessions' = [sessions EXCEPT ![run[c].stamp].accounting = {missing},
                                         ![run[c].stamp].report = {[baseline |-> run[c].baseline, by |-> c,
                                              rows |-> Compare(run[c].results, run[c].baseline, run[c].order)]}]
         /\ Goes(c, [run[c] EXCEPT !.at = "done", !.missing = missing])
  /\ UNCHANGED clock

Killed(c) ==
  /\ run[c].at \notin {"idle", "done", "failed", "killed"}
  /\ Goes(c, [run[c] EXCEPT !.at = "killed"])
  /\ UNCHANGED <<clock, sessions>>

Tick == clock < MaxTime /\ clock' = clock + 1 /\ UNCHANGED <<run, sessions>>

BenchNext ==
  \/ \E c \in Commands :
       \/ /\ run[c].at = "idle"
          /\ \E s \in Suites, q \in Lineups, m \in Machines, f \in PinFlags, allowed \in BOOLEAN :
               ChooseArms(c, s, q, m, f, allowed)
       \/ OpenSession(c)
       \/ \E ok \in BOOLEAN : Prepare(c, ok)
       \/ \E failed \in {{}} \cup {{a} : a \in ToSet(run[c].order)} : Install(c, failed)
       \/ Account(c) \/ AccountMicro(c)
       \/ \E ok \in BOOLEAN, file \in {<<>>} \cup {<<f>> : f \in PyperfFiles} : Measure(c, ok, file)
       \/ \E ok, pinnedThread \in BOOLEAN : MeasureMicro(c, ok, pinnedThread)
       \/ Finish(c)
       \/ Killed(c)
  \/ Tick

BenchSpec == BenchInit /\ [][BenchNext]_benchVars

--------------------------------------------------------------------------------
(* Properties.                                                              *)

\* Every session has the shape of its files, and a report comes after both
\* accountings.
BenchTypeOK ==
  /\ \A s \in DOMAIN sessions : sessions[s].report # {} => sessions[s].accounting # {}
  /\ \A c \in Commands : run[c].at = "measuring" =>
       ToSet(run[c].cells) \cap (run[c].values \cup ToSet(run[c].failures)) = {}

\* A command that has its session directory, and one that shares it with no
\* other: two that begin within a second have one directory.
Opened(c) == run[c].at # "idle" /\ run[c].asked = {}
OwnSession(c) == \A d \in Commands \ {c} : Opened(d) => run[d].stamp # run[c].stamp

Suite(c) == IF run[c].suite = "micro" THEN {"micro"} ELSE ToSet(Cases)
Listed(c) == UNION Files(c).accounting
Gone(c, case, arm) ==
  \E e \in Listed(c) : e.bench = case /\ (e.why = "requirements" \/ e.arms \cap {arm, run[c].baseline} # {})

\* What the session has of a benchmark on an arm: its file under raw/, and of the
\* built-in suite all of it.
LeftBy(c, case, arm) ==
  IF run[c].suite = "micro" THEN Whole(case) ELSE Found(Files(c).raw, <<case, arm>>)
Timed(c, arm) == UNION {LeftBy(c, case, arm).timed : case \in Suite(c)}
Behind(rep, arm) == {row.name : row \in {r \in rep.rows : arm \in r.arms}}

\* Of a finished session: a mean is over what the files under raw/ time on the
\* arm and on the baseline, and over nothing else; and skipped.json names, for the
\* arm or for the baseline, just the benchmarks whose file names nothing or is not
\* there, whether they were not installed, failed, ran out of time or ended well
\* without a result (Failure, Compare, summarizeFailures).
MeanIsOverTheNamedSet ==
  \A c \in Commands : run[c].at = "done" /\ OwnSession(c) =>
    \A rep \in Files(c).report : \A arm \in ToSet(run[c].order) :
      /\ Behind(rep, arm) = Timed(c, arm) \cap Timed(c, run[c].baseline)
      /\ \A case \in Suite(c) :
           Gone(c, case, arm) <=> \E a \in {arm, run[c].baseline} : LeftBy(c, case, a).names = {}

\* "The early copy is what a run killed halfway still leaves behind"
\* (runPyperfSuite): once something was measured, the session says which
\* benchmarks were dropped before, whenever the command ends.
KilledRunIsAccounted ==
  \A c \in Commands :
    run[c].at \in {"measuring", "killed", "done"} /\ run[c].values # {} /\ OwnSession(c) =>
      /\ Files(c).accounting # {}
      /\ \A case \in Suite(c) :
           (\A a \in ToSet(run[c].order) : <<case, a>> \notin run[c].values \cup ToSet(run[c].failures) \cup ToSet(run[c].cells))
             => \E e \in Listed(c) : e.bench = case

\* No number comes from a process that failed or was cut off (RunSuite: "a
\* partial pyperf file would parse as real data"): what lies under raw/ was left
\* by cells that succeeded, and the report holds no arm without one.
NumbersComeFromGoodRuns ==
  \A c \in Commands : Opened(c) /\ OwnSession(c) =>
    LET good == {e.cell : e \in {f \in Range(Files(c).timeline) : f.ok}}
    IN  /\ DOMAIN Files(c).raw \subseteq good
        /\ \A rep \in Files(c).report : \A row \in rep.rows : \A a \in row.arms :
             \E g \in good : g[2] = a /\ row.name \in LeftBy(c, g[1], a).timed

\* The denominator is one of the arms, and one more --interp at the end moves it
\* only if it is the reference (runBench: "adding an interpreter silently change
\* the baseline"); an arm runs what it was last said to be.
BaselineIsChosen ==
  \A c \in Commands : run[c].at = "chosen" =>
    \A a \in run[c].asked :
      LET q       == a.q
          extra   == [label |-> "extra", path |-> "/extra"]
          more    == Lineup([q EXCEPT !.interps = Append(@, extra)])
      IN  /\ run[c].baseline \in ToSet(run[c].order) /\ IsInjective(run[c].order)
          /\ q.interps # <<>> /\ q.only = {} => more.baseline = run[c].baseline
          /\ \A i \in DOMAIN q.interps :
               q.interps[i].path # NotGiven /\ q.interps[i].label \in DOMAIN a.paths
                 /\ (\A j \in DOMAIN q.interps : j > i => q.interps[j].label # q.interps[i].label)
                   => a.paths[q.interps[i].label] = q.interps[i].path

\* "Anything that would leave the run unpinned after the caller asked for a
\* specific core is an error rather than a downgrade" (choosePin); left to
\* itself it takes a core of the fastest type, cpu0 only if there is no other,
\* and none that ranks higher is left out.
PinnedAsAsked ==
  \A c \in Commands : run[c].at = "chosen" =>
    \A a \in run[c].asked :
      LET topo  == Topology(a.machine)
          other == Fastest(topo) \ {0}
      IN  /\ a.flags.want # {} /\ ~a.flags.off => a.pin.applied /\ a.pin.cpu \in a.flags.want
          /\ a.machine # <<>> /\ ~a.flags.off => a.pin.applied
          /\ a.pin.applied /\ a.flags.want \cup a.flags.pick = {} =>
               /\ a.pin.cpu \in Fastest(topo) /\ (a.pin.cpu = 0 => other = {})
               /\ \A d \in other : topo[d].rank <= topo[a.pin.cpu].rank

\* "The run is confined to one logical CPU with sched_setaffinity, inherited by
\* every interpreter spawned" (cli/bench.go): of that, what holds is that a pinned
\* command confines every process of pyperformance, which --affinity pins anew
\* (Case.Args). Those of the built-in suite have the affinity of any thread.
PyperfIsConfined ==
  \A c \in Commands : Opened(c) /\ OwnSession(c) /\ run[c].pinned /\ run[c].suite # "micro" =>
    \A e \in Range(Files(c).timeline) : e.confined

\* A session's numbers are those of the interpreters, the core and the set of
\* benchmarks it names, whichever cells fail and whenever it is killed.
NumbersAreAccounted ==
  BenchTypeOK /\ MeanIsOverTheNamedSet /\ KilledRunIsAccounted /\ NumbersComeFromGoodRuns
  /\ BaselineIsChosen /\ PinnedAsAsked /\ PyperfIsConfined

\* "Results land in dist/bench/<UTC-stamp>-<arch>/, never overwritten"
\* (cli/bench.go): the report of a session stays what it is.
NeverOverwritten ==
  [][\A s \in DOMAIN sessions : sessions[s].report \subseteq sessions'[s].report]_sessions

================================================================================
