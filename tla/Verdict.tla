-------------------------------- MODULE Verdict --------------------------------
(***************************************************************************)
(* Verification of a built interpreter (internal/ensure, cli/verify.go):   *)
(* the checks of its ELF file, the probes of its modules, CPython's own    *)
(* test suite judged against the recorded expectations, and the report     *)
(* that is published under a key and reused while the key is the same.     *)
(*                                                                         *)
(* An interpreter is what is true of it; what a run of it answers is       *)
(* chosen at every run, because a suite may die, be cut off or be flaky.   *)
(***************************************************************************)
EXTENDS Naturals, FiniteSets, Maps

CONSTANTS
  Interpreters,    \* [id, exists, readable, static, machine, bits, stripped, symbols, works, host]
  Target,          \* [triple, machine, bits, native, qemu]
  ProbeNames,      \* the imports and self checks of the probe script
  ShippedTests,    \* the tests the interpreter ships
  CoreTests,       \* those the core level asks for
  Expectations,    \* tables: key -> [skip, fail], keys as in ExpectKey
  Prints,          \* the sets of buckets regrtest may print a test in
  MaxVerifies      \* bound on the verifications asked for

BucketNames == {"OK", "failed", "env changed", "skipped", "omitted", "run no tests"}

\* regrtest counts a test as OK only if it lists it nowhere.  Bound: what the
\* core level asks for is shipped.
ASSUME SuiteAssumption ==
  /\ IsFiniteSet(ShippedTests) /\ CoreTests \subseteq ShippedTests /\ CoreTests # {} /\ ProbeNames # {}
  /\ \A names \in Prints : names \subseteq BucketNames /\ ("OK" \in names => names = {"OK"})

\* "unknown" is no machine that a file may be for.
ASSUME InterpretersAssumption ==
  \A i \in Interpreters :
    i.machine # "unknown" /\ {i.exists, i.readable, i.static, i.stripped, i.symbols, i.host} \subseteq BOOLEAN

VARIABLES
  phase,           \* idle, planned, probing, testing, answered
  request,         \* what was asked: interpreter, level, expectations, skip
  checks,          \* the report: names with pass, fail or skip
  answers,         \* what the runs of the interpreter printed (history)
  published,       \* level -> the key and the report of the stored artifact
  exit,            \* the exit status of the last command
  proven,          \* what was found true by a real run (history)
  verifies         \* verifications asked for

verdictVars == <<phase, request, checks, answers, published, exit, proven, verifies>>

--------------------------------------------------------------------------------
(* Expectations.                                                           *)

AnyTriple == "any triple"
AnyRunner == "any runner"
ExpectKey(triple, runner) == [triple |-> triple, runner |-> runner, static |-> FALSE]
ExpectAll    == ExpectKey(AnyTriple, AnyRunner)
ExpectStatic == [ExpectAll EXCEPT !.static = TRUE]

\* Bound: what is expected is written under keys that are looked up, of tests
\* that are shipped.
ASSUME ExpectationsAssumption ==
  \A table \in Expectations : \A k \in DOMAIN table :
    /\ k = ExpectStatic \/ k = ExpectKey(k.triple, k.runner)
    /\ table[k].skip \cup table[k].fail \subseteq ShippedTests

Runner == IF Target.native THEN "native" ELSE "qemu"

\* The keys that apply are looked up one by one and their entries gathered.
LookupExpect(table, runner, static) ==
  LET keys == {ExpectAll, ExpectKey(AnyTriple, runner), ExpectKey(Target.triple, AnyRunner),
               ExpectKey(Target.triple, runner)} \cup (IF static THEN {ExpectStatic} ELSE {})
  IN  [list \in {"skip", "fail"} |-> UNION {table[k][list] : k \in keys \cap DOMAIN table}]

Expect(j) == LookupExpect(j.table, Runner, ~j.interp.host)

\* Slip: a skipped verification has the key of a real one.
KeyInputsAlike(j) == [interp |-> j.interp.id, level |-> j.level, expect |-> Expect(j), skipped |-> FALSE]

\* What the key of a report is made of; the id stands for the interpreter's key.
KeyInputs(j) ==
  [interp |-> j.interp.id, level |-> j.level, expect |-> Expect(j), skipped |-> j.skip]

--------------------------------------------------------------------------------
(* The file and its probes.                                                *)

Said(ok) == IF ok THEN "pass" ELSE "fail"

CheckELF(i) ==
  LET known == Target.machine # "unknown"
  IN  IF ~i.readable THEN {<<"elf:readable", "fail">>}
      ELSE {<<"elf:readable", "pass">>,
            <<"elf:linkage", Said(i.static # i.host)>>,
            <<"elf:machine", Said(known /\ i.machine = Target.machine)>>,
            <<"elf:symbol", IF i.host \/ i.stripped THEN "skip" ELSE Said(i.symbols)>>}
           \cup (IF Target.bits # 0 /\ known THEN {<<"elf:bits", Said(i.bits = Target.bits)>>} ELSE {})

NewLauncher == {<<"runner", Said(Target.native \/ Target.qemu = "usable")>>}

RunProbes(i, run) ==
  IF ~run.started \/ run.printed = {} THEN {<<"probe:startup", "fail">>}
  ELSE {<<"probe:startup", "pass">>}
       \cup {<<p, Said(p \in run.printed /\ p \in i.works)>> : p \in ProbeNames}

--------------------------------------------------------------------------------
(* The suite.  An outcome gives the buckets every test was printed in.     *)

Requested(level) == IF level = "core" THEN CoreTests ELSE {}

Bucket(out, names) == {t \in DOMAIN out : out[t] \cap names # {}}
Failing(out) == Bucket(out, {"failed", "env changed"})
Passed(out)  == Cardinality(Bucket(out, {"OK"}))

StatusOf(out, level, t) ==
  IF t \in Failing(out) THEN "failed"
  ELSE IF t \in Bucket(out, {"skipped", "omitted", "run no tests"}) THEN "skipped"
  ELSE IF level = "full" \/ t \in Requested(level) THEN "passed"
  ELSE "absent"

\* Accounted counts the tests that passed and the distinct names of the others.
Accounted(out) ==
  Passed(out) + Cardinality(Bucket(out, {"failed", "env changed", "skipped", "omitted", "run no tests"}))

CheckCoverage(run, level) ==
  /\ ~run.timedOut
  /\ Accounted(run.out) > 0
  /\ Accounted(run.out) >= Cardinality(Requested(level))

Judge(status, wantFail) ==
  CASE status = "passed"  -> "unexpected pass"
    [] status # "passed" /\ wantFail -> "expected failure"
    [] status = "skipped" /\ ~wantFail -> "expected skip"
    [] OTHER -> "unexpected failure"

\* Tests that are judged by their bucket alone.
Unlisted(out, expect, name) == Bucket(out, {name}) \ (expect.fail \cup expect.skip)

\* A verdict tells by what it came to be: a list of the expectations or a bucket.
Classify(out, level, expect) ==
  LET status(t) == StatusOf(out, level, t)
      listed(names, wantFail, by) ==
        {[test |-> t, class |-> Judge(status(t), wantFail), by |-> by] :
           t \in {n \in names : status(n) # "absent"}}
      found(names, by) == {[test |-> t, class |-> "unexpected failure", by |-> by] : t \in names}
  IN  listed(expect.fail, TRUE, "fail list")
      \cup listed(expect.skip \ expect.fail, FALSE, "skip list")
      \cup found(Unlisted(out, expect, "failed"), "failed")
      \cup found(Unlisted(out, expect, "env changed") \ Bucket(out, {"failed"}), "env changed")

Wrong(class) == class \in {"unexpected failure", "unexpected pass"}

ClassReport(verdicts) ==
  {<<v.test, "fail">> : v \in {w \in verdicts : Wrong(w.class)}}
  \cup {<<"suite:expected-failures", "pass">> : v \in {w \in verdicts : w.class = "expected failure"}}
  \cup {<<"suite:expected-skips", "skip">> : v \in {w \in verdicts : w.class = "expected skip"}}
  \cup (IF \A v \in verdicts : ~Wrong(v.class) THEN {<<"suite:result", "pass">>} ELSE {})

RunSuite(run, j) ==
  IF ~run.started THEN {<<"suite", "fail">>}
  ELSE IF ~CheckCoverage(run, j.level) THEN {<<"suite:coverage", "fail">>}
  ELSE ClassReport(Classify(run.out, j.level, Expect(j)))

ReportOK(report) == \A c \in report : c[2] # "fail"

--------------------------------------------------------------------------------
(* The command and its job.                                                *)

\* What the report is to find out, said of the interpreter and of its tests:
\* see GreenIsEarned.
KeyApplies(k, host) ==
  /\ k.triple \in {AnyTriple, Target.triple} /\ k.runner \in {AnyRunner, Runner}
  /\ k.static => ~host

Excused(j, t) ==
  \E k \in DOMAIN j.table : KeyApplies(k, j.interp.host) /\ t \in j.table[k].fail

AsDeclared(j, out) ==
  LET ran == IF j.level = "core" THEN CoreTests ELSE ShippedTests
      holds(k) == KeyApplies(k, j.interp.host)
  IN  /\ \A t \in ran : out[t] \cap {"failed", "env changed"} # {} => Excused(j, t)
      /\ \A k \in {l \in DOMAIN j.table : holds(l)} :
           \A t \in ran \cap (j.table[k].fail \cup j.table[k].skip) : out[t] # {"OK"}

FileAsClaimed(i) ==
  /\ i.exists /\ i.readable /\ i.static = ~i.host /\ i.machine = Target.machine
  /\ Target.bits # 0 => i.bits = Target.bits
  /\ ~i.host /\ ~i.stripped => i.symbols

Proven(j, seen) ==
  /\ FileAsClaimed(j.interp)
  /\ ProbeNames \subseteq j.interp.works \cap seen.probes.printed
  /\ j.level # "smoke" => seen.suite.started /\ ~seen.suite.timedOut /\ AsDeclared(j, seen.suite.out)

Finding(j) == [interp |-> j.interp.id, level |-> j.level, expect |-> Expect(j)]

Unseen == [probes |-> [started |-> FALSE, printed |-> {}], suite |-> [started |-> FALSE, timedOut |-> FALSE, out |-> <<>>]]
NoJob == [level |-> "none"]

VerdictInit ==
  /\ phase = "idle" /\ request = NoJob /\ checks = {} /\ answers = Unseen
  /\ published = <<>> /\ exit = 0 /\ proven = {} /\ verifies = 0

Valid(j) == j.level \in DOMAIN published /\ published[j.level].key = KeyInputs(j)

\* What is stored after a report.
Stored(report) == IF ReportOK(report) THEN With(published, request.level, [key |-> KeyInputs(request), checks |-> report])
                  ELSE published

\* A failed job publishes nothing: what was stored stays, under its own key.
Answer(report, seen) ==
  /\ phase' = "answered" /\ checks' = report /\ answers' = seen
  /\ exit' = IF ReportOK(report) THEN 0 ELSE 1
  /\ published' = Stored(report)
  /\ proven' = proven \cup {Finding(k) : k \in {l \in {request} : Proven(l, seen)}}
  /\ UNCHANGED <<request, verifies>>

Ask(i, level, table, skip) ==
  /\ phase = "idle" /\ verifies < MaxVerifies
  /\ verifies' = verifies + 1
  /\ phase' = "planned" /\ request' = [interp |-> i, level |-> level, table |-> table, skip |-> skip]
  /\ checks' = {} /\ answers' = Unseen
  /\ UNCHANGED <<published, exit, proven>>

\* The stored report is shown again.
Reuse ==
  /\ phase = "planned" /\ Valid(request)
  /\ phase' = "answered" /\ checks' = published[request.level].checks
  /\ exit' = IF ReportOK(checks') THEN 0 ELSE 1
  /\ UNCHANGED <<request, answers, published, proven, verifies>>

SkipVerify ==
  /\ phase = "planned" /\ ~Valid(request) /\ request.skip
  /\ Answer({<<"verify", "skip">>}, answers)

Inspect ==
  /\ phase = "planned" /\ ~Valid(request) /\ ~request.skip
  /\ LET report == CheckELF(request.interp) \cup NewLauncher
     IN  IF ~request.interp.exists THEN Answer({<<"interpreter", "fail">>}, answers)
         ELSE IF ~ReportOK(NewLauncher) THEN Answer(report, answers)
         ELSE /\ checks' = report /\ phase' = "probing"
              /\ UNCHANGED <<request, answers, published, exit, proven, verifies>>

Probe(run) ==
  /\ phase = "probing"
  /\ LET report == checks \cup RunProbes(request.interp, run)
         seen   == [answers EXCEPT !.probes = run]
     IN  IF request.level = "smoke" \/ ~ReportOK(report) THEN Answer(report, seen)
         ELSE /\ checks' = report /\ answers' = seen /\ phase' = "testing"
              /\ UNCHANGED <<request, published, exit, proven, verifies>>

Test(run) ==
  /\ phase = "testing"
  /\ Answer(checks \cup RunSuite(run, request), [answers EXCEPT !.suite = run])

Return == phase = "answered" /\ phase' = "idle" /\ request' = NoJob /\ checks' = {} /\ answers' = Unseen
          /\ UNCHANGED <<published, exit, proven, verifies>>

ProbeRuns == {[started |-> FALSE, printed |-> {}]} \cup {[started |-> TRUE, printed |-> s] : s \in SUBSET ProbeNames}

\* A suite that died printed nothing of any test; one outside the run is in no bucket.
SuiteRuns(level) ==
  LET ran == IF level = "core" THEN CoreTests ELSE ShippedTests
      nothing == [t \in ShippedTests |-> {}]
  IN  {[started |-> b, timedOut |-> b, out |-> nothing] : b \in BOOLEAN}
      \cup {[started |-> TRUE, timedOut |-> FALSE, out |-> o] :
              o \in {f \in [ShippedTests -> Prints \cup {{}}] : \A t \in ShippedTests \ ran : f[t] = {}}}

VerdictNext ==
  \/ /\ phase = "idle"
     /\ \E i \in Interpreters, l \in {"smoke", "core", "full"}, x \in Expectations, s \in BOOLEAN : Ask(i, l, x, s)
  \/ Reuse \/ SkipVerify \/ Inspect
  \/ phase = "probing" /\ \E run \in ProbeRuns : Probe(run)
  \/ phase = "testing" /\ \E run \in SuiteRuns(request.level) : Test(run)
  \/ Return

VerdictSpec == VerdictInit /\ [][VerdictNext]_verdictVars

--------------------------------------------------------------------------------
(* Properties.                                                             *)

Statuses == {"pass", "fail", "skip"}
VerdictTypeOK ==
  /\ phase \in {"idle", "planned", "probing", "testing", "answered"}
  /\ \A c \in checks : c[2] \in Statuses
  /\ \A l \in DOMAIN published : published[l].key.level = l /\ ReportOK(published[l].checks)

\* The interpreter itself was run, and every test asked for was answered.
Ran == phase = "answered" /\ answers # Unseen
Complete ==
  LET ran == IF request.level = "core" THEN CoreTests ELSE ShippedTests
  IN  ~answers.suite.started \/ \A t \in ran : answers.suite.out[t] # {}

\* A green report is earned (CheckCoverage: the inference "is only sound while
\* every requested test is accounted for"): the file, every probe and every test
\* of the core level answered, and no test failed that no expectation of this
\* triple and runner excuses, nor passed where one says it cannot.
GreenIsEarned ==
  Ran /\ exit = 0 => Proven(request, answers) /\ (request.level = "core" => Complete)

\* And a run that answered every question is refused only with cause: an
\* expectation written for it is found, whatever key it was written under.
RedHasCause ==
  Ran /\ exit = 1 /\ Complete => ~Proven(request, answers)

\* "A skipped verification must never key the same as a real one" (KeyInputs):
\* whenever the command ends well and was not told to skip, then this
\* interpreter was once run at this level, and agreed with these expectations.
ReportStandsForARun ==
  phase = "answered" /\ exit = 0 /\ ~request.skip => Finding(request) \in proven

\* Every test gets one verdict (Classify), be it in several buckets or in both
\* lists; one that failed or is listed gets one, unless it was not in the run.
JudgedOnce ==
  Ran /\ answers.suite.started =>
    LET out      == answers.suite.out
        verdicts == Classify(out, request.level, Expect(request))
        of(t)    == {v \in verdicts : v.test = t}
    IN  \A t \in ShippedTests :
          /\ Cardinality(of(t)) <= 1
          /\ t \in Failing(out) => \E v \in of(t) : v.class \in {"expected failure", "unexpected failure"}
          /\ out[t] = {"OK"} /\ of(t) # {} => \A v \in of(t) : v.class = "unexpected pass"

\* A verdict, fresh or stored, is green or red for what the interpreter did.
VerdictsAreEarned == VerdictTypeOK /\ GreenIsEarned /\ RedHasCause /\ ReportStandsForARun /\ JudgedOnce
================================================================================
