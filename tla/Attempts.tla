------------------------------- MODULE Attempts --------------------------------
(***************************************************************************)
(* The log directory of one job (core/runner.go) and who reads it          *)
(* (cli/logs.go).  Every attempt at the job makes a directory of its own,  *)
(* the link `latest' is led to it, and each command leaves a numbered log. *)
(*                                                                         *)
(* Attempts at a job of a plan hold the job's lock; those of a benchmark   *)
(* session do not.  Processes in containers that share dist/ may have one  *)
(* process number, and all may begin in one second.                        *)
(***************************************************************************)
EXTENDS Integers, FiniteSets, FiniteSetsExt, SequencesExt, Maps

CONSTANTS
  Procs,           \* processes that attempt the job
  Pids,            \* process numbers
  StepNames,       \* names of commands
  Chunks,          \* what a command may write at a time: "x" and "nl" in sequence
  TailLines,       \* lines that an error carries
  LongestLine,     \* what a line may hold before it is cut
  LastNumber,      \* the last number that %03d pads to one width
  MaxAttempts, MaxCommands, MaxChunks, MaxSecond, MaxWrites   \* bounds

ASSUME AttemptsAssumption == MaxAttempts \in Nat /\ LastNumber \in Nat

ASSUME TailAssumption ==
  /\ TailLines \in Nat /\ LongestLine \in Nat /\ MaxWrites \in Nat
  /\ \A chunk \in Chunks : chunk \in Seq(STRING)

VARIABLES
  guard,           \* unset, lock or free: whether this job has a lock
  second,          \* the second of the last attempt
  attempts,        \* name -> [born, by, linked, logs, died]
  latest,          \* {} or the attempt that the link leads to
  proc,            \* what a process does
  follow           \* staticpy logs --follow

attemptVars == <<guard, second, attempts, latest, proc, follow>>

--------------------------------------------------------------------------------
(* The tail of an output.                                                  *)

NoTail == [ring |-> <<>>, part |-> <<>>]
Newest(n, s) == IF Len(s) > n THEN SubSeq(s, Len(s) - n + 1, Len(s)) ELSE s

Push(t, line) == [ring |-> Newest(TailLines, Append(t.ring, line)), part |-> <<>>]

TailByte(t, b) == IF b = "nl" THEN Push(t, t.part) ELSE [t EXCEPT !.part = Append(@, b)]
TailBytes(t, chunk) ==
  LET after[i \in 0..Len(chunk)] == IF i = 0 THEN t ELSE TailByte(after[i - 1], chunk[i])
  IN  after[Len(chunk)]

\* Slip: each write begins a line of its own.
TailWriteByLine(t, chunk) == TailBytes([t EXCEPT !.part = <<>>], chunk)

TailWrite(t, chunk) ==
  LET all == TailBytes(t, chunk)
  IN  IF Len(all.part) > LongestLine THEN Push(all, all.part) ELSE all

TailString(t) == IF t.part = <<>> THEN t.ring ELSE Newest(TailLines, Append(t.ring, t.part))

--------------------------------------------------------------------------------
(* Names and their order in a directory.                                   *)

\* uniqueDir: a suffix is added until mkdir finds nothing there.
UniqueDir(sec, pid) ==
  LET taken == {a.suffix : a \in {b \in DOMAIN attempts : b.sec = sec /\ b.pid = pid}}
  IN  [sec |-> sec, pid |-> pid, suffix |-> Min((0..MaxAttempts) \ taken)]

\* Directory listings are in the order of the characters, so that a number of
\* four digits lies among those of three.
LogKey(n) == IF n <= LastNumber THEN 2 * n ELSE 2 * (n \div 10) + 1

LastLog(logs) == CHOOSE n \in DOMAIN logs : \A m \in DOMAIN logs : LogKey(m) <= LogKey(n)

NameKey(a) == <<a.sec, a.pid, a.suffix>>
Precedes(a, b) ==
  \E i \in 1..3 : NameKey(a)[i] < NameKey(b)[i] /\ \A j \in 1..3 : j < i => NameKey(a)[j] = NameKey(b)[j]

LatestAttempt == IF latest # {} THEN latest ELSE {a \in DOMAIN attempts : ~\E b \in DOMAIN attempts : Precedes(a, b)}

--------------------------------------------------------------------------------
(* The attempts.                                                           *)

NoProc == [at |-> "idle", canceled |-> FALSE, dir |-> {}, error |-> [kind |-> "none"]]
Between(p) == [NoProc EXCEPT !.at = "between", !.canceled = proc[p].canceled, !.dir = proc[p].dir]
Turns(p, r) == proc' = [proc EXCEPT ![p] = r]
Dir(p) == CHOOSE a \in proc[p].dir : TRUE
Logs(p) == attempts[Dir(p)].logs
Others == <<guard, second, follow>>

AttemptInit ==
  /\ guard = "unset" /\ second = 0 /\ attempts = <<>> /\ latest = {}
  /\ proc = [p \in Procs |-> NoProc]
  /\ follow = [dir |-> "off", cur |-> <<>>, file |-> <<>>, shown |-> 0, left |-> {}]

Choose(g) == guard = "unset" /\ guard' = g /\ UNCHANGED <<second, attempts, latest, proc, follow>>

\* NewRunner takes the time first and makes the directory then; a second may
\* have gone by since the last attempt, or none.  Bound: processes are numbered
\* in the order of their first attempts.
NewRunner(p, pid, later) ==
  /\ guard # "unset" /\ proc[p].at = "idle" /\ Cardinality(DOMAIN attempts) < MaxAttempts
  /\ second + later <= MaxSecond /\ (attempts = <<>> => \A q \in Procs : q < p => proc[q].at # "idle")
  /\ guard = "lock" => \A q \in Procs : proc[q].at = "idle"
  /\ Turns(p, [NoProc EXCEPT !.at = "naming", !.dir = {[sec |-> second + later, pid |-> pid]}])
  /\ second' = second + later
  /\ UNCHANGED <<guard, attempts, latest, follow>>

MakeDir(p) ==
  /\ proc[p].at = "naming" /\ Cardinality(DOMAIN attempts) < MaxAttempts
  /\ LET a == UniqueDir(Dir(p).sec, Dir(p).pid)
     IN  /\ attempts' = With(attempts, a, [born |-> Cardinality(DOMAIN attempts) + 1, by |-> p, linked |-> FALSE,
                                           logs |-> <<>>, died |-> 0])
         /\ Turns(p, [proc[p] EXCEPT !.at = "linking", !.dir = {a}])
  /\ UNCHANGED <<latest, Others>>

\* Slip: the link is not made where there is one.
LinkLatestOnce(p, ok) ==
  /\ proc[p].at = "linking"
  /\ latest' = IF ok /\ latest = {} THEN proc[p].dir ELSE latest
  /\ attempts' = [attempts EXCEPT ![Dir(p)].linked = ok]
  /\ Turns(p, [proc[p] EXCEPT !.at = "between"])
  /\ UNCHANGED Others

\* The link is made under another name and moved, and nobody hears if it fails.
LinkLatest(p, ok) ==
  /\ proc[p].at = "linking"
  /\ latest' = IF ok THEN proc[p].dir ELSE latest
  /\ attempts' = [attempts EXCEPT ![Dir(p)].linked = ok]
  /\ Turns(p, [proc[p] EXCEPT !.at = "between"])
  /\ UNCHANGED Others

\* The log is created before the environment is put together; a command whose
\* PATH names no toolchain ends there.
Run(p, name, envOk) ==
  /\ proc[p].at = "between" /\ Len(Logs(p)) < MaxCommands
  /\ LET n == Len(Logs(p)) + 1
     IN  attempts' = [attempts EXCEPT ![Dir(p)].logs = Append(@, [name |-> name, size |-> 0, by |-> p]),
                                      ![Dir(p)].died = IF envOk THEN 0 ELSE n]
  /\ Turns(p, IF envOk THEN [proc[p] EXCEPT !.at = "running"] ELSE NoProc)
  /\ UNCHANGED <<latest, Others>>

Grown(p) == [attempts EXCEPT ![Dir(p)].logs[Len(Logs(p))].size = @ + 1]

Output(p) ==
  /\ proc[p].at = "running" /\ Logs(p)[Len(Logs(p))].size < MaxChunks
  /\ attempts' = Grown(p)
  /\ UNCHANGED <<latest, proc, Others>>

\* What a command that ended in this way is to its caller.
ErrorOf(how, canceled) ==
  IF how = "ok" THEN [kind |-> "none"]
  ELSE IF canceled THEN [kind |-> "canceled"]
  ELSE [kind |-> "CmdError", how |-> how, exit |-> IF how = "exit_1" THEN 1 ELSE -1]

DiedOf(p, goesOn) == IF goesOn THEN 0 ELSE Len(Logs(p))

\* The trailer is written, and the job goes on or dies of the error.
Exit(p, how, goesOn) ==
  LET e == ErrorOf(how, proc[p].canceled)
  IN  /\ proc[p].at = "running"
      /\ how = "killed" => proc[p].canceled
      /\ e.kind = "none" => goesOn
      /\ Turns(p, IF goesOn THEN Between(p) ELSE [proc[p] EXCEPT !.at = "dying", !.error = e])
      /\ attempts' = [Grown(p) EXCEPT ![Dir(p)].died = DiedOf(p, goesOn)]
      /\ UNCHANGED <<latest, Others>>

Close(p) ==
  /\ proc[p].at \in {"between", "dying"}
  /\ Turns(p, NoProc)
  /\ UNCHANGED <<attempts, latest, Others>>

Cancel(p) ==
  /\ proc[p].at \in {"between", "running"} /\ ~proc[p].canceled
  /\ Turns(p, [proc[p] EXCEPT !.canceled = TRUE])
  /\ UNCHANGED <<attempts, latest, Others>>

Crash(p) ==
  /\ proc[p].at # "idle"
  /\ Turns(p, NoProc)
  /\ attempts' = IF proc[p].at = "running" THEN [attempts EXCEPT ![Dir(p)].died = Len(Logs(p))] ELSE attempts
  /\ UNCHANGED <<latest, Others>>

--------------------------------------------------------------------------------
(* staticpy logs --follow: a log is known by its path below the directory   *)
(* that was found first, which may be the link.  Bound: only a job with a   *)
(* lock is followed.                                                       *)

StartFollow ==
  /\ follow.dir = "off" /\ LatestAttempt # {} /\ guard = "lock"
  /\ follow' = [follow EXCEPT !.dir = IF latest # {} THEN "latest" ELSE "attempt", !.file = <<CHOOSE a \in LatestAttempt : TRUE, 0>>]
  /\ UNCHANGED <<guard, second, attempts, latest, proc>>

Followed == IF follow.dir = "latest" THEN CHOOSE a \in latest : TRUE ELSE follow.file[1]
PathOf(a, n) == <<n, attempts[a].logs[n].name>>
Size(f) == attempts[f[1]].logs[f[2]].size

\* What is left of the log that was followed is shown before the next is opened.
Drained == [file |-> follow.file, shown |-> Size(follow.file)]

RollOn ==
  /\ follow.dir # "off" /\ attempts[Followed].logs # <<>>
  /\ LET n == LastLog(attempts[Followed].logs)
     IN  /\ PathOf(Followed, n) # follow.cur
         /\ follow' = [follow EXCEPT !.cur = PathOf(Followed, n), !.file = <<Followed, n>>, !.shown = 0,
                                     !.left = IF follow.cur = <<>> THEN @ ELSE {Drained}]
  /\ UNCHANGED <<guard, second, attempts, latest, proc>>

ShowMore ==
  /\ follow.dir # "off" /\ follow.cur # <<>> /\ follow.shown < Size(follow.file)
  /\ follow' = [follow EXCEPT !.shown = Size(follow.file)]
  /\ UNCHANGED <<guard, second, attempts, latest, proc>>

AttemptNext ==
  \/ \E g \in {"lock", "free"} : Choose(g)
  \/ \E p \in Procs :
       \/ \E pid \in Pids, later \in 0..1 : NewRunner(p, pid, later)
       \/ MakeDir(p)
       \/ \E ok \in BOOLEAN : LinkLatest(p, ok)
       \/ \E name \in StepNames, envOk \in BOOLEAN : Run(p, name, envOk)
       \/ Output(p)
       \/ \E how \in {"ok", "exit_1", "exit_0", "killed"}, goesOn \in BOOLEAN : Exit(p, how, goesOn)
       \/ Close(p) \/ Cancel(p) \/ Crash(p)
  \/ StartFollow \/ RollOn \/ ShowMore

AttemptSpec == AttemptInit /\ [][AttemptNext]_attemptVars

--------------------------------------------------------------------------------
(* Properties.                                                             *)

\* The stages of an attempt; it dies, if it does, of its last command.
AttemptTypeOK ==
  /\ guard \in {"unset", "lock", "free"} /\ latest \subseteq DOMAIN attempts
  /\ \A p \in Procs : proc[p].at \in {"idle", "naming", "linking", "between", "running", "dying"}
  /\ \A a \in DOMAIN attempts : attempts[a].died \in {0, Len(attempts[a].logs)}

\* "Attempt directories are never reused, so no previous attempt's logs are ever
\* lost" (uniqueDir): also with one process number and one second, no two
\* attempts share a directory, and every log in one is its maker's.
AttemptsAreSeparate ==
  /\ \A p, q \in Procs : p # q /\ {proc[p].at, proc[q].at} \subseteq {"linking", "between", "running", "dying"}
       => proc[p].dir # proc[q].dir
  /\ \A a \in DOMAIN attempts : \A n \in DOMAIN attempts[a].logs : attempts[a].logs[n].by = attempts[a].by

\* `latest' is never gone once it was there, and of a job with a lock it leads
\* to the newest attempt whose link was made, whichever way they began and died.
LatestIsNewest ==
  LET linked == {a \in DOMAIN attempts : attempts[a].linked}
  IN  /\ (latest = {}) = (linked = {})
      /\ guard = "lock" => \A a \in latest, b \in linked : attempts[b].born <= attempts[a].born

\* "--failed prints the tail of the step the job died on" (cmdLogs): when nobody
\* is at it, and the last attempt could be linked and died in a command, then it
\* is that command's log, of that attempt, up to the last padded number.
FailedShowsTheDeath ==
  guard = "lock" /\ (\A p \in Procs : proc[p].at = "idle") =>
    \A a \in {b \in DOMAIN attempts : attempts[b].born = Cardinality(DOMAIN attempts)} :
      attempts[a].linked /\ attempts[a].died \in 1..LastNumber =>
        /\ LatestAttempt = {a}
        /\ LastLog(attempts[a].logs) = attempts[a].died

\* --follow shows a log to its end before it rolls on (followLogs), although it
\* looks only now and then; where a lock keeps attempts apart, of any attempt.
RolledLogsAreWhole == \A e \in follow.left : e.shown = Size(e.file)

\* The lines of an output, the last perhaps without its newline.
Cut(split, b) ==
  IF b = "nl" THEN [whole |-> Append(split.whole, split.part), part |-> <<>>]
  ELSE [split EXCEPT !.part = Append(@, b)]
Split(out) ==
  LET split[i \in 0..Len(out)] ==
        IF i = 0 THEN [whole |-> <<>>, part |-> <<>>] ELSE Cut(split[i - 1], out[i])
  IN  split[Len(out)]
LinesOf(out) ==
  LET all == Split(out) IN IF all.part = <<>> THEN all.whole ELSE Append(all.whole, all.part)

\* The tail of an output that was written in these pieces.
TailOf(writes) ==
  LET tail[i \in 0..Len(writes)] == IF i = 0 THEN NoTail ELSE TailWrite(tail[i - 1], writes[i])
  IN  tail[Len(writes)]

\* An error carries the last lines of the output (CmdError.Tail), however the
\* output is cut into writes, as long as no line is too long to keep.
TailIsTheEnd ==
  guard = "free" /\ attempts = <<>> =>
    \A writes \in UNION {[1..n -> Chunks] : n \in 0..MaxWrites} :
      LET lines == LinesOf(FlattenSeq(writes))
      IN  (\A i \in DOMAIN lines : Len(lines[i]) <= LongestLine)
            => TailString(TailOf(writes)) = Newest(TailLines, lines)

\* A command that was killed because its job was canceled is never reported as
\* one that failed (Runner.run), and none that failed as one that exited well.
BlameIsEarned ==
  \A p \in Procs : proc[p].error.kind = "CmdError" => proc[p].error.how # "killed" /\ proc[p].error.exit # 0

\* No attempt's logs are lost to another attempt, nor to who looks for them.
LogsAreKept ==
  AttemptTypeOK /\ AttemptsAreSeparate /\ LatestIsNewest /\ FailedShowsTheDeath /\ RolledLogsAreWhole

\* The error of a command says how it ended and what it said last.
ErrorsTellTheEnd == TailIsTheEnd /\ BlameIsEarned
================================================================================
