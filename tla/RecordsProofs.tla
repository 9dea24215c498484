----------------------------- MODULE RecordsProofs -----------------------------
(***************************************************************************)
(* Theorems about what a run leaves behind: the logs of its attempts       *)
(* (Attempts), for any number of processes, process numbers, commands, logs*)
(* and writes; and the numbers of a bench session (Bench), for any number  *)
(* of commands, any suite, lineup and machine.                             *)
(***************************************************************************)
EXTENDS Attempts, Bench, Walks, FiniteSetTheorems

\* The last log of an attempt that has one is one of its logs.
LEMMA LastLogIsOne ==
  ASSUME NEW logs, NEW len \in Nat \ {0}, DOMAIN logs = 1..len
  PROVE  LastLog(logs) \in 1..len
<1>1. \A n \in 1..len : LogKey(n) \in 0..(2 * len + 1)
  BY AttemptsAssumption DEF LogKey
<1> DEFINE Gap(n) == 2 * len + 1 - LogKey(n)
           Gaps == {Gap(n) : n \in 1..len}
<1>2. Gaps \in SUBSET Nat /\ Gap(1) \in Gaps
  BY <1>1
<1>3. Min(Gaps) \in Gaps /\ \A m \in Gaps : Min(Gaps) <= m
  BY <1>2, SomeLeast
<1>4. PICK n \in 1..len : \A m \in 1..len : Gap(n) <= Gap(m)
  <2>1. PICK n \in 1..len : Min(Gaps) = Gap(n)
    BY <1>3
  <2> QED
    BY <1>3, <2>1
<1>5. \A m \in 1..len : LogKey(m) <= LogKey(n)
  BY <1>1, <1>4
<1> QED
  BY <1>5 DEF LastLog

\* As long as the numbers are padded the last log is the newest one.
LEMMA PaddedLastLog ==
  ASSUME NEW logs, NEW len \in Nat \ {0}, DOMAIN logs = 1..len, len <= LastNumber
  PROVE  LastLog(logs) = len
<1>1. \A n \in 1..len : LogKey(n) = 2 * n
  BY AttemptsAssumption DEF LogKey
<1>2. \A m \in 1..len : LogKey(m) <= LogKey(len)
  BY <1>1
<1>3. \A n \in 1..len : (\A m \in 1..len : LogKey(m) <= LogKey(n)) => n = len
  BY <1>1
<1> QED
  BY <1>2, <1>3 DEF LastLog

\* uniqueDir finds a name that is not taken: fewer are than it may try.
LEMMA UniqueDirIsNew ==
  ASSUME IsFiniteSet(DOMAIN attempts), Cardinality(DOMAIN attempts) < MaxAttempts, NEW sec, NEW pid
  PROVE  UniqueDir(sec, pid) \notin DOMAIN attempts
<1> DEFINE same == {b \in DOMAIN attempts : b.sec = sec /\ b.pid = pid}
           taken == {a.suffix : a \in same}
           suffix == [a \in same |-> a.suffix]
<1>1. IsFiniteSet(same) /\ Cardinality(same) <= Cardinality(DOMAIN attempts)
  BY FS_Subset
<1>2. suffix \in Surjection(same, taken)
  BY DEF Surjection
<1>3. IsFiniteSet(taken) /\ Cardinality(taken) <= Cardinality(same)
  <2> HIDE DEF same, taken, suffix
  <2> QED
    BY <1>1, <1>2, FS_Surjection
<1>4. IsFiniteSet(0..MaxAttempts) /\ Cardinality(0..MaxAttempts) = MaxAttempts + 1
  BY AttemptsAssumption, FS_Interval
<1>5. Cardinality(taken) \in Nat /\ Cardinality(same) \in Nat /\ Cardinality(DOMAIN attempts) \in Nat
  BY <1>1, <1>3, FS_CardinalityType
<1> HIDE DEF taken
<1>6. (0..MaxAttempts) \ taken # {}
  <2> SUFFICES ASSUME 0..MaxAttempts \subseteq taken PROVE FALSE
    OBVIOUS
  <2>1. Cardinality(0..MaxAttempts) <= Cardinality(taken)
    BY <1>3, FS_Subset
  <2> QED
    BY <1>1, <1>3, <1>4, <1>5, <2>1, AttemptsAssumption
<1>7. Min((0..MaxAttempts) \ taken) \in (0..MaxAttempts) \ taken
  BY <1>6, SomeLeast
<1>8. UniqueDir(sec, pid) = [sec |-> sec, pid |-> pid, suffix |-> Min((0..MaxAttempts) \ taken)]
  BY DEF UniqueDir, taken
<1> QED
  BY <1>7, <1>8 DEF taken

--------------------------------------------------------------------------------
(* What is known of attempts.                                              *)

Log == [name : StepNames, size : Nat, by : Procs]
Count == Cardinality(DOMAIN attempts)
Holding == {"linking", "between", "running", "dying"}

AttemptOK(a, count) ==
  /\ DOMAIN a = {"born", "by", "linked", "logs", "died"}
  /\ a.born \in 1..count
  /\ a.logs \in Seq(Log) /\ \A n \in 1..Len(a.logs) : a.logs[n].by = a.by
  /\ a.died \in {0, Len(a.logs)}

\* Attempts are numbered as they are born.
AttemptsOK ==
  /\ guard \in {"unset", "lock", "free"} /\ (guard = "unset" => DOMAIN attempts = {})
  /\ IsFiniteSet(DOMAIN attempts)
  /\ \A a \in DOMAIN attempts : AttemptOK(attempts[a], Count)
  /\ \A a, b \in DOMAIN attempts : attempts[a].born = attempts[b].born => a = b

\* Who works holds an attempt of its own; with a lock, alone and the last one.
HoldsOne(p) ==
  \E a \in DOMAIN attempts :
    /\ proc[p].dir = {a} /\ attempts[a].by = p
    /\ guard = "lock" => attempts[a].born = Count
    /\ proc[p].at = "linking" => ~attempts[a].linked

ProcOK(p) ==
  /\ DOMAIN proc[p] = {"at", "canceled", "dir", "error"}
  /\ proc[p].at \in {"idle", "naming"} \cup Holding
  /\ proc[p].at \in Holding => HoldsOne(p)
  /\ proc[p].at # "idle" => guard # "unset" /\ (guard = "lock" => \A q \in Procs \ {p} : proc[q].at = "idle")

ProcsOK == DOMAIN proc = Procs /\ \A p \in Procs : ProcOK(p)

LatestOK ==
  /\ latest \subseteq DOMAIN attempts
  /\ \A a \in latest : attempts[a].linked /\ latest = {a}
  /\ \A b \in DOMAIN attempts : attempts[b].linked => latest # {}
  /\ guard = "lock" => \A a \in latest, b \in DOMAIN attempts : attempts[b].linked => attempts[b].born <= attempts[a].born

\* What may still be written to is followed, and what was left may not.
LeftOK(e) ==
  LET a == e.file[1]  n == e.file[2]
  IN  /\ a \in DOMAIN attempts /\ n \in 1..Len(attempts[a].logs)
      /\ e.shown = attempts[a].logs[n].size
      /\ n < Len(attempts[a].logs) \/ attempts[a].born < Count

FollowOK ==
  LET a == follow.file[1]  n == follow.file[2]
  IN  /\ DOMAIN follow = {"dir", "cur", "file", "shown", "left"}
      /\ follow.dir \in {"off", "latest", "attempt"}
      /\ follow.dir = "off" => follow.cur = <<>> /\ follow.left = {}
      /\ follow.dir # "off" => guard = "lock" /\ a \in DOMAIN attempts
      /\ follow.dir = "latest" => latest # {} /\ attempts[a].linked
      /\ follow.cur # <<>> =>
           /\ n \in 1..Len(attempts[a].logs) /\ follow.cur = <<n, attempts[a].logs[n].name>>
           /\ n = Len(attempts[a].logs) => n = LastLog(attempts[a].logs)
      /\ \A e \in follow.left : LeftOK(e)

AttemptInv == AttemptsOK /\ ProcsOK /\ LatestOK /\ FollowOK

LEMMA LengthTells ==
  ASSUME NEW one, NEW other, DOMAIN one = DOMAIN other
  PROVE  LastLog(one) = LastLog(other)
<1>1. PICK d : d = DOMAIN one
  OBVIOUS
<1>2. LastLog(one) = CHOOSE n \in d : \A m \in d : LogKey(m) <= LogKey(n)
  BY <1>1, Zenon DEF LastLog
<1>3. LastLog(other) = CHOOSE n \in d : \A m \in d : LogKey(m) <= LogKey(n)
  BY <1>1, Zenon DEF LastLog
<1> QED
  BY <1>2, <1>3

\* An attempt is worked on by who holds it: logs are added, the last one grows.
LEMMA WorkedOn ==
  ASSUME AttemptsOK, LatestOK, FollowOK, UNCHANGED <<guard, latest, follow>>,
         NEW d \in DOMAIN attempts, guard = "lock" => attempts[d].born = Count,
         DOMAIN attempts' = DOMAIN attempts,
         \A b \in DOMAIN attempts : b # d => attempts'[b] = attempts[b],
         NEW r, attempts'[d] = r, AttemptOK(r, Count),
         r.born = attempts[d].born, r.linked = attempts[d].linked,
         Len(r.logs) >= Len(attempts[d].logs),
         \A n \in 1..Len(attempts[d].logs) : r.logs[n].name = attempts[d].logs[n].name,
         \A n \in 1..Len(attempts[d].logs) : n < Len(attempts[d].logs) => r.logs[n].size = attempts[d].logs[n].size
  PROVE  AttemptsOK' /\ LatestOK' /\ FollowOK'
<1>1. Count' = Count
  BY DEF Count
<1>2. \A b \in DOMAIN attempts : attempts'[b].born = attempts[b].born /\ attempts'[b].linked = attempts[b].linked
  OBVIOUS
<1>3. \A b \in DOMAIN attempts : attempts[b].logs \in Seq(Log)
  BY DEF AttemptsOK, AttemptOK
<1>4. r.logs \in Seq(Log)
  BY DEF AttemptOK
<1>5. AttemptsOK'
  <2>1. \A b \in DOMAIN attempts : AttemptOK(attempts'[b], Count)
    BY DEF AttemptsOK
  <2> QED
    BY <1>1, <1>2, <2>1 DEF AttemptsOK
<1>6. LatestOK'
  BY <1>2 DEF LatestOK
<1>7. \A e \in follow.left : LeftOK(e)'
  <2> SUFFICES ASSUME NEW e \in follow.left PROVE LeftOK(e)'
    OBVIOUS
  <2> DEFINE a == e.file[1]
             n == e.file[2]
  <2>1. LeftOK(e)
    BY DEF FollowOK
  <2>2. CASE a # d
    BY <1>1, <2>1, <2>2 DEF LeftOK
  <2>3. CASE a = d
    <3>1. guard = "lock"
      BY DEF FollowOK
    <3>2. attempts[a].born = Count /\ Count \in Nat
      BY <2>3, <3>1, FS_CardinalityType DEF AttemptsOK, Count
    <3>3. n < Len(attempts[a].logs) /\ n \in 1..Len(attempts[a].logs) /\ e.shown = attempts[a].logs[n].size
      BY <2>1, <3>2 DEF LeftOK
    <3>4. Len(attempts[a].logs) \in Nat /\ Len(r.logs) \in Nat
      BY <1>3, <1>4, <2>3
    <3> QED
      BY <2>3, <3>3, <3>4 DEF LeftOK
  <2> QED
    BY <2>2, <2>3
<1>8. FollowOK'
  <2> DEFINE a == follow.file[1]
             n == follow.file[2]
  <2>1. /\ DOMAIN follow = {"dir", "cur", "file", "shown", "left"}
        /\ follow.dir \in {"off", "latest", "attempt"}
        /\ follow.dir = "off" => follow.cur = <<>> /\ follow.left = {}
        /\ follow.dir # "off" => guard = "lock" /\ a \in DOMAIN attempts
        /\ follow.dir = "latest" => latest # {} /\ attempts[a].linked
        /\ follow.cur # <<>> =>
             /\ n \in 1..Len(attempts[a].logs) /\ follow.cur = <<n, attempts[a].logs[n].name>>
             /\ n = Len(attempts[a].logs) => n = LastLog(attempts[a].logs)
    BY DEF FollowOK
  <2> HIDE DEF a, n
  <2>2. ASSUME follow.cur # <<>>
        PROVE  /\ n \in 1..Len(attempts'[a].logs) /\ follow.cur = <<n, attempts'[a].logs[n].name>>
               /\ n = Len(attempts'[a].logs) => n = LastLog(attempts'[a].logs)
    <3>1. a \in DOMAIN attempts /\ n \in 1..Len(attempts[a].logs)
      BY <2>1, <2>2
    <3>2. CASE a # d
      BY <2>1, <2>2, <3>1, <3>2
    <3>3. CASE a = d
      <4>1. Len(attempts[a].logs) \in Nat /\ Len(r.logs) \in Nat
        BY <1>3, <1>4, <3>3
      <4>2. n \in 1..Len(r.logs) /\ follow.cur = <<n, r.logs[n].name>>
        BY <2>1, <2>2, <3>1, <3>3, <4>1
      <4>3. ASSUME n = Len(r.logs) PROVE n = LastLog(r.logs)
        <5>1. Len(r.logs) = Len(attempts[d].logs)
          BY <3>1, <3>3, <4>1, <4>3
        <5>2. DOMAIN r.logs = DOMAIN attempts[d].logs
          BY <1>3, <1>4, <5>1
        <5>3. LastLog(r.logs) = LastLog(attempts[d].logs)
          BY <5>2, LengthTells
        <5> QED
          BY <2>1, <2>2, <3>3, <4>3, <5>1, <5>3
      <4> QED
        BY <3>3, <4>2, <4>3
    <3> QED
      BY <3>2, <3>3
  <2>3. follow.dir = "latest" => attempts'[a].linked
    BY <1>2, <2>1
  <2> QED
    BY <1>7, <2>1, <2>2, <2>3 DEF FollowOK, a, n
<1> QED
  BY <1>5, <1>6, <1>8

\* And who works either keeps what it holds or leaves.
LEMMA WorkedBy ==
  ASSUME ProcsOK, UNCHANGED guard, NEW p \in Procs, NEW r, Turns(p, r) \/ (UNCHANGED proc /\ r = proc[p]), DOMAIN r = {"at", "canceled", "dir", "error"},
         DOMAIN attempts' = DOMAIN attempts,
         \A b \in DOMAIN attempts :
           /\ attempts'[b].by = attempts[b].by /\ attempts'[b].born = attempts[b].born
           /\ attempts[b].by # p => attempts'[b].linked = attempts[b].linked,
         \/ r.at = "idle"
         \/ proc[p].at \in Holding /\ r.at \in Holding \ {"linking"} /\ r.dir = proc[p].dir
  PROVE  ProcsOK'
<1>1. /\ DOMAIN proc' = Procs /\ proc'[p] = r
      /\ \A q \in Procs : q # p => proc'[q] = proc[q]
  BY DEF Turns, ProcsOK
<1>2. Count' = Count
  BY DEF Count
<1>3. ASSUME NEW q \in Procs, q # p PROVE ProcOK(q)'
  <2>1. ProcOK(q) /\ proc'[q] = proc[q]
    BY <1>1, <1>3 DEF ProcsOK
  <2>2. proc[q].at \in Holding => HoldsOne(q)'
    <3> SUFFICES ASSUME proc[q].at \in Holding PROVE HoldsOne(q)'
      OBVIOUS
    <3>1. PICK a \in DOMAIN attempts :
            /\ proc[q].dir = {a} /\ attempts[a].by = q
            /\ guard = "lock" => attempts[a].born = Count
            /\ proc[q].at = "linking" => ~attempts[a].linked
      BY <2>1 DEF ProcOK, HoldsOne
    <3>2. attempts'[a].by = q /\ attempts'[a].born = attempts[a].born /\ attempts'[a].linked = attempts[a].linked
      BY <1>3, <3>1
    <3> QED
      BY <1>2, <2>1, <3>1, <3>2 DEF HoldsOne
  <2>3. proc[q].at # "idle" =>
          guard # "unset" /\ (guard = "lock" => \A o \in Procs \ {q} : proc'[o].at = "idle")
    <3> SUFFICES ASSUME proc[q].at # "idle" PROVE guard # "unset" /\ (guard = "lock" => \A o \in Procs \ {q} : proc'[o].at = "idle")
      OBVIOUS
    <3>1. guard = "lock" => proc[p].at = "idle"
      BY <1>3, <2>1 DEF ProcOK
    <3>2. guard = "lock" => r.at = "idle"
      BY <3>1 DEF Holding
    <3> QED
      BY <1>1, <2>1, <3>2 DEF ProcOK
  <2> QED
    BY <2>1, <2>2, <2>3 DEF ProcOK
<1>4. ProcOK(p)'
  <2>1. CASE r.at = "idle"
    BY <1>1, <2>1 DEF ProcOK, Holding
  <2>2. CASE proc[p].at \in Holding /\ r.at \in Holding \ {"linking"} /\ r.dir = proc[p].dir
    <3>1. ProcOK(p)
      BY DEF ProcsOK
    <3>2. PICK a \in DOMAIN attempts : proc[p].dir = {a} /\ attempts[a].by = p /\ (guard = "lock" => attempts[a].born = Count)
      BY <2>2, <3>1 DEF ProcOK, HoldsOne
    <3>3. HoldsOne(p)'
      BY <1>1, <1>2, <2>2, <3>2 DEF HoldsOne
    <3>4. guard # "unset" /\ (guard = "lock" => \A o \in Procs \ {p} : proc[o].at = "idle")
      BY <2>2, <3>1 DEF ProcOK, Holding
    <3> QED
      BY <1>1, <2>2, <3>3, <3>4 DEF ProcOK
  <2> QED
    BY <2>1, <2>2
<1> QED
  BY <1>1, <1>3, <1>4 DEF ProcsOK

LEMMA AttemptsBegin == AttemptInit => AttemptInv
<1> SUFFICES ASSUME AttemptInit PROVE AttemptInv
  OBVIOUS
<1>1. guard = "unset" /\ DOMAIN attempts = {} /\ latest = {} /\ proc = [p \in Procs |-> NoProc]
      /\ follow = [dir |-> "off", cur |-> <<>>, file |-> <<>>, shown |-> 0, left |-> {}]
  BY DEF AttemptInit
<1>2. AttemptsOK
  BY <1>1, FS_EmptySet DEF AttemptsOK
<1>3. ProcsOK
  <2>1. \A p \in Procs : proc[p] = NoProc
    BY <1>1
  <2>2. NoProc.at = "idle" /\ DOMAIN NoProc = {"at", "canceled", "dir", "error"}
    <3>1. PICK b, e : NoProc = [at |-> "idle", canceled |-> b, dir |-> {}, error |-> e]
      BY Zenon DEF NoProc
    <3> QED
      BY <3>1
  <2> QED
    BY <1>1, <2>1, <2>2 DEF ProcsOK, ProcOK, Holding
<1>4. LatestOK
  BY <1>1 DEF LatestOK
<1>5. FollowOK
  BY <1>1 DEF FollowOK
<1> QED
  BY <1>2, <1>3, <1>4, <1>5 DEF AttemptInv

\* What a process is, whatever it was canceled or failed with.
LEMMA NoProcIsIdle == NoProc.at = "idle" /\ DOMAIN NoProc = {"at", "canceled", "dir", "error"}
<1>1. PICK b, e : NoProc = [at |-> "idle", canceled |-> b, dir |-> {}, error |-> e]
  BY Zenon DEF NoProc
<1> QED
  BY <1>1

LEMMA HeldAttempt ==
  ASSUME AttemptInv, NEW p \in Procs, proc[p].at \in Holding
  PROVE  /\ Dir(p) \in DOMAIN attempts /\ proc[p].dir = {Dir(p)} /\ attempts[Dir(p)].by = p
         /\ guard = "lock" => attempts[Dir(p)].born = Count
         /\ proc[p].at = "linking" => ~attempts[Dir(p)].linked
         /\ AttemptOK(attempts[Dir(p)], Count)
<1>1. PICK a \in DOMAIN attempts :
        /\ proc[p].dir = {a} /\ attempts[a].by = p
        /\ guard = "lock" => attempts[a].born = Count
        /\ proc[p].at = "linking" => ~attempts[a].linked
  BY DEF AttemptInv, ProcsOK, ProcOK, HoldsOne
<1>2. Dir(p) = a
  BY <1>1 DEF Dir
<1> QED
  BY <1>1, <1>2 DEF AttemptInv, AttemptsOK

LEMMA Chosen ==
  ASSUME AttemptInv, NEW g \in {"lock", "free"}, Choose(g)
  PROVE  AttemptInv'
<1>1. guard = "unset" /\ guard' = g /\ UNCHANGED <<attempts, latest, proc, follow>>
  BY DEF Choose
<1>2. DOMAIN attempts = {} /\ follow.dir = "off" /\ follow.cur = <<>> /\ follow.left = {} /\ \A p \in Procs : proc[p].at = "idle"
  BY <1>1 DEF AttemptInv, AttemptsOK, FollowOK, ProcsOK, ProcOK
<1>3. AttemptsOK'
  BY <1>1, <1>2 DEF AttemptInv, AttemptsOK, Count
<1>4. ProcsOK'
  BY <1>1, <1>2 DEF AttemptInv, ProcsOK, ProcOK, Holding
<1>5. LatestOK'
  BY <1>1, <1>2 DEF AttemptInv, LatestOK
<1>6. FollowOK'
  BY <1>1, <1>2 DEF AttemptInv, FollowOK
<1> QED
  BY <1>3, <1>4, <1>5, <1>6 DEF AttemptInv

LEMMA Named ==
  ASSUME AttemptInv, NEW p \in Procs, NEW pid, NEW later, NewRunner(p, pid, later)
  PROVE  AttemptInv'
<1>1. /\ guard # "unset" /\ proc[p].at = "idle" /\ (guard = "lock" => \A q \in Procs : proc[q].at = "idle")
      /\ UNCHANGED <<guard, attempts, latest, follow>>
  BY DEF NewRunner
<1>2. PICK r : Turns(p, r) /\ DOMAIN r = {"at", "canceled", "dir", "error"} /\ r.at = "naming"
  <2> DEFINE d == {[sec |-> second + later, pid |-> pid]}
             r == [NoProc EXCEPT !.at = "naming", !.dir = d]
  <2>1. Turns(p, r)
    BY DEF NewRunner
  <2> HIDE DEF d
  <2>2. DOMAIN r = {"at", "canceled", "dir", "error"} /\ r.at = "naming"
    BY NoProcIsIdle
  <2> QED
    BY <2>1, <2>2
<1>3. /\ DOMAIN proc' = Procs /\ proc'[p] = r
      /\ \A q \in Procs : q # p => proc'[q] = proc[q]
  BY <1>2 DEF Turns, AttemptInv, ProcsOK
<1>4. ASSUME NEW q \in Procs PROVE ProcOK(q)'
  <2>1. CASE q = p
    BY <1>1, <1>2, <1>3, <2>1 DEF ProcOK, Holding
  <2>2. CASE q # p
    <3>1. ProcOK(q) /\ proc'[q] = proc[q]
      BY <1>3, <2>2 DEF AttemptInv, ProcsOK
    <3>2. HoldsOne(q)' <=> HoldsOne(q)
      BY <1>1, <3>1 DEF HoldsOne, Count
    <3> QED
      BY <1>1, <3>1, <3>2 DEF ProcOK
  <2> QED
    BY <2>1, <2>2
<1>5. ProcsOK'
  BY <1>3, <1>4 DEF ProcsOK
<1>6. AttemptsOK' /\ LatestOK' /\ FollowOK'
  BY <1>1 DEF AttemptInv, AttemptsOK, LatestOK, FollowOK, Count, LeftOK
<1> QED
  BY <1>5, <1>6 DEF AttemptInv

\* What is followed is as before when no log is touched and no link is lost.
LEMMA FollowedOn ==
  ASSUME FollowOK, UNCHANGED <<guard, follow>>, DOMAIN attempts \subseteq DOMAIN attempts', Count' \in Nat, Count \in Nat,
         Count' >= Count, \A b \in DOMAIN attempts : attempts[b].born \in Nat,
         \A b \in DOMAIN attempts : attempts'[b].logs = attempts[b].logs /\ attempts'[b].born = attempts[b].born,
         \A b \in DOMAIN attempts : attempts[b].linked => attempts'[b].linked,
         latest # {} => latest' # {}
  PROVE  FollowOK'
<1>1. \A e \in follow.left : LeftOK(e)'
  <2> SUFFICES ASSUME NEW e \in follow.left PROVE LeftOK(e)'
    OBVIOUS
  <2>1. LeftOK(e)
    BY DEF FollowOK
  <2> QED
    BY <2>1 DEF LeftOK
<1> DEFINE a == follow.file[1]
           n == follow.file[2]
<1>2. /\ DOMAIN follow = {"dir", "cur", "file", "shown", "left"}
      /\ follow.dir \in {"off", "latest", "attempt"}
      /\ follow.dir = "off" => follow.cur = <<>> /\ follow.left = {}
      /\ follow.dir # "off" => guard = "lock" /\ a \in DOMAIN attempts
      /\ follow.dir = "latest" => latest # {} /\ attempts[a].linked
      /\ follow.cur # <<>> =>
           /\ n \in 1..Len(attempts[a].logs) /\ follow.cur = <<n, attempts[a].logs[n].name>>
           /\ n = Len(attempts[a].logs) => n = LastLog(attempts[a].logs)
  BY DEF FollowOK
<1> HIDE DEF a, n
<1>3. follow.cur # <<>> => attempts'[a].logs = attempts[a].logs
  BY <1>2
<1>4. follow.dir = "latest" => latest' # {} /\ attempts'[a].linked
  BY <1>2
<1> QED
  BY <1>1, <1>2, <1>3, <1>4 DEF FollowOK, a, n

LEMMA CountIsNat ==
  ASSUME AttemptsOK
  PROVE  Count \in Nat /\ \A b \in DOMAIN attempts : attempts[b].born \in Nat
BY FS_CardinalityType DEF AttemptsOK, AttemptOK, Count

LEMMA AttemptsStay ==
  ASSUME AttemptsOK, LatestOK, FollowOK, UNCHANGED <<guard, attempts, latest, follow>>
  PROVE  AttemptsOK' /\ LatestOK' /\ FollowOK'
<1>1. FollowOK'
  BY CountIsNat, FollowedOn DEF Count
<1> QED
  BY <1>1 DEF AttemptsOK, LatestOK, Count

LEMMA Made ==
  ASSUME AttemptInv, NEW p \in Procs, MakeDir(p)
  PROVE  AttemptInv'
<1>0. AttemptsOK /\ ProcsOK /\ LatestOK /\ FollowOK
  BY DEF AttemptInv
<1> DEFINE a == UniqueDir(Dir(p).sec, Dir(p).pid)
<1>1. /\ proc[p].at = "naming" /\ Count < MaxAttempts /\ UNCHANGED <<guard, latest, follow>>
      /\ Turns(p, [proc[p] EXCEPT !.at = "linking", !.dir = {a}])
  BY DEF MakeDir, Others, Count
<1>2. PICK no, new : /\ no = FALSE /\ new = [born |-> Count + 1, by |-> p, linked |-> no, logs |-> <<>>, died |-> 0]
                     /\ attempts' = With(attempts, a, new)
  BY DEF MakeDir, Count
<1>3. a \notin DOMAIN attempts
  BY <1>0, <1>1, UniqueDirIsNew DEF AttemptsOK, Count
<1> HIDE DEF a
<1>4. /\ DOMAIN attempts' = DOMAIN attempts \cup {a} /\ attempts'[a] = new
      /\ \A b \in DOMAIN attempts : attempts'[b] = attempts[b]
  BY <1>2, <1>3 DEF With
<1>5. Count' = Count + 1 /\ Count \in Nat /\ Count' \in Nat /\ IsFiniteSet(DOMAIN attempts')
  <2>1. IsFiniteSet(DOMAIN attempts)
    BY <1>0 DEF AttemptsOK
  <2>2. IsFiniteSet(DOMAIN attempts \cup {a}) /\ Cardinality(DOMAIN attempts \cup {a}) = Cardinality(DOMAIN attempts) + 1
    BY <1>3, <2>1, FS_AddElement
  <2>3. Count \in Nat
    BY <1>0, CountIsNat
  <2> QED
    BY <1>4, <2>2, <2>3 DEF Count
<1>6. ~new.linked
  <2>1. new.linked = no
    BY <1>2
  <2> QED
    BY <1>2, <2>1, Zenon
<1>7. AttemptsOK'
  <2>1. AttemptOK(new, Count')
    BY <1>2, <1>5 DEF AttemptOK
  <2>2. \A b \in DOMAIN attempts : AttemptOK(attempts'[b], Count') /\ attempts'[b].born # new.born
    BY <1>0, <1>2, <1>4, <1>5 DEF AttemptsOK, AttemptOK
  <2>3. \A b \in DOMAIN attempts' : AttemptOK(attempts'[b], Count')
    BY <1>4, <2>1, <2>2
  <2>4. \A b, c \in DOMAIN attempts' : attempts'[b].born = attempts'[c].born => b = c
    <3> SUFFICES ASSUME NEW b \in DOMAIN attempts', NEW c \in DOMAIN attempts', attempts'[b].born = attempts'[c].born
                 PROVE  b = c
      OBVIOUS
    <3>1. CASE b = a
      BY <1>4, <2>2, <3>1
    <3>2. CASE b # a
      BY <1>0, <1>4, <2>2, <3>2 DEF AttemptsOK
    <3> QED
      BY <3>1, <3>2
  <2>5. guard # "unset"
    BY <1>0, <1>1 DEF ProcsOK, ProcOK
  <2> QED
    BY <1>0, <1>1, <1>5, <2>3, <2>4, <2>5 DEF AttemptsOK
<1>8. ProcsOK'
  <2>1. PICK r : Turns(p, r) /\ DOMAIN r = {"at", "canceled", "dir", "error"} /\ r.at = "linking" /\ r.dir = {a}
    <3>1. DOMAIN proc[p] = {"at", "canceled", "dir", "error"}
      BY <1>0 DEF ProcsOK, ProcOK
    <3> DEFINE x == [proc[p] EXCEPT !.at = "linking", !.dir = {a}]
    <3>2. DOMAIN x = {"at", "canceled", "dir", "error"} /\ x.at = "linking" /\ x.dir = {a}
      BY <3>1
    <3>3. Turns(p, x)
      BY <1>1
    <3> QED
      BY <3>2, <3>3
  <2>2. /\ DOMAIN proc' = Procs /\ proc'[p] = r
        /\ \A q \in Procs : q # p => proc'[q] = proc[q]
    BY <1>0, <2>1 DEF Turns, ProcsOK
  <2>3. guard # "unset" /\ (guard = "lock" => \A q \in Procs \ {p} : proc[q].at = "idle")
    BY <1>0, <1>1 DEF ProcsOK, ProcOK
  <2>4. ProcOK(p)'
    <3>1. HoldsOne(p)'
      BY <1>2, <1>4, <1>5, <1>6, <2>1, <2>2 DEF HoldsOne
    <3> QED
      BY <1>1, <2>1, <2>2, <2>3, <3>1 DEF ProcOK, Holding
  <2>5. ASSUME NEW q \in Procs, q # p PROVE ProcOK(q)'
    <3>1. ProcOK(q) /\ proc'[q] = proc[q]
      BY <1>0, <2>2, <2>5 DEF ProcsOK
    <3>2. proc[q].at \in Holding => HoldsOne(q)'
      <4> SUFFICES ASSUME proc[q].at \in Holding PROVE HoldsOne(q)'
        OBVIOUS
      <4>1. guard # "lock"
        BY <2>3, <2>5 DEF Holding
      <4>2. PICK b \in DOMAIN attempts :
              proc[q].dir = {b} /\ attempts[b].by = q /\ (proc[q].at = "linking" => ~attempts[b].linked)
        BY <3>1 DEF ProcOK, HoldsOne
      <4> QED
        BY <1>1, <1>4, <3>1, <4>1, <4>2 DEF HoldsOne
    <3>3. guard = "lock" => proc[q].at = "idle"
      BY <2>3, <2>5
    <3> QED
      BY <1>1, <2>3, <3>1, <3>2, <3>3 DEF ProcOK
  <2> QED
    BY <2>2, <2>4, <2>5 DEF ProcsOK
<1>9. LatestOK'
  BY <1>0, <1>1, <1>4, <1>6 DEF LatestOK
<1>10. FollowOK'
  <2>1. \A b \in DOMAIN attempts : attempts[b].born \in Nat
    BY <1>0, CountIsNat
  <2> QED
    BY <1>0, <1>1, <1>4, <1>5, <2>1, FollowedOn
<1> QED
  BY <1>7, <1>8, <1>9, <1>10 DEF AttemptInv

LEMMA LedTo ==
  ASSUME AttemptInv, NEW p \in Procs, NEW ok \in BOOLEAN, LinkLatest(p, ok)
  PROVE  AttemptInv'
<1>0. AttemptsOK /\ ProcsOK /\ LatestOK /\ FollowOK
  BY DEF AttemptInv
<1>1. PICK d : d = Dir(p)
  OBVIOUS
<1>2. /\ proc[p].at = "linking" /\ UNCHANGED <<guard, follow>>
      /\ latest' = IF ok THEN proc[p].dir ELSE latest
      /\ attempts' = [attempts EXCEPT ![d].linked = ok]
      /\ Turns(p, [proc[p] EXCEPT !.at = "between"])
  BY <1>1 DEF LinkLatest, Others
<1>3. /\ d \in DOMAIN attempts /\ proc[p].dir = {d} /\ attempts[d].by = p
      /\ guard = "lock" => attempts[d].born = Count
      /\ ~attempts[d].linked
      /\ AttemptOK(attempts[d], Count)
  BY <1>1, <1>2, HeldAttempt DEF Holding
<1>4. PICK made, r : made = ok /\ r = [attempts[d] EXCEPT !.linked = made] /\ attempts' = [attempts EXCEPT ![d] = r]
  <2>1. PICK made : made = ok
    OBVIOUS
  <2>2. attempts' = [attempts EXCEPT ![d].linked = made]
    BY <1>2, <2>1, Zenon
  <2> QED
    BY <2>1, <2>2
<1>5. /\ DOMAIN attempts' = DOMAIN attempts /\ attempts'[d] = r
      /\ \A b \in DOMAIN attempts : b # d => attempts'[b] = attempts[b]
  BY <1>3, <1>4
<1>6. /\ DOMAIN r = DOMAIN attempts[d] /\ r.born = attempts[d].born /\ r.by = attempts[d].by
      /\ r.logs = attempts[d].logs /\ r.died = attempts[d].died /\ r.linked = made
  <2>1. DOMAIN attempts[d] = {"born", "by", "linked", "logs", "died"}
    BY <1>3 DEF AttemptOK
  <2> QED
    BY <1>4, <2>1
<1>7. r.linked <=> ok
  BY <1>4, <1>6, Zenon
<1>8. Count' = Count /\ Count \in Nat /\ \A b \in DOMAIN attempts : attempts[b].born \in Nat
  BY <1>0, <1>5, CountIsNat DEF Count
<1>9. \A b \in DOMAIN attempts : attempts'[b].born = attempts[b].born /\ attempts'[b].by = attempts[b].by
                                 /\ attempts'[b].logs = attempts[b].logs
  BY <1>5, <1>6
<1>10. \A b \in DOMAIN attempts : b # d => attempts'[b].linked = attempts[b].linked
  BY <1>5
<1>11. AttemptsOK'
  <2>1. AttemptOK(r, Count)
    BY <1>3, <1>6 DEF AttemptOK
  <2>2. \A b \in DOMAIN attempts : AttemptOK(attempts'[b], Count)
    BY <1>0, <1>5, <2>1 DEF AttemptsOK
  <2> QED
    BY <1>0, <1>2, <1>5, <1>8, <1>9, <2>2 DEF AttemptsOK
<1>12. LatestOK'
  <2>1. CASE ok
    <3>1. latest' = {d} /\ attempts'[d].linked
      BY <1>2, <1>3, <1>5, <1>7, <2>1
    <3>2. guard = "lock" => \A b \in DOMAIN attempts : attempts'[b].born <= attempts'[d].born
      BY <1>0, <1>3, <1>8, <1>9 DEF AttemptsOK, AttemptOK
    <3> QED
      BY <1>2, <1>3, <1>5, <3>1, <3>2 DEF LatestOK
  <2>2. CASE ~ok
    <3>1. latest' = latest /\ ~attempts'[d].linked /\ d \notin latest
      BY <1>0, <1>2, <1>3, <1>5, <1>7, <2>2 DEF LatestOK
    <3>2. \A b \in DOMAIN attempts : attempts'[b].linked <=> attempts[b].linked
      BY <1>3, <1>10, <3>1
    <3>3. \A a \in latest : attempts'[a].linked /\ latest = {a}
      BY <1>0, <3>2 DEF LatestOK
    <3>4. \A b \in DOMAIN attempts : attempts'[b].linked => latest # {}
      BY <1>0, <3>2 DEF LatestOK
    <3>5. guard = "lock" => \A a \in latest, b \in DOMAIN attempts :
                              attempts'[b].linked => attempts'[b].born <= attempts'[a].born
      BY <1>0, <1>9, <3>2 DEF LatestOK
    <3>6. latest \subseteq DOMAIN attempts
      BY <1>0 DEF LatestOK
    <3> QED
      BY <1>2, <1>5, <3>1, <3>3, <3>4, <3>5, <3>6 DEF LatestOK
  <2> QED
    BY <2>1, <2>2
<1>13. FollowOK'
  <2>1. \A b \in DOMAIN attempts : attempts[b].linked => attempts'[b].linked
    BY <1>3, <1>10
  <2>2. latest # {} => latest' # {}
    BY <1>2, <1>3
  <2> QED
    BY <1>0, <1>2, <1>5, <1>8, <1>9, <2>1, <2>2, FollowedOn
<1>14. ProcsOK'
  <2>1. PICK x : Turns(p, x) /\ DOMAIN x = {"at", "canceled", "dir", "error"} /\ x.at = "between" /\ x.dir = proc[p].dir
    <3>1. DOMAIN proc[p] = {"at", "canceled", "dir", "error"}
      BY <1>0 DEF ProcsOK, ProcOK
    <3> QED
      BY <1>2, <3>1
  <2>2. \A b \in DOMAIN attempts : attempts[b].by # p => attempts'[b].linked = attempts[b].linked
    BY <1>3, <1>10
  <2> QED
    BY <1>0, <1>2, <1>5, <1>9, <2>1, <2>2, WorkedBy DEF Holding
<1> QED
  BY <1>11, <1>12, <1>13, <1>14 DEF AttemptInv

\* A step of who holds an attempt, which does to it no more than WorkedOn says.
LEMMA HolderSteps ==
  ASSUME AttemptInv, NEW p \in Procs, proc[p].at \in Holding, UNCHANGED <<guard, latest, follow>>,
         NEW x, Turns(p, x) \/ (UNCHANGED proc /\ x = proc[p]), DOMAIN x = {"at", "canceled", "dir", "error"},
         x.at = "idle" \/ (x.at \in Holding \ {"linking"} /\ x.dir = proc[p].dir),
         NEW r, attempts' = [attempts EXCEPT ![Dir(p)] = r], AttemptOK(r, Count),
         r.born = attempts[Dir(p)].born, r.by = attempts[Dir(p)].by, r.linked = attempts[Dir(p)].linked,
         Len(r.logs) >= Len(attempts[Dir(p)].logs),
         \A n \in 1..Len(attempts[Dir(p)].logs) : r.logs[n].name = attempts[Dir(p)].logs[n].name,
         \A n \in 1..Len(attempts[Dir(p)].logs) :
           n < Len(attempts[Dir(p)].logs) => r.logs[n].size = attempts[Dir(p)].logs[n].size
  PROVE  AttemptInv'
<1>1. PICK d : d = Dir(p)
  OBVIOUS
<1>2. d \in DOMAIN attempts /\ (guard = "lock" => attempts[d].born = Count)
  BY <1>1, HeldAttempt
<1>3. /\ DOMAIN attempts' = DOMAIN attempts /\ attempts'[d] = r
      /\ \A b \in DOMAIN attempts : b # d => attempts'[b] = attempts[b]
  BY <1>1, <1>2
<1>4. \A b \in DOMAIN attempts : attempts'[b].by = attempts[b].by /\ attempts'[b].born = attempts[b].born
                                 /\ attempts'[b].linked = attempts[b].linked
  BY <1>1, <1>3
<1>5. AttemptsOK /\ ProcsOK /\ LatestOK /\ FollowOK
  BY DEF AttemptInv
<1>6. ProcsOK'
  BY <1>3, <1>4, <1>5, WorkedBy
<1>7. /\ r.born = attempts[d].born /\ r.linked = attempts[d].linked
      /\ Len(r.logs) >= Len(attempts[d].logs)
      /\ \A n \in 1..Len(attempts[d].logs) : r.logs[n].name = attempts[d].logs[n].name
      /\ \A n \in 1..Len(attempts[d].logs) : n < Len(attempts[d].logs) => r.logs[n].size = attempts[d].logs[n].size
  BY <1>1
<1>8. AttemptsOK' /\ LatestOK' /\ FollowOK'
  BY <1>2, <1>3, <1>5, <1>7, WorkedOn
<1> QED
  BY <1>6, <1>8 DEF AttemptInv

\* A step in which no log directory is touched.
LEMMA LeavesLogs ==
  ASSUME AttemptInv, NEW p \in Procs, UNCHANGED <<guard, latest, follow, attempts>>,
         NEW x, Turns(p, x), DOMAIN x = {"at", "canceled", "dir", "error"},
         x.at = "idle" \/ (proc[p].at \in Holding /\ x.at \in Holding \ {"linking"} /\ x.dir = proc[p].dir)
  PROVE  AttemptInv'
<1>1. AttemptsOK /\ ProcsOK /\ LatestOK /\ FollowOK
  BY DEF AttemptInv
<1>2. ProcsOK'
  BY <1>1, WorkedBy
<1>3. AttemptsOK' /\ LatestOK' /\ FollowOK'
  BY <1>1, AttemptsStay
<1> QED
  BY <1>2, <1>3 DEF AttemptInv

LEMMA AppendedLogs ==
  ASSUME NEW logs \in Seq(Log), NEW log \in Log
  PROVE  /\ Append(logs, log) \in Seq(Log) /\ Len(Append(logs, log)) = Len(logs) + 1
         /\ \A n \in 1..Len(logs) : Append(logs, log)[n] = logs[n]
         /\ Append(logs, log)[Len(logs) + 1] = log
  OBVIOUS

Lengthened(logs) == [logs EXCEPT ![Len(logs)].size = @ + 1]

LEMMA GrownLogs ==
  ASSUME NEW logs \in Seq(Log), NEW grown, grown = Lengthened(logs)
  PROVE  /\ grown \in Seq(Log) /\ Len(grown) = Len(logs)
         /\ \A n \in 1..Len(logs) : grown[n].name = logs[n].name /\ grown[n].by = logs[n].by
         /\ \A n \in 1..Len(logs) : n < Len(logs) => grown[n] = logs[n]
<1>1. PICK k : k = Len(logs)
  OBVIOUS
<1>2. k \in Nat /\ DOMAIN logs = 1..k /\ \A n \in 1..k : logs[n] \in Log
  BY <1>1
<1>3. PICK last : last = [logs[k] EXCEPT !.size = @ + 1]
  OBVIOUS
<1>4. grown = [logs EXCEPT ![k] = last]
  BY <1>1, <1>3 DEF Lengthened
<1>5. k \in 1..k => last \in Log /\ last.name = logs[k].name /\ last.by = logs[k].by
  BY <1>2, <1>3 DEF Log
<1>6. DOMAIN grown = 1..k /\ (\A n \in 1..k : n # k => grown[n] = logs[n]) /\ (k \in 1..k => grown[k] = last)
  BY <1>2, <1>4
<1>7. \A n \in 1..k : grown[n] \in Log
  BY <1>2, <1>5, <1>6
<1>8. grown \in Seq(Log) /\ Len(grown) = k
  <2>1. grown = [n \in 1..k |-> grown[n]]
    BY <1>2, <1>4
  <2>2. grown \in [1..k -> Log]
    BY <1>7, <2>1
  <2>3. grown \in Seq(Log)
    BY <1>2, <2>2, SeqDef
  <2>4. Len(grown) \in Nat /\ DOMAIN grown = 1..Len(grown)
    BY <2>3, LenProperties
  <2> QED
    BY <1>2, <1>6, <2>3, <2>4
<1> QED
  BY <1>1, <1>5, <1>6, <1>8

LEMMA RunKeeps ==
  ASSUME AttemptInv, NEW p \in Procs, NEW name \in StepNames, NEW envOk \in BOOLEAN, Run(p, name, envOk)
  PROVE  AttemptInv'
<1>1. PICK d, logs, log : d = Dir(p) /\ logs = attempts[d].logs /\ log = [name |-> name, size |-> 0, by |-> p]
  OBVIOUS
<1>2. PICK died : died = IF envOk THEN 0 ELSE Len(logs) + 1
  OBVIOUS
<1>3. /\ proc[p].at = "between" /\ UNCHANGED <<guard, latest, follow>>
      /\ attempts' = [attempts EXCEPT ![d].logs = Append(@, log), ![d].died = died]
      /\ Turns(p, IF envOk THEN [proc[p] EXCEPT !.at = "running"] ELSE NoProc)
  BY <1>1, <1>2 DEF Run, Others, Logs
<1>4. proc[p].at \in Holding /\ DOMAIN proc[p] = {"at", "canceled", "dir", "error"}
  BY <1>3 DEF Holding, AttemptInv, ProcsOK, ProcOK
<1>5. d \in DOMAIN attempts /\ AttemptOK(attempts[d], Count) /\ attempts[d].by = p
  BY <1>1, <1>4, HeldAttempt
<1>6. PICK r : r = [attempts[d] EXCEPT !.logs = Append(logs, log), !.died = died] /\ attempts' = [attempts EXCEPT ![d] = r]
  BY <1>1, <1>3, <1>5
<1>7. /\ DOMAIN r = DOMAIN attempts[d] /\ r.born = attempts[d].born /\ r.by = attempts[d].by /\ r.linked = attempts[d].linked
      /\ r.logs = Append(logs, log) /\ r.died = died
  BY <1>5, <1>6 DEF AttemptOK
<1>8. logs \in Seq(Log) /\ log \in Log
  BY <1>1, <1>5 DEF AttemptOK, Log
<1>9. /\ r.logs \in Seq(Log) /\ Len(r.logs) = Len(logs) + 1 /\ Len(logs) \in Nat
      /\ \A n \in 1..Len(logs) : r.logs[n] = logs[n]
      /\ r.logs[Len(logs) + 1] = log
  BY <1>7, <1>8, AppendedLogs
<1>10. \A n \in 1..Len(r.logs) : r.logs[n].by = r.by
  <2>1. \A n \in 1..Len(r.logs) : n \in 1..Len(logs) \/ n = Len(logs) + 1
    BY <1>9
  <2>2. log.by = p
    BY <1>1
  <2> QED
    BY <1>1, <1>5, <1>7, <1>9, <2>1, <2>2 DEF AttemptOK
<1>11. AttemptOK(r, Count)
  BY <1>2, <1>5, <1>7, <1>9, <1>10 DEF AttemptOK
<1>12. PICK x : /\ Turns(p, x) /\ DOMAIN x = {"at", "canceled", "dir", "error"}
                /\ x.at = "idle" \/ (x.at \in Holding \ {"linking"} /\ x.dir = proc[p].dir)
  <2>1. CASE envOk
    <3> DEFINE x == [proc[p] EXCEPT !.at = "running"]
    <3>1. Turns(p, x)
      BY <1>3, <2>1
    <3>2. DOMAIN x = {"at", "canceled", "dir", "error"} /\ x.at = "running" /\ x.dir = proc[p].dir
      BY <1>4
    <3> HIDE DEF x
    <3> QED
      BY <3>1, <3>2 DEF Holding
  <2>2. CASE ~envOk
    BY <1>3, <2>2, NoProcIsIdle
  <2> QED
    BY <2>1, <2>2
<1>13. attempts' = [attempts EXCEPT ![Dir(p)] = r]
  BY <1>1, <1>6
<1>14. /\ Len(r.logs) >= Len(attempts[Dir(p)].logs)
       /\ \A n \in 1..Len(attempts[Dir(p)].logs) : r.logs[n].name = attempts[Dir(p)].logs[n].name
       /\ \A n \in 1..Len(attempts[Dir(p)].logs) :
            n < Len(attempts[Dir(p)].logs) => r.logs[n].size = attempts[Dir(p)].logs[n].size
       /\ r.born = attempts[Dir(p)].born /\ r.by = attempts[Dir(p)].by /\ r.linked = attempts[Dir(p)].linked
  BY <1>1, <1>7, <1>9
<1> QED
  BY <1>3, <1>4, <1>11, <1>12, <1>13, <1>14, HolderSteps

LEMMA GrownIs ==
  ASSUME AttemptInv, NEW p \in Procs, proc[p].at \in Holding
  PROVE  Grown(p) = [attempts EXCEPT ![Dir(p)].logs = Lengthened(Logs(p))]
<1>1. PICK d, logs : d = Dir(p) /\ logs = attempts[d].logs
  OBVIOUS
<1>2. d \in DOMAIN attempts /\ AttemptOK(attempts[d], Count)
  BY <1>1, HeldAttempt
<1>3. PICK grown : grown = [logs EXCEPT ![Len(logs)].size = @ + 1]
  OBVIOUS
<1>4. Grown(p) = [attempts EXCEPT ![d].logs = grown]
  BY <1>1, <1>2, <1>3 DEF Grown, Logs
<1> QED
  BY <1>1, <1>3, <1>4 DEF Lengthened, Logs

\* What has grown, and how it goes on or dies.
LEMMA GrowthKeeps ==
  ASSUME AttemptInv, NEW p \in Procs, proc[p].at \in Holding, UNCHANGED <<guard, latest, follow>>,
         NEW x, Turns(p, x) \/ (UNCHANGED proc /\ x = proc[p]), DOMAIN x = {"at", "canceled", "dir", "error"},
         x.at = "idle" \/ (x.at \in Holding \ {"linking"} /\ x.dir = proc[p].dir),
         NEW r, attempts' = [attempts EXCEPT ![Dir(p)] = r], DOMAIN r = DOMAIN attempts[Dir(p)],
         r.born = attempts[Dir(p)].born, r.by = attempts[Dir(p)].by, r.linked = attempts[Dir(p)].linked,
         r.logs = Lengthened(Logs(p)), r.died \in {0, Len(Logs(p))}
  PROVE  AttemptInv'
<1>1. PICK d, logs : d = Dir(p) /\ logs = attempts[d].logs
  OBVIOUS
<1>2. d \in DOMAIN attempts /\ AttemptOK(attempts[d], Count)
  BY <1>1, HeldAttempt
<1>3. PICK grown : grown = Lengthened(logs)
  OBVIOUS
<1>4. r.logs = grown /\ r.died \in {0, Len(logs)}
  BY <1>1, <1>3 DEF Logs
<1>7. logs \in Seq(Log)
  BY <1>1, <1>2 DEF AttemptOK
<1>8. /\ grown \in Seq(Log) /\ Len(grown) = Len(logs)
      /\ \A n \in 1..Len(logs) : grown[n].name = logs[n].name /\ grown[n].by = logs[n].by
      /\ \A n \in 1..Len(logs) : n < Len(logs) => grown[n] = logs[n]
  BY <1>3, <1>7, GrownLogs
<1>10. AttemptOK(r, Count)
  BY <1>1, <1>2, <1>4, <1>8 DEF AttemptOK
<1>12. /\ Len(r.logs) >= Len(attempts[Dir(p)].logs)
       /\ \A n \in 1..Len(attempts[Dir(p)].logs) : r.logs[n].name = attempts[Dir(p)].logs[n].name
       /\ \A n \in 1..Len(attempts[Dir(p)].logs) :
            n < Len(attempts[Dir(p)].logs) => r.logs[n].size = attempts[Dir(p)].logs[n].size
  BY <1>1, <1>4, <1>7, <1>8
<1> QED
  BY <1>10, <1>12, HolderSteps

LEMMA OutputKeeps ==
  ASSUME AttemptInv, NEW p \in Procs, Output(p)
  PROVE  AttemptInv'
<1>1. proc[p].at = "running" /\ UNCHANGED <<guard, latest, follow, proc>> /\ attempts' = Grown(p)
  BY DEF Output, Others
<1>2. proc[p].at \in Holding /\ DOMAIN proc[p] = {"at", "canceled", "dir", "error"} /\ DOMAIN proc = Procs
  BY <1>1 DEF Holding, AttemptInv, ProcsOK, ProcOK
<1>3. PICK d, grown : d = Dir(p) /\ grown = Lengthened(Logs(p))
  OBVIOUS
<1>4. d \in DOMAIN attempts /\ AttemptOK(attempts[d], Count)
  BY <1>2, <1>3, HeldAttempt
<1>5. PICK r : r = [attempts[d] EXCEPT !.logs = grown] /\ attempts' = [attempts EXCEPT ![d] = r]
  BY <1>1, <1>2, <1>3, <1>4, GrownIs
<1>6. /\ DOMAIN r = DOMAIN attempts[d] /\ r.born = attempts[d].born /\ r.by = attempts[d].by /\ r.linked = attempts[d].linked
      /\ r.logs = grown /\ r.died = attempts[d].died
  BY <1>4, <1>5 DEF AttemptOK
<1>7. r.died \in {0, Len(Logs(p))}
  BY <1>3, <1>4, <1>6 DEF AttemptOK, Logs
<1>9. proc[p].at \in Holding \ {"linking"}
  BY <1>1 DEF Holding
<1>10. /\ attempts' = [attempts EXCEPT ![Dir(p)] = r] /\ DOMAIN r = DOMAIN attempts[Dir(p)]
       /\ r.born = attempts[Dir(p)].born /\ r.by = attempts[Dir(p)].by /\ r.linked = attempts[Dir(p)].linked
       /\ r.logs = Lengthened(Logs(p))
  BY <1>3, <1>5, <1>6
<1> QED
  BY <1>1, <1>2, <1>7, <1>9, <1>10, GrowthKeeps

\* What a process between two commands is, canceled or not.
LEMMA BetweenHolds ==
  ASSUME NEW p
  PROVE  Between(p).at = "between" /\ Between(p).dir = proc[p].dir /\ DOMAIN Between(p) = {"at", "canceled", "dir", "error"}
<1>1. PICK c, d : c = proc[p].canceled /\ d = proc[p].dir
  OBVIOUS
<1>2. Between(p) = [NoProc EXCEPT !.at = "between", !.canceled = c, !.dir = d]
  BY <1>1, Zenon DEF Between
<1>3. PICK b, e : NoProc = [at |-> "idle", canceled |-> b, dir |-> {}, error |-> e]
  BY Zenon DEF NoProc
<1> QED
  BY <1>1, <1>2, <1>3

LEMMA ExitKeeps ==
  ASSUME AttemptInv, NEW p \in Procs, NEW how, NEW goesOn \in BOOLEAN, Exit(p, how, goesOn)
  PROVE  AttemptInv'
<1>1. PICK e, died : e = ErrorOf(how, proc[p].canceled) /\ died = DiedOf(p, goesOn)
  OBVIOUS
<1>2. /\ proc[p].at = "running" /\ UNCHANGED <<guard, latest, follow>>
      /\ attempts' = [Grown(p) EXCEPT ![Dir(p)].died = died]
      /\ Turns(p, IF goesOn THEN Between(p) ELSE [proc[p] EXCEPT !.at = "dying", !.error = e])
  BY <1>1 DEF Exit, Others
<1>3. proc[p].at \in Holding /\ DOMAIN proc[p] = {"at", "canceled", "dir", "error"}
  BY <1>2 DEF Holding, AttemptInv, ProcsOK, ProcOK
<1>4. PICK x : /\ Turns(p, x) /\ DOMAIN x = {"at", "canceled", "dir", "error"}
               /\ x.at \in Holding \ {"linking"} /\ x.dir = proc[p].dir
  <2>1. CASE goesOn
    <3>1. Turns(p, Between(p))
      BY <1>2, <2>1
    <3> QED
      BY <3>1, BetweenHolds DEF Holding
  <2>2. CASE ~goesOn
    <3> DEFINE x == [proc[p] EXCEPT !.at = "dying", !.error = e]
    <3>1. Turns(p, x)
      BY <1>2, <2>2
    <3>2. DOMAIN x = {"at", "canceled", "dir", "error"} /\ x.at = "dying" /\ x.dir = proc[p].dir
      BY <1>3
    <3> HIDE DEF x
    <3> QED
      BY <3>1, <3>2 DEF Holding
  <2> QED
    BY <2>1, <2>2
<1>5. PICK d, grown : d = Dir(p) /\ grown = Lengthened(Logs(p))
  OBVIOUS
<1>6. d \in DOMAIN attempts /\ AttemptOK(attempts[d], Count)
  BY <1>3, <1>5, HeldAttempt
<1>7. Grown(p) = [attempts EXCEPT ![d].logs = grown]
  BY <1>3, <1>5, GrownIs
<1>8. PICK r : r = [attempts[d] EXCEPT !.logs = grown, !.died = died] /\ attempts' = [attempts EXCEPT ![d] = r]
  BY <1>2, <1>5, <1>6, <1>7
<1>9. /\ DOMAIN r = DOMAIN attempts[d] /\ r.born = attempts[d].born /\ r.by = attempts[d].by /\ r.linked = attempts[d].linked
      /\ r.logs = grown /\ r.died = died
  BY <1>6, <1>8 DEF AttemptOK
<1>10. died \in {0, Len(Logs(p))}
  BY <1>1 DEF DiedOf
<1>11. /\ attempts' = [attempts EXCEPT ![Dir(p)] = r] /\ DOMAIN r = DOMAIN attempts[Dir(p)]
       /\ r.born = attempts[Dir(p)].born /\ r.by = attempts[Dir(p)].by /\ r.linked = attempts[Dir(p)].linked
       /\ r.logs = Lengthened(Logs(p)) /\ r.died \in {0, Len(Logs(p))}
  BY <1>5, <1>8, <1>9, <1>10
<1> QED
  BY <1>2, <1>3, <1>4, <1>11, GrowthKeeps

LEMMA CloseKeeps ==
  ASSUME AttemptInv, NEW p \in Procs, Close(p)
  PROVE  AttemptInv'
<1>1. Turns(p, NoProc) /\ UNCHANGED <<guard, latest, follow, attempts>>
  BY DEF Close, Others
<1> QED
  BY <1>1, NoProcIsIdle, LeavesLogs

LEMMA CancelKeeps ==
  ASSUME AttemptInv, NEW p \in Procs, Cancel(p)
  PROVE  AttemptInv'
<1>1. PICK yes : yes = TRUE
  OBVIOUS
<1>2. proc[p].at \in {"between", "running"} /\ UNCHANGED <<guard, latest, follow, attempts>>
  BY DEF Cancel, Others
<1>3. Turns(p, [proc[p] EXCEPT !.canceled = yes])
  BY <1>1, Zenon DEF Cancel
<1>4. proc[p].at \in Holding \ {"linking"} /\ DOMAIN proc[p] = {"at", "canceled", "dir", "error"}
  BY <1>2 DEF Holding, AttemptInv, ProcsOK, ProcOK
<1> DEFINE x == [proc[p] EXCEPT !.canceled = yes]
<1>5. DOMAIN x = {"at", "canceled", "dir", "error"} /\ x.at = proc[p].at /\ x.dir = proc[p].dir
  BY <1>4
<1>6. Turns(p, x)
  BY <1>3
<1> HIDE DEF x
<1> QED
  BY <1>2, <1>4, <1>5, <1>6, LeavesLogs

LEMMA CrashKeeps ==
  ASSUME AttemptInv, NEW p \in Procs, Crash(p)
  PROVE  AttemptInv'
<1>1. Turns(p, NoProc) /\ UNCHANGED <<guard, latest, follow>>
  BY DEF Crash, Others
<1>2. CASE proc[p].at # "running"
  <2>1. attempts' = attempts
    BY <1>2 DEF Crash
  <2> QED
    BY <1>1, <2>1, NoProcIsIdle, LeavesLogs
<1>3. CASE proc[p].at = "running"
  <2>1. PICK d, died : d = Dir(p) /\ died = Len(Logs(p))
    OBVIOUS
  <2>2. proc[p].at \in Holding
    BY <1>3 DEF Holding
  <2>3. d \in DOMAIN attempts /\ AttemptOK(attempts[d], Count)
    BY <2>1, <2>2, HeldAttempt
  <2>4. PICK r : r = [attempts[d] EXCEPT !.died = died] /\ attempts' = [attempts EXCEPT ![d] = r]
    BY <1>3, <2>1 DEF Crash
  <2>5. /\ DOMAIN r = DOMAIN attempts[d] /\ r.born = attempts[d].born /\ r.by = attempts[d].by /\ r.linked = attempts[d].linked
        /\ r.logs = attempts[d].logs /\ r.died = died
    BY <2>3, <2>4 DEF AttemptOK
  <2>6. AttemptOK(r, Count) /\ Len(r.logs) \in Nat
    BY <2>1, <2>3, <2>5 DEF AttemptOK, Logs
  <2>7. /\ attempts' = [attempts EXCEPT ![Dir(p)] = r] /\ Len(r.logs) >= Len(attempts[Dir(p)].logs)
        /\ \A n \in 1..Len(attempts[Dir(p)].logs) : r.logs[n].name = attempts[Dir(p)].logs[n].name
        /\ \A n \in 1..Len(attempts[Dir(p)].logs) :
             n < Len(attempts[Dir(p)].logs) => r.logs[n].size = attempts[Dir(p)].logs[n].size
        /\ r.born = attempts[Dir(p)].born /\ r.by = attempts[Dir(p)].by /\ r.linked = attempts[Dir(p)].linked
    BY <2>1, <2>4, <2>5, <2>6
  <2> QED
    BY <1>1, <2>2, <2>6, <2>7, NoProcIsIdle, HolderSteps
<1> QED
  BY <1>2, <1>3

\* The follower touches nothing but what it follows.
LEMMA FollowKeeps ==
  ASSUME AttemptInv, UNCHANGED <<guard, attempts, latest, proc>>, FollowOK'
  PROVE  AttemptInv'
<1>1. AttemptsOK' /\ LatestOK'
  BY DEF AttemptInv, AttemptsOK, LatestOK, Count
<1>2. ProcsOK'
  BY DEF AttemptInv, ProcsOK, ProcOK, HoldsOne, Count
<1> QED
  BY <1>1, <1>2 DEF AttemptInv

LEMMA FollowStarts ==
  ASSUME AttemptInv, StartFollow
  PROVE  AttemptInv'
<1>1. PICK a : a = CHOOSE b \in LatestAttempt : TRUE
  OBVIOUS
<1>2. PICK dir : dir = IF latest # {} THEN "latest" ELSE "attempt"
  OBVIOUS
<1>3. /\ follow.dir = "off" /\ LatestAttempt # {} /\ guard = "lock" /\ UNCHANGED <<guard, attempts, latest, proc>>
      /\ follow' = [follow EXCEPT !.dir = dir, !.file = <<a, 0>>]
  BY <1>1, <1>2 DEF StartFollow
<1>4. FollowOK /\ LatestOK
  BY DEF AttemptInv
<1>5. a \in LatestAttempt
  BY <1>1, <1>3
<1>6. a \in DOMAIN attempts /\ (latest # {} => attempts[a].linked)
  BY <1>4, <1>5 DEF LatestOK, LatestAttempt
<1>7. DOMAIN follow = {"dir", "cur", "file", "shown", "left"} /\ follow.cur = <<>> /\ follow.left = {}
  BY <1>3, <1>4 DEF FollowOK
<1>8. PICK file : file = <<a, 0>>
  OBVIOUS
<1>9. /\ DOMAIN follow' = {"dir", "cur", "file", "shown", "left"} /\ follow'.cur = <<>> /\ follow'.left = {}
      /\ follow'.dir = dir /\ follow'.file = file
  BY <1>3, <1>7, <1>8
<1>10. file[1] = a
  BY <1>8
<1>11. FollowOK'
  BY <1>2, <1>3, <1>6, <1>9, <1>10 DEF FollowOK
<1> QED
  BY <1>3, <1>11, FollowKeeps

LEMMA FollowRolls ==
  ASSUME AttemptInv, RollOn
  PROVE  AttemptInv'
<1>1. PICK f, n : f = Followed /\ n = LastLog(attempts[f].logs)
  OBVIOUS
<1>2. PICK path, left : path = PathOf(f, n) /\ left = IF follow.cur = <<>> THEN follow.left ELSE {Drained}
  OBVIOUS
<1>3. PICK file : file = <<f, n>>
  OBVIOUS
<1>4. /\ follow.dir # "off" /\ attempts[f].logs # <<>> /\ path # follow.cur /\ UNCHANGED <<guard, attempts, latest, proc>>
      /\ follow' = [follow EXCEPT !.cur = path, !.file = file, !.shown = 0, !.left = left]
  BY <1>1, <1>2, <1>3 DEF RollOn
<1>5. FollowOK /\ LatestOK /\ AttemptsOK
  BY DEF AttemptInv
<1> DEFINE a == follow.file[1]
           m == follow.file[2]
<1>6. /\ DOMAIN follow = {"dir", "cur", "file", "shown", "left"}
      /\ follow.dir \in {"off", "latest", "attempt"}
      /\ guard = "lock" /\ a \in DOMAIN attempts
      /\ follow.dir = "latest" => latest # {} /\ attempts[a].linked
      /\ follow.cur # <<>> =>
           /\ m \in 1..Len(attempts[a].logs) /\ follow.cur = <<m, attempts[a].logs[m].name>>
           /\ m = Len(attempts[a].logs) => m = LastLog(attempts[a].logs)
      /\ \A e \in follow.left : LeftOK(e)
  BY <1>4, <1>5 DEF FollowOK
<1>7. /\ follow.dir = "latest" => f \in latest
      /\ follow.dir # "latest" => f = a
  BY <1>1, <1>6 DEF Followed
<1>8. f \in DOMAIN attempts /\ (follow.dir = "latest" => attempts[f].linked)
  BY <1>5, <1>6, <1>7 DEF LatestOK
<1>9. attempts[f].logs \in Seq(Log) /\ attempts[f].born \in 1..Count /\ Count \in Nat
  BY <1>5, <1>8, CountIsNat DEF AttemptsOK, AttemptOK
<1>10. n \in 1..Len(attempts[f].logs)
  <2>1. Len(attempts[f].logs) \in Nat \ {0} /\ DOMAIN attempts[f].logs = 1..Len(attempts[f].logs)
    BY <1>4, <1>9
  <2> QED
    BY <1>1, <2>1, LastLogIsOne
<1>11. path = <<n, attempts[f].logs[n].name>>
  BY <1>2 DEF PathOf
<1>12. ASSUME follow.cur # <<>> PROVE LeftOK(Drained)
  <2>1. Drained.file = follow.file /\ Drained.shown = attempts[a].logs[m].size
    BY DEF Drained, Size
  <2>2. /\ m \in 1..Len(attempts[a].logs) /\ follow.cur = <<m, attempts[a].logs[m].name>>
        /\ m = Len(attempts[a].logs) => m = LastLog(attempts[a].logs)
    BY <1>6, <1>12
  <2>3. attempts[a].logs \in Seq(Log) /\ attempts[a].born \in 1..Count
    BY <1>5, <1>6 DEF AttemptsOK, AttemptOK
  <2>4. m < Len(attempts[a].logs) \/ attempts[a].born < Count
    <3>1. CASE f = a
      <4>1. m # n
        BY <1>4, <1>11, <2>2, <3>1
      <4>2. m # Len(attempts[a].logs)
        BY <1>1, <2>2, <3>1, <4>1
      <4> QED
        BY <2>2, <2>3, <4>2
    <3>2. CASE f # a
      <4>1. attempts[a].linked /\ f \in latest
        BY <1>6, <1>7, <3>2
      <4>2. attempts[a].born <= attempts[f].born
        BY <1>5, <1>6, <4>1 DEF LatestOK
      <4>3. attempts[a].born # attempts[f].born
        BY <1>5, <1>6, <1>8, <3>2 DEF AttemptsOK
      <4> QED
        BY <1>9, <2>3, <4>2, <4>3
    <3> QED
      BY <3>1, <3>2
  <2> HIDE DEF m, a
  <2>5. follow.file[1] = a /\ follow.file[2] = m
    BY DEF a, m
  <2> QED
    BY <1>6, <2>1, <2>2, <2>4, <2>5 DEF LeftOK
<1>13. \A e \in left : LeftOK(e)
  BY <1>2, <1>6, <1>12
<1> HIDE DEF a, m
<1>14. /\ DOMAIN follow' = {"dir", "cur", "file", "shown", "left"} /\ follow'.cur = path /\ follow'.left = left
       /\ follow'.dir = follow.dir /\ follow'.file = file
  BY <1>4, <1>6
<1>15. file[1] = f /\ file[2] = n
  BY <1>3
<1>16. \A e \in left : LeftOK(e)'
  BY <1>4, <1>13 DEF LeftOK, Count
<1>17. n = Len(attempts[f].logs) => n = LastLog(attempts[f].logs)
  BY <1>1
<1>18. follow.dir = "latest" => latest # {}
  BY <1>6
<1>19. FollowOK'
  BY <1>4, <1>6, <1>8, <1>10, <1>11, <1>14, <1>15, <1>16, <1>17, <1>18 DEF FollowOK
<1> QED
  BY <1>4, <1>19, FollowKeeps

LEMMA FollowShows ==
  ASSUME AttemptInv, ShowMore
  PROVE  AttemptInv'
<1>1. PICK size : size = Size(follow.file)
  OBVIOUS
<1>2. UNCHANGED <<guard, attempts, latest, proc>> /\ follow' = [follow EXCEPT !.shown = size]
  BY <1>1 DEF ShowMore
<1>3. FollowOK
  BY DEF AttemptInv
<1>4. /\ DOMAIN follow' = DOMAIN follow /\ follow'.cur = follow.cur /\ follow'.left = follow.left
      /\ follow'.dir = follow.dir /\ follow'.file = follow.file
  BY <1>2, <1>3 DEF FollowOK
<1>5. \A e \in follow.left : LeftOK(e)'
  BY <1>2, <1>3 DEF FollowOK, LeftOK, Count
<1>6. FollowOK'
  BY <1>2, <1>3, <1>4, <1>5 DEF FollowOK
<1> QED
  BY <1>2, <1>6, FollowKeeps

LEMMA AttemptsGoOn == AttemptInv /\ [AttemptNext]_attemptVars => AttemptInv'
<1> SUFFICES ASSUME AttemptInv, [AttemptNext]_attemptVars PROVE AttemptInv'
  OBVIOUS
<1>1. ASSUME NEW g \in {"lock", "free"}, Choose(g) PROVE AttemptInv'
  BY <1>1, Chosen
<1>2. ASSUME NEW p \in Procs, NEW pid \in Pids, NEW later \in 0..1, NewRunner(p, pid, later) PROVE AttemptInv'
  BY <1>2, Named
<1>3. ASSUME NEW p \in Procs, MakeDir(p) PROVE AttemptInv'
  BY <1>3, Made
<1>4. ASSUME NEW p \in Procs, NEW ok \in BOOLEAN, LinkLatest(p, ok) PROVE AttemptInv'
  BY <1>4, LedTo
<1>5. ASSUME NEW p \in Procs, NEW name \in StepNames, NEW envOk \in BOOLEAN, Run(p, name, envOk) PROVE AttemptInv'
  BY <1>5, RunKeeps
<1>6. ASSUME NEW p \in Procs, Output(p) PROVE AttemptInv'
  BY <1>6, OutputKeeps
<1>7. ASSUME NEW p \in Procs, NEW how \in {"ok", "exit_1", "exit_0", "killed"}, NEW goesOn \in BOOLEAN, Exit(p, how, goesOn)
      PROVE  AttemptInv'
  BY <1>7, ExitKeeps
<1>8. ASSUME NEW p \in Procs, Close(p) \/ Cancel(p) \/ Crash(p) PROVE AttemptInv'
  BY <1>8, CloseKeeps, CancelKeeps, CrashKeeps
<1>9. ASSUME StartFollow \/ RollOn \/ ShowMore PROVE AttemptInv'
  BY <1>9, FollowStarts, FollowRolls, FollowShows
<1>10. ASSUME UNCHANGED attemptVars PROVE AttemptInv'
  <2>1. UNCHANGED <<guard, attempts, latest, proc, follow>>
    BY <1>10 DEF attemptVars
  <2>2. FollowOK'
    BY <2>1, CountIsNat, FollowedOn DEF AttemptInv, Count
  <2> QED
    BY <2>1, <2>2, FollowKeeps
<1> QED
  BY <1>1, <1>2, <1>3, <1>4, <1>5, <1>6, <1>7, <1>8, <1>9, <1>10 DEF AttemptNext

LEMMA InvKeepsLogs == AttemptInv => LogsAreKept
<1> SUFFICES ASSUME AttemptInv PROVE LogsAreKept
  OBVIOUS
<1>1. AttemptsOK /\ ProcsOK /\ LatestOK /\ FollowOK
  BY DEF AttemptInv
<1>2. \A a \in DOMAIN attempts : AttemptOK(attempts[a], Count)
  BY <1>1 DEF AttemptsOK
<1>3. AttemptTypeOK
  BY <1>1, <1>2 DEF AttemptTypeOK, AttemptsOK, ProcsOK, ProcOK, LatestOK, AttemptOK, Holding
<1>4. AttemptsAreSeparate
  <2>1. ASSUME NEW p \in Procs, NEW q \in Procs, p # q,
               {proc[p].at, proc[q].at} \subseteq {"linking", "between", "running", "dying"}
        PROVE  proc[p].dir # proc[q].dir
    <3>1. HoldsOne(p) /\ HoldsOne(q)
      BY <1>1, <2>1 DEF ProcsOK, ProcOK, Holding
    <3> QED
      BY <2>1, <3>1 DEF HoldsOne
  <2>2. \A a \in DOMAIN attempts : \A n \in DOMAIN attempts[a].logs : attempts[a].logs[n].by = attempts[a].by
    BY <1>2 DEF AttemptOK
  <2> QED
    BY <2>1, <2>2 DEF AttemptsAreSeparate
<1>5. LatestIsNewest
  BY <1>1 DEF LatestOK, LatestIsNewest
<1>6. FailedShowsTheDeath
  <2> SUFFICES ASSUME guard = "lock", NEW a \in DOMAIN attempts, attempts[a].born = Count,
                      attempts[a].linked, attempts[a].died \in 1..LastNumber
               PROVE  LatestAttempt = {a} /\ LastLog(attempts[a].logs) = attempts[a].died
    BY DEF FailedShowsTheDeath, Count
  <2>1. LatestAttempt = {a}
    <3>1. PICK c \in latest : latest = {c}
      BY <1>1 DEF LatestOK
    <3>2. c \in DOMAIN attempts /\ attempts[a].born <= attempts[c].born /\ attempts[c].born \in 1..Count /\ Count \in Nat
      BY <1>1, <1>2, <3>1, CountIsNat DEF LatestOK, AttemptOK
    <3>3. attempts[c].born = attempts[a].born
      BY <3>2
    <3>4. c = a
      BY <1>1, <3>2, <3>3 DEF AttemptsOK
    <3> QED
      BY <3>1, <3>4 DEF LatestAttempt
  <2>2. attempts[a].logs \in Seq(Log) /\ attempts[a].died \in {0, Len(attempts[a].logs)}
    BY <1>2 DEF AttemptOK
  <2>3. /\ Len(attempts[a].logs) \in Nat \ {0} /\ DOMAIN attempts[a].logs = 1..Len(attempts[a].logs)
        /\ Len(attempts[a].logs) <= LastNumber /\ attempts[a].died = Len(attempts[a].logs)
    BY <2>2, AttemptsAssumption
  <2>4. LastLog(attempts[a].logs) = Len(attempts[a].logs)
    BY <2>3, PaddedLastLog
  <2> QED
    BY <2>1, <2>3, <2>4
<1>7. RolledLogsAreWhole
  BY <1>1 DEF FollowOK, LeftOK, RolledLogsAreWhole, Size
<1> QED
  BY <1>3, <1>4, <1>5, <1>6, <1>7 DEF LogsAreKept

\* However many attempts a job is given, in one second or under one process number,
\* and whenever they die: no two share a directory, `latest' and --failed lead to the
\* right one, and nobody who follows the logs leaves one before its end.
THEOREM LogsAreNeverLost == AttemptSpec => []LogsAreKept
<1>1. AttemptInit => AttemptInv
  BY AttemptsBegin
<1>2. AttemptInv /\ [AttemptNext]_attemptVars => AttemptInv'
  BY AttemptsGoOn
<1>3. AttemptInv => LogsAreKept
  BY InvKeepsLogs
<1> QED
  BY <1>1, <1>2, <1>3, PTL DEF AttemptSpec

--------------------------------------------------------------------------------
(* Tails and lines.                                                        *)

Text == Seq(STRING)
Tails == [ring : Seq(Text), part : Text]
Splits == [whole : Seq(Text), part : Text]
Uncut == [whole |-> <<>>, part |-> <<>>]

LEMMA NewestIs ==
  ASSUME NEW n \in Nat, NEW V, NEW s \in Seq(V)
  PROVE  /\ Newest(n, s) \in Seq(V)
         /\ Len(Newest(n, s)) = IF Len(s) > n THEN n ELSE Len(s)
         /\ \A i \in 1..Len(Newest(n, s)) : Newest(n, s)[i] = s[Len(s) - Len(Newest(n, s)) + i]
<1>1. CASE Len(s) > n
  <2>1. Len(s) - n + 1 \in 1..(Len(s) + 1) /\ Len(s) \in Nat
    BY <1>1
  <2>2. /\ SubSeq(s, Len(s) - n + 1, Len(s)) \in Seq(V)
        /\ Len(SubSeq(s, Len(s) - n + 1, Len(s))) = n
        /\ \A i \in 1..n : SubSeq(s, Len(s) - n + 1, Len(s))[i] = s[Len(s) - n + i]
    BY <2>1
  <2> QED
    BY <1>1, <2>2 DEF Newest
<1>2. CASE ~(Len(s) > n)
  BY <1>2 DEF Newest
<1> QED
  BY <1>1, <1>2

\* What was let go already would be let go again.
LEMMA NewestTwice ==
  ASSUME NEW n \in Nat, NEW V, NEW s \in Seq(V), NEW x \in V
  PROVE  Newest(n, Append(Newest(n, s), x)) = Newest(n, Append(s, x))
<1>1. PICK r : r = Newest(n, s)
  OBVIOUS
<1>2. /\ r \in Seq(V) /\ Len(r) = IF Len(s) > n THEN n ELSE Len(s)
      /\ \A i \in 1..Len(r) : r[i] = s[Len(s) - Len(r) + i]
  BY <1>1, NewestIs
<1>3. PICK a : a = Append(r, x)
  OBVIOUS
<1>4. PICK b : b = Append(s, x)
  OBVIOUS
<1>5. /\ a \in Seq(V) /\ Len(a) = Len(r) + 1 /\ Len(r) \in Nat
      /\ \A i \in 1..(Len(r) + 1) : a[i] = IF i = Len(r) + 1 THEN x ELSE r[i]
  BY <1>2, <1>3
<1>6. /\ b \in Seq(V) /\ Len(b) = Len(s) + 1 /\ Len(s) \in Nat
      /\ \A i \in 1..(Len(s) + 1) : b[i] = IF i = Len(s) + 1 THEN x ELSE s[i]
  BY <1>4
<1>7. PICK u : u = Newest(n, a)
  OBVIOUS
<1>8. PICK v : v = Newest(n, b)
  OBVIOUS
<1>12. /\ u \in Seq(V) /\ Len(u) = (IF Len(r) + 1 > n THEN n ELSE Len(r) + 1)
       /\ \A i \in 1..Len(u) : u[i] = a[Len(r) + 1 - Len(u) + i]
  <2>1. /\ u \in Seq(V) /\ Len(u) = (IF Len(a) > n THEN n ELSE Len(a))
        /\ \A i \in 1..Len(u) : u[i] = a[Len(a) - Len(u) + i]
    BY <1>5, <1>7, NewestIs
  <2>2. Len(a) = Len(r) + 1
    BY <1>5
  <2>3. Len(u) = (IF Len(r) + 1 > n THEN n ELSE Len(r) + 1)
    BY <2>1, <2>2
  <2>4. ASSUME NEW i \in 1..Len(u) PROVE u[i] = a[Len(r) + 1 - Len(u) + i]
    <3>1. u[i] = a[Len(a) - Len(u) + i]
      BY <2>1
    <3> QED
      BY <2>2, <3>1
  <2> QED
    BY <2>1, <2>3, <2>4
<1>13. /\ v \in Seq(V) /\ Len(v) = (IF Len(s) + 1 > n THEN n ELSE Len(s) + 1)
       /\ \A i \in 1..Len(v) : v[i] = b[Len(s) + 1 - Len(v) + i]
  <2>1. /\ v \in Seq(V) /\ Len(v) = (IF Len(b) > n THEN n ELSE Len(b))
        /\ \A i \in 1..Len(v) : v[i] = b[Len(b) - Len(v) + i]
    BY <1>6, <1>8, NewestIs
  <2>2. Len(b) = Len(s) + 1
    BY <1>6
  <2>3. Len(v) = (IF Len(s) + 1 > n THEN n ELSE Len(s) + 1)
    BY <2>1, <2>2
  <2>4. ASSUME NEW i \in 1..Len(v) PROVE v[i] = b[Len(s) + 1 - Len(v) + i]
    <3>1. v[i] = b[Len(b) - Len(v) + i]
      BY <2>1
    <3> QED
      BY <2>2, <3>1
  <2> QED
    BY <2>1, <2>3, <2>4
<1>14. Len(u) \in Nat /\ Len(v) \in Nat
  BY <1>12, <1>13
<1>9. Len(u) = Len(v)
  BY <1>2, <1>5, <1>6, <1>12, <1>13
<1>10. ASSUME NEW i \in 1..Len(u) PROVE u[i] = v[i]
  <2>1. i \in Nat /\ 1 <= i /\ i <= Len(u)
    BY <1>14
  <2>2. /\ Len(r) + 1 - Len(u) + i \in 1..(Len(r) + 1)
        /\ Len(s) + 1 - Len(v) + i \in 1..(Len(s) + 1)
    <3>1. Len(u) <= Len(r) + 1
      BY <1>5, <1>12, <1>14
    <3>2. Len(v) <= Len(s) + 1
      BY <1>6, <1>13, <1>14
    <3> QED
      BY <1>5, <1>6, <1>9, <1>14, <2>1, <3>1, <3>2
  <2>3. u[i] = a[Len(r) + 1 - Len(u) + i] /\ v[i] = b[Len(s) + 1 - Len(v) + i]
    BY <1>9, <1>12, <1>13
  <2>4. CASE i = Len(u)
    <3>1. Len(r) + 1 - Len(u) + i = Len(r) + 1 /\ Len(s) + 1 - Len(v) + i = Len(s) + 1
      BY <1>5, <1>6, <1>9, <1>14, <2>4
    <3> QED
      BY <1>5, <1>6, <2>2, <2>3, <3>1
  <2>5. CASE i # Len(u)
    <3> DEFINE k == Len(r) + 1 - Len(u) + i
               m == Len(s) + 1 - Len(v) + i
    <3>1. k \in 1..Len(r) /\ m \in 1..Len(s) /\ Len(s) - Len(r) + k = m
      BY <1>5, <1>6, <1>9, <1>14, <2>1, <2>2, <2>5
    <3>2. a[k] = r[k] /\ b[m] = s[m]
      <4> HIDE DEF k, m
      <4> QED
        BY <1>5, <1>6, <3>1
    <3>3. r[k] = s[m]
      <4> HIDE DEF k, m
      <4> QED
        BY <1>2, <3>1
    <3> QED
      BY <2>3, <3>2, <3>3
  <2> QED
    BY <2>4, <2>5
<1>11. u = v
  BY <1>9, <1>10, <1>12, <1>13, SeqEqual
<1> QED
  BY <1>1, <1>3, <1>4, <1>7, <1>8, <1>11

LEMMA PushIs ==
  ASSUME NEW t \in Tails, NEW line \in Text
  PROVE  Push(t, line) \in Tails /\ Push(t, line).part = <<>>
         /\ Push(t, line).ring = Newest(TailLines, Append(t.ring, line))
<1>1. Append(t.ring, line) \in Seq(Text)
  BY DEF Tails
<1>2. Newest(TailLines, Append(t.ring, line)) \in Seq(Text)
  BY <1>1, NewestIs, TailAssumption
<1>3. <<>> \in Text
  BY DEF Text
<1> QED
  BY <1>2, <1>3 DEF Push, Tails

LEMMA TailByteIs ==
  ASSUME NEW t \in Tails, NEW b \in STRING
  PROVE  /\ TailByte(t, b) \in Tails
         /\ b = "nl" => TailByte(t, b) = Push(t, t.part)
         /\ b # "nl" => TailByte(t, b).ring = t.ring /\ TailByte(t, b).part = Append(t.part, b)
<1>1. CASE b = "nl"
  BY <1>1, PushIs DEF TailByte, Tails
<1>2. CASE b # "nl"
  <2>1. Append(t.part, b) \in Text
    BY DEF Tails, Text
  <2>2. TailByte(t, b) = [t EXCEPT !.part = Append(t.part, b)]
    BY <1>2 DEF TailByte
  <2> QED
    BY <1>2, <2>1, <2>2 DEF Tails
<1> QED
  BY <1>1, <1>2

LEMMA CutIs ==
  ASSUME NEW s \in Splits, NEW b \in STRING
  PROVE  /\ Cut(s, b) \in Splits
         /\ b = "nl" => Cut(s, b).whole = Append(s.whole, s.part) /\ Cut(s, b).part = <<>>
         /\ b # "nl" => Cut(s, b).whole = s.whole /\ Cut(s, b).part = Append(s.part, b)
<1>1. CASE b = "nl"
  <2>1. Append(s.whole, s.part) \in Seq(Text) /\ <<>> \in Text
    BY DEF Splits, Text
  <2>2. Cut(s, b) = [whole |-> Append(s.whole, s.part), part |-> <<>>]
    BY <1>1 DEF Cut
  <2> QED
    BY <1>1, <2>1, <2>2 DEF Splits
<1>2. CASE b # "nl"
  <2>1. Append(s.part, b) \in Text
    BY DEF Splits, Text
  <2>2. Cut(s, b) = [s EXCEPT !.part = Append(s.part, b)]
    BY <1>2 DEF Cut
  <2> QED
    BY <1>2, <2>1, <2>2 DEF Splits
<1> QED
  BY <1>1, <1>2

\* A write is taken byte by byte ...
LEMMA BytesTaken ==
  ASSUME NEW t \in Tails, NEW chunk \in Text
  PROVE  \E g \in [0..Len(chunk) -> Tails] :
           /\ g[0] = t /\ \A i \in 1..Len(chunk) : g[i] = TailByte(g[i - 1], chunk[i])
           /\ TailBytes(t, chunk) = g[Len(chunk)]
<1> DEFINE step == [i \in 1..Len(chunk) |-> [u \in Tails |-> TailByte(u, chunk[i])]]
           Is(f) == f = [i \in 0..Len(chunk) |-> IF i = 0 THEN t ELSE TailByte(f[i - 1], chunk[i])]
           it == CHOOSE f : Is(f)
<1>1. Len(chunk) \in Nat /\ t \in Tails
  BY LenProperties
<1>2. step \in [1..Len(chunk) -> [Tails -> Tails]]
  <2>1. \A i \in 1..Len(chunk), u \in Tails : TailByte(u, chunk[i]) \in Tails
    <3>1. \A i \in 1..Len(chunk) : chunk[i] \in STRING
      BY DEF Text
    <3> QED
      BY <3>1, TailByteIs
  <2> QED
    BY <2>1
<1>3. PICK g \in [0..Len(chunk) -> Tails] : g[0] = t /\ \A i \in 1..Len(chunk) : g[i] = step[i][g[i - 1]]
  <2>1. PICK n : n = Len(chunk)
    OBVIOUS
  <2>2. n \in Nat /\ t \in Tails /\ step \in [1..n -> [Tails -> Tails]]
    BY <1>1, <1>2, <2>1
  <2> HIDE DEF step
  <2>3. \E g \in [0..n -> Tails] : Walk(g, n, t, step)
    BY ONLY <2>2, Iterates
  <2> QED
    BY <2>1, <2>3 DEF Walk
<1>4. ASSUME NEW i \in 1..Len(chunk) PROVE g[i] = TailByte(g[i - 1], chunk[i])
  <2>1. i - 1 \in 0..Len(chunk) /\ g[i - 1] \in Tails
    BY <1>1
  <2>2. g[i] = step[i][g[i - 1]]
    BY <1>3
  <2> QED
    BY <2>1, <2>2
<1>5. Is(g)
  <2>1. \A i \in 0..Len(chunk) : g[i] = IF i = 0 THEN t ELSE TailByte(g[i - 1], chunk[i])
    BY <1>1, <1>3, <1>4
  <2> QED
    BY <2>1
<1>6. Is(it)
  <2> HIDE DEF Is
  <2> QED
    BY <1>5
<1>7. it[Len(chunk)] = g[Len(chunk)]
  <2>1. PICK h : h = it
    OBVIOUS
  <2>2. Is(h)
    BY <1>6, <2>1
  <2>3. h[0] = g[0]
    BY <1>1, <1>3, <2>2
  <2>4. ASSUME NEW i \in 1..Len(chunk) PROVE h[i] = TailByte(h[i - 1], chunk[i])
    <3>1. i \in 0..Len(chunk) /\ i # 0
      BY <1>1
    <3> QED
      BY <2>2, <3>1
  <2>5. \A i \in 1..Len(chunk) : h[i - 1] = g[i - 1] => h[i] = g[i]
    BY <1>4, <2>4
  <2> HIDE DEF it
  <2>6. \A i \in 0..Len(chunk) : h[i] = g[i]
    BY <1>1, <2>3, <2>5, OneWay
  <2> QED
    BY <1>1, <2>1, <2>6
<1>8. TailBytes(t, chunk) = it[Len(chunk)]
  BY DEF TailBytes
<1> QED
  BY <1>3, <1>4, <1>7, <1>8

\* ... an output is cut likewise ...
LEMMA OutputCut ==
  ASSUME NEW out \in Text
  PROVE  \E g \in [0..Len(out) -> Splits] :
           /\ g[0] = Uncut /\ \A i \in 1..Len(out) : g[i] = Cut(g[i - 1], out[i])
           /\ Split(out) = g[Len(out)]
<1> DEFINE step == [i \in 1..Len(out) |-> [u \in Splits |-> Cut(u, out[i])]]
           Is(f) == f = [i \in 0..Len(out) |-> IF i = 0 THEN Uncut ELSE Cut(f[i - 1], out[i])]
           it == CHOOSE f : Is(f)
<1>1. Len(out) \in Nat /\ Uncut \in Splits
  BY LenProperties DEF Splits, Uncut, Text
<1>2. step \in [1..Len(out) -> [Splits -> Splits]]
  <2>1. \A i \in 1..Len(out), u \in Splits : Cut(u, out[i]) \in Splits
    <3>1. \A i \in 1..Len(out) : out[i] \in STRING
      BY DEF Text
    <3> QED
      BY <3>1, CutIs
  <2> QED
    BY <2>1
<1>3. PICK g \in [0..Len(out) -> Splits] : g[0] = Uncut /\ \A i \in 1..Len(out) : g[i] = step[i][g[i - 1]]
  <2>1. PICK n : n = Len(out)
    OBVIOUS
  <2>2. n \in Nat /\ Uncut \in Splits /\ step \in [1..n -> [Splits -> Splits]]
    BY <1>1, <1>2, <2>1
  <2> HIDE DEF step
  <2>3. \E g \in [0..n -> Splits] : Walk(g, n, Uncut, step)
    BY ONLY <2>2, Iterates
  <2> QED
    BY <2>1, <2>3 DEF Walk
<1>4. ASSUME NEW i \in 1..Len(out) PROVE g[i] = Cut(g[i - 1], out[i])
  <2>1. i - 1 \in 0..Len(out) /\ g[i - 1] \in Splits
    BY <1>1
  <2>2. g[i] = step[i][g[i - 1]]
    BY <1>3
  <2> QED
    BY <2>1, <2>2
<1>5. Is(g)
  <2>1. \A i \in 0..Len(out) : g[i] = IF i = 0 THEN Uncut ELSE Cut(g[i - 1], out[i])
    BY <1>1, <1>3, <1>4
  <2> QED
    BY <2>1
<1>6. Is(it)
  <2> HIDE DEF Is
  <2> QED
    BY <1>5
<1>7. it[Len(out)] = g[Len(out)]
  <2>1. PICK h : h = it
    OBVIOUS
  <2>2. Is(h)
    BY <1>6, <2>1
  <2>3. h[0] = g[0]
    BY <1>1, <1>3, <2>2
  <2>4. ASSUME NEW i \in 1..Len(out) PROVE h[i] = Cut(h[i - 1], out[i])
    <3>1. i \in 0..Len(out) /\ i # 0
      BY <1>1
    <3> QED
      BY <2>2, <3>1
  <2>5. \A i \in 1..Len(out) : h[i - 1] = g[i - 1] => h[i] = g[i]
    BY <1>4, <2>4
  <2> HIDE DEF it
  <2>6. \A i \in 0..Len(out) : h[i] = g[i]
    BY <1>1, <2>3, <2>5, OneWay
  <2> QED
    BY <1>1, <2>1, <2>6
<1>8. Split(out) = it[Len(out)]
  BY DEF Split, Uncut
<1> QED
  BY <1>3, <1>4, <1>7, <1>8

LEMMA TailWriteIs ==
  ASSUME NEW t \in Tails, NEW chunk \in Text
  PROVE  TailWrite(t, chunk) \in Tails
<1>1. TailBytes(t, chunk) \in Tails
  <2>1. PICK g \in [0..Len(chunk) -> Tails] : TailBytes(t, chunk) = g[Len(chunk)]
    BY BytesTaken
  <2>2. Len(chunk) \in 0..Len(chunk)
    BY DEF Text
  <2> QED
    BY <2>1, <2>2
<1> QED
  BY <1>1, PushIs DEF TailWrite, Tails

\* ... and so is a sequence of writes, write by write.
LEMMA WritesTaken ==
  ASSUME NEW writes \in Seq(Text)
  PROVE  \E g \in [0..Len(writes) -> Tails] :
           /\ g[0] = NoTail /\ \A i \in 1..Len(writes) : g[i] = TailWrite(g[i - 1], writes[i])
           /\ TailOf(writes) = g[Len(writes)]
<1> DEFINE step == [i \in 1..Len(writes) |-> [u \in Tails |-> TailWrite(u, writes[i])]]
           Is(f) == f = [i \in 0..Len(writes) |-> IF i = 0 THEN NoTail ELSE TailWrite(f[i - 1], writes[i])]
           it == CHOOSE f : Is(f)
<1>1. Len(writes) \in Nat /\ NoTail \in Tails
  BY DEF Tails, NoTail, Text
<1>2. step \in [1..Len(writes) -> [Tails -> Tails]]
  <2>1. \A i \in 1..Len(writes), u \in Tails : TailWrite(u, writes[i]) \in Tails
    <3>1. \A i \in 1..Len(writes) : writes[i] \in Text
      BY DEF Text
    <3> QED
      BY <3>1, TailWriteIs
  <2> QED
    BY <2>1
<1>3. PICK g \in [0..Len(writes) -> Tails] : g[0] = NoTail /\ \A i \in 1..Len(writes) : g[i] = step[i][g[i - 1]]
  <2>1. PICK n : n = Len(writes)
    OBVIOUS
  <2>2. n \in Nat /\ NoTail \in Tails /\ step \in [1..n -> [Tails -> Tails]]
    BY <1>1, <1>2, <2>1
  <2> HIDE DEF step
  <2>3. \E g \in [0..n -> Tails] : Walk(g, n, NoTail, step)
    BY ONLY <2>2, Iterates
  <2> QED
    BY <2>1, <2>3 DEF Walk
<1>4. ASSUME NEW i \in 1..Len(writes) PROVE g[i] = TailWrite(g[i - 1], writes[i])
  <2>1. i - 1 \in 0..Len(writes) /\ g[i - 1] \in Tails
    BY <1>1
  <2>2. g[i] = step[i][g[i - 1]]
    BY <1>3
  <2> QED
    BY <2>1, <2>2
<1>5. Is(g)
  <2>1. \A i \in 0..Len(writes) : g[i] = IF i = 0 THEN NoTail ELSE TailWrite(g[i - 1], writes[i])
    BY <1>1, <1>3, <1>4
  <2> QED
    BY <2>1
<1>6. Is(it)
  <2> HIDE DEF Is
  <2> QED
    BY <1>5
<1>7. it[Len(writes)] = g[Len(writes)]
  <2>1. PICK h : h = it
    OBVIOUS
  <2>2. Is(h)
    BY <1>6, <2>1
  <2>3. h[0] = g[0]
    BY <1>1, <1>3, <2>2
  <2>4. ASSUME NEW i \in 1..Len(writes) PROVE h[i] = TailWrite(h[i - 1], writes[i])
    <3>1. i \in 0..Len(writes) /\ i # 0
      BY <1>1
    <3> QED
      BY <2>2, <3>1
  <2>5. \A i \in 1..Len(writes) : h[i - 1] = g[i - 1] => h[i] = g[i]
    BY <1>4, <2>4
  <2> HIDE DEF it
  <2>6. \A i \in 0..Len(writes) : h[i] = g[i]
    BY <1>1, <2>3, <2>5, OneWay
  <2> QED
    BY <1>1, <2>1, <2>6
<1>8. TailOf(writes) = it[Len(writes)]
  BY DEF TailOf
<1> QED
  BY <1>3, <1>4, <1>7, <1>8

\* A joined sequence of writes.
LEMMA WritesJoined ==
  ASSUME NEW writes \in Seq(Text)
  PROVE  \E g \in [0..Len(writes) -> Text] :
           /\ g[0] = <<>> /\ \A i \in 1..Len(writes) : g[i] = g[i - 1] \o writes[i]
           /\ FlattenSeq(writes) = g[Len(writes)]
BY Joins DEF Text

\* What is cut goes on from where it was.
LEMMA CutFurther ==
  ASSUME NEW out \in Text, NEW chunk \in Text
  PROVE  \E q \in [0..Len(chunk) -> Splits] :
           /\ q[0] = Split(out) /\ \A i \in 1..Len(chunk) : q[i] = Cut(q[i - 1], chunk[i])
           /\ q[Len(chunk)] = Split(out \o chunk)
<1>1. PICK both : both = out \o chunk
  OBVIOUS
<1>2. PICK m : m = Len(out)
  OBVIOUS
<1>3. PICK k : k = Len(chunk)
  OBVIOUS
<1>4. /\ both \in Text /\ m \in Nat /\ k \in Nat /\ Len(both) = m + k
      /\ \A i \in 1..m : both[i] = out[i]
      /\ \A i \in 1..k : both[m + i] = chunk[i]
  BY <1>1, <1>2, <1>3 DEF Text
<1>5. PICK f \in [0..m -> Splits] :
        f[0] = Uncut /\ (\A i \in 1..m : f[i] = Cut(f[i - 1], out[i])) /\ Split(out) = f[m]
  BY <1>2, OutputCut
<1>6. PICK h \in [0..(m + k) -> Splits] :
        h[0] = Uncut /\ (\A i \in 1..(m + k) : h[i] = Cut(h[i - 1], both[i])) /\ Split(both) = h[m + k]
  <2>1. \E h \in [0..Len(both) -> Splits] :
          h[0] = Uncut /\ (\A i \in 1..Len(both) : h[i] = Cut(h[i - 1], both[i])) /\ Split(both) = h[Len(both)]
    BY <1>4, OutputCut
  <2>2. Len(both) = m + k
    BY <1>4
  <2> QED
    BY <2>1, <2>2
<1>7. h[m] = f[m]
  <2>1. \A i \in 1..m : h[i] = Cut(h[i - 1], both[i]) /\ both[i] = out[i] /\ f[i] = Cut(f[i - 1], out[i])
    BY <1>4, <1>5, <1>6
  <2>2. \A i \in 1..m : f[i - 1] = h[i - 1] => f[i] = h[i]
    BY <2>1
  <2>3. f[0] = h[0] /\ m \in Nat
    BY <1>4, <1>5, <1>6
  <2> DEFINE S == {i \in 0..m : f[i] = h[i]}
  <2>4. 0 \in S /\ \A i \in 1..m : i - 1 \in S => i \in S
    BY <2>2, <2>3
  <2>5. \A i \in 0..m : i \in S
    <3> HIDE DEF S
    <3> QED
      BY <2>3, <2>4, AllTheWay
  <2> QED
    BY <1>4, <2>5
<1> DEFINE q == [i \in 0..k |-> h[m + i]]
<1>8. q \in [0..k -> Splits]
  BY <1>4
<1>9. q[0] = Split(out) /\ q[k] = Split(both)
  BY <1>4, <1>5, <1>6, <1>7
<1>10. ASSUME NEW i \in 1..k PROVE q[i] = Cut(q[i - 1], chunk[i])
  <2>1. m + i \in 1..(m + k) /\ i - 1 \in 0..k /\ i \in 0..k /\ m + i - 1 = m + (i - 1)
    BY <1>4
  <2>2. h[m + i] = Cut(h[m + i - 1], both[m + i]) /\ both[m + i] = chunk[i]
    BY <1>4, <1>6, <2>1
  <2>3. q[i] = h[m + i] /\ q[i - 1] = h[m + i - 1]
    BY <2>1
  <2> QED
    BY <2>2, <2>3
<1> HIDE DEF q
<1> QED
  BY <1>1, <1>3, <1>8, <1>9, <1>10

Matches(t, s) == t.ring = Newest(TailLines, s.whole) /\ t.part = s.part
Fine(s) == Len(s.part) <= LongestLine /\ \A i \in 1..Len(s.whole) : Len(s.whole[i]) <= LongestLine

\* A tail follows the lines byte by byte ...
LEMMA ByteMatches ==
  ASSUME NEW t \in Tails, NEW s \in Splits, NEW b \in STRING, Matches(t, s)
  PROVE  Matches(TailByte(t, b), Cut(s, b))
<1>1. CASE b = "nl"
  <2>1. t.part \in Text /\ s.part \in Text /\ s.whole \in Seq(Text)
    BY DEF Tails, Splits
  <2>2. TailByte(t, b) = Push(t, t.part)
    BY <1>1, TailByteIs
  <2>3. /\ TailByte(t, b).part = <<>>
        /\ TailByte(t, b).ring = Newest(TailLines, Append(t.ring, t.part))
    BY <2>1, <2>2, PushIs
  <2>4. Cut(s, b).whole = Append(s.whole, s.part) /\ Cut(s, b).part = <<>>
    BY <1>1, CutIs
  <2>5. Newest(TailLines, Append(Newest(TailLines, s.whole), s.part)) = Newest(TailLines, Append(s.whole, s.part))
    BY <2>1, NewestTwice, TailAssumption
  <2> QED
    BY <2>3, <2>4, <2>5 DEF Matches
<1>2. CASE b # "nl"
  <2>1. TailByte(t, b).ring = t.ring /\ TailByte(t, b).part = Append(t.part, b)
    BY <1>2, TailByteIs
  <2>2. Cut(s, b).whole = s.whole /\ Cut(s, b).part = Append(s.part, b)
    BY <1>2, CutIs
  <2> QED
    BY <2>1, <2>2 DEF Matches
<1> QED
  BY <1>1, <1>2

\* ... and a line that was too long stays so.
LEMMA FineBefore ==
  ASSUME NEW s \in Splits, NEW b \in STRING, Fine(Cut(s, b))
  PROVE  Fine(s)
<1>1. s.part \in Text /\ s.whole \in Seq(Text)
  BY DEF Splits
<1>2. CASE b = "nl"
  <2>1. PICK w : w = Append(s.whole, s.part)
    OBVIOUS
  <2>2. /\ Len(w) = Len(s.whole) + 1 /\ w[Len(s.whole) + 1] = s.part
        /\ \A i \in 1..Len(s.whole) : w[i] = s.whole[i]
        /\ Len(s.whole) \in Nat
    BY <1>1, <2>1
  <2>3. Cut(s, b).whole = w
    BY <1>2, <2>1, CutIs
  <2>4. \A i \in 1..Len(w) : Len(w[i]) <= LongestLine
    BY <2>3 DEF Fine
  <2>5. Len(s.whole) + 1 \in 1..Len(w) /\ \A i \in 1..Len(s.whole) : i \in 1..Len(w)
    BY <2>2
  <2>6. Len(s.part) <= LongestLine
    BY <2>2, <2>4, <2>5
  <2>7. \A i \in 1..Len(s.whole) : Len(s.whole[i]) <= LongestLine
    BY <2>2, <2>4, <2>5
  <2> QED
    BY <2>6, <2>7 DEF Fine
<1>3. CASE b # "nl"
  <2>1. Cut(s, b).whole = s.whole /\ Cut(s, b).part = Append(s.part, b)
    BY <1>3, CutIs
  <2>2. Len(Append(s.part, b)) = Len(s.part) + 1 /\ Len(s.part) \in Nat
    BY <1>1 DEF Text
  <2> QED
    BY <2>1, <2>2, TailAssumption DEF Fine
<1> QED
  BY <1>2, <1>3

\* One write after the others ...
LEMMA WriteMatches ==
  ASSUME NEW t \in Tails, NEW out \in Text, NEW chunk \in Text,
         Fine(Split(out)) => Matches(t, Split(out)), Fine(Split(out \o chunk))
  PROVE  Matches(TailWrite(t, chunk), Split(out \o chunk))
<1>1. PICK k : k = Len(chunk)
  OBVIOUS
<1>2. k \in Nat /\ \A i \in 1..k : chunk[i] \in STRING
  BY <1>1 DEF Text
<1>3. PICK q \in [0..k -> Splits] :
        q[0] = Split(out) /\ (\A i \in 1..k : q[i] = Cut(q[i - 1], chunk[i])) /\ q[k] = Split(out \o chunk)
  BY <1>1, CutFurther
<1>4. PICK g \in [0..k -> Tails] :
        g[0] = t /\ (\A i \in 1..k : g[i] = TailByte(g[i - 1], chunk[i])) /\ TailBytes(t, chunk) = g[k]
  BY <1>1, BytesTaken
<1> DEFINE S == {i \in 0..k : Fine(q[i]) => Matches(g[i], q[i])}
<1>5. 0 \in S
  BY <1>2, <1>3, <1>4
<1>6. ASSUME NEW i \in 1..k, i - 1 \in S PROVE i \in S
  <2>1. SUFFICES ASSUME Fine(q[i]) PROVE Matches(g[i], q[i])
    BY <1>2
  <2>2. i - 1 \in 0..k /\ q[i - 1] \in Splits /\ g[i - 1] \in Tails /\ chunk[i] \in STRING
    BY <1>2
  <2>3. q[i] = Cut(q[i - 1], chunk[i]) /\ g[i] = TailByte(g[i - 1], chunk[i])
    BY <1>3, <1>4
  <2>4. Fine(Cut(q[i - 1], chunk[i]))
    BY <2>1, <2>3
  <2>5. Fine(q[i - 1])
    BY ONLY <2>2, <2>4, FineBefore
  <2>6. Matches(g[i - 1], q[i - 1])
    BY <1>6, <2>5
  <2>7. Matches(TailByte(g[i - 1], chunk[i]), Cut(q[i - 1], chunk[i]))
    BY ONLY <2>2, <2>6, ByteMatches
  <2> QED
    BY <2>3, <2>7
<1>7. k \in S
  <2>1. \A i \in 1..k : i - 1 \in S => i \in S
    BY <1>6
  <2> HIDE DEF S
  <2>2. \A i \in 0..k : i \in S
    BY ONLY <1>2, <1>5, <2>1, AllTheWay
  <2> QED
    BY <1>2, <2>2
<1>8. Fine(q[k]) /\ Matches(g[k], q[k])
  BY <1>3, <1>7
\* No line is too long, and so none is cut.
<1>9. TailWrite(t, chunk) = g[k]
  <2>1. Len(g[k].part) <= LongestLine /\ Len(g[k].part) \in Nat
    BY <1>2, <1>8 DEF Fine, Matches, Tails, Text
  <2>2. ~(Len(g[k].part) > LongestLine)
    BY <2>1, TailAssumption
  <2> QED
    BY <1>4, <2>2 DEF TailWrite
<1> QED
  BY <1>3, <1>8, <1>9

LEMMA NothingYet == Split(<<>>) = Uncut /\ Matches(NoTail, Uncut)
<1>1. <<>> \in Text /\ Len(<<>>) = 0
  BY DEF Text
<1>2. Split(<<>>) = Uncut
  BY <1>1, OutputCut
<1>3. Newest(TailLines, <<>>) = <<>>
  <2>1. ~(0 > TailLines)
    BY TailAssumption
  <2> QED
    BY <1>1, <2>1 DEF Newest
<1> QED
  BY <1>2, <1>3 DEF Matches, NoTail, Uncut

\* ... and so all of them.
LEMMA TailFollows ==
  ASSUME NEW writes \in Seq(Text), Fine(Split(FlattenSeq(writes)))
  PROVE  Matches(TailOf(writes), Split(FlattenSeq(writes)))
<1>1. PICK n : n = Len(writes)
  OBVIOUS
<1>2. n \in Nat /\ \A i \in 1..n : writes[i] \in Text
  BY <1>1
<1>3. PICK tail \in [0..n -> Tails] :
        tail[0] = NoTail /\ (\A i \in 1..n : tail[i] = TailWrite(tail[i - 1], writes[i])) /\ TailOf(writes) = tail[n]
  BY <1>1, WritesTaken
<1>4. PICK out \in [0..n -> Text] :
        out[0] = <<>> /\ (\A i \in 1..n : out[i] = out[i - 1] \o writes[i]) /\ FlattenSeq(writes) = out[n]
  BY <1>1, WritesJoined
<1> DEFINE S == {i \in 0..n : Fine(Split(out[i])) => Matches(tail[i], Split(out[i]))}
<1>5. 0 \in S
  BY <1>2, <1>3, <1>4, NothingYet
<1>6. ASSUME NEW i \in 1..n, i - 1 \in S PROVE i \in S
  <2>1. SUFFICES ASSUME Fine(Split(out[i])) PROVE Matches(tail[i], Split(out[i]))
    BY <1>2
  <2>2. i - 1 \in 0..n /\ out[i - 1] \in Text /\ tail[i - 1] \in Tails /\ writes[i] \in Text
    BY <1>2
  <2>3. out[i] = out[i - 1] \o writes[i] /\ tail[i] = TailWrite(tail[i - 1], writes[i])
    BY <1>3, <1>4
  <2>4. Fine(Split(out[i - 1])) => Matches(tail[i - 1], Split(out[i - 1]))
    BY <1>6
  <2>5. Fine(Split(out[i - 1] \o writes[i]))
    BY <2>1, <2>3
  <2>6. Matches(TailWrite(tail[i - 1], writes[i]), Split(out[i - 1] \o writes[i]))
    BY ONLY <2>2, <2>4, <2>5, WriteMatches
  <2> QED
    BY <2>3, <2>6
<1>7. n \in S
  <2>1. \A i \in 1..n : i - 1 \in S => i \in S
    BY <1>6
  <2> HIDE DEF S
  <2>2. \A i \in 0..n : i \in S
    BY ONLY <1>2, <1>5, <2>1, AllTheWay
  <2> QED
    BY <1>2, <2>2
<1> QED
  BY <1>3, <1>4, <1>7

LEMMA SplitIs ==
  ASSUME NEW out \in Text
  PROVE  Split(out) \in Splits
<1>1. PICK g \in [0..Len(out) -> Splits] : Split(out) = g[Len(out)]
  BY OutputCut
<1>2. Len(out) \in 0..Len(out)
  BY DEF Text
<1> QED
  BY <1>1, <1>2

\* What an error carries is the end of what was written.
LEMMA TailIsRight ==
  ASSUME NEW writes \in Seq(Text),
         \A i \in DOMAIN LinesOf(FlattenSeq(writes)) : Len(LinesOf(FlattenSeq(writes))[i]) <= LongestLine
  PROVE  TailString(TailOf(writes)) = Newest(TailLines, LinesOf(FlattenSeq(writes)))
<1>1. FlattenSeq(writes) \in Text
  <2>1. PICK g \in [0..Len(writes) -> Text] : FlattenSeq(writes) = g[Len(writes)]
    BY WritesJoined
  <2> QED
    BY <2>1
<1>2. PICK s : s = Split(FlattenSeq(writes))
  OBVIOUS
<1>3. s.whole \in Seq(Text) /\ s.part \in Text
  BY <1>1, <1>2, SplitIs DEF Splits
<1>4. PICK lines : lines = LinesOf(FlattenSeq(writes))
  OBVIOUS
<1>5. lines = IF s.part = <<>> THEN s.whole ELSE Append(s.whole, s.part)
  BY <1>2, <1>4 DEF LinesOf
<1>6. \A i \in DOMAIN lines : Len(lines[i]) <= LongestLine
  BY <1>4
<1>7. Fine(s)
  <2>1. CASE s.part = <<>>
    <3>1. Len(s.part) = 0 /\ DOMAIN s.whole = 1..Len(s.whole) /\ lines = s.whole
      BY <1>3, <1>5, <2>1
    <3> QED
      BY <1>6, <3>1, TailAssumption DEF Fine
  <2>2. CASE s.part # <<>>
    <3>1. /\ DOMAIN lines = 1..(Len(s.whole) + 1) /\ Len(s.whole) \in Nat
          /\ lines[Len(s.whole) + 1] = s.part /\ \A i \in 1..Len(s.whole) : lines[i] = s.whole[i]
      BY <1>3, <1>5, <2>2
    <3>2. Len(s.whole) + 1 \in DOMAIN lines /\ \A i \in 1..Len(s.whole) : i \in DOMAIN lines
      BY <3>1
    <3>3. Len(s.part) <= LongestLine
      BY <1>6, <3>1, <3>2
    <3>4. \A i \in 1..Len(s.whole) : Len(s.whole[i]) <= LongestLine
      BY <1>6, <3>1, <3>2
    <3> QED
      BY <3>3, <3>4 DEF Fine
  <2> QED
    BY <2>1, <2>2
<1>8. Matches(TailOf(writes), s)
  BY <1>2, <1>7, TailFollows
<1>9. PICK t : t = TailOf(writes)
  OBVIOUS
<1>10. t.ring = Newest(TailLines, s.whole) /\ t.part = s.part
  BY <1>8, <1>9 DEF Matches
<1>11. TailString(t) = Newest(TailLines, lines)
  <2>1. CASE s.part = <<>>
    BY <1>5, <1>10, <2>1 DEF TailString
  <2>2. CASE s.part # <<>>
    <3>1. Newest(TailLines, Append(Newest(TailLines, s.whole), s.part)) = Newest(TailLines, Append(s.whole, s.part))
      BY <1>3, NewestTwice, TailAssumption
    <3>2. TailString(t) = Newest(TailLines, Append(t.ring, t.part))
      BY <1>10, <2>2 DEF TailString
    <3>3. Newest(TailLines, lines) = Newest(TailLines, Append(s.whole, s.part))
      BY <1>5, <2>2
    <3> QED
      BY <1>10, <3>1, <3>2, <3>3
  <2> QED
    BY <2>1, <2>2
<1> QED
  BY <1>4, <1>9, <1>11

LEMMA TailIsAlwaysTheEnd == TailIsTheEnd
<1> SUFFICES ASSUME NEW n \in 0..MaxWrites, NEW writes \in [1..n -> Chunks],
                    \A i \in DOMAIN LinesOf(FlattenSeq(writes)) : Len(LinesOf(FlattenSeq(writes))[i]) <= LongestLine
             PROVE  TailString(TailOf(writes)) = Newest(TailLines, LinesOf(FlattenSeq(writes)))
  BY DEF TailIsTheEnd
<1>1. n \in Nat /\ Chunks \subseteq Text
  BY TailAssumption DEF Text
<1>2. writes \in [1..n -> Text]
  BY <1>1
<1>3. writes \in Seq(Text)
  BY <1>1, <1>2
<1> QED
  BY <1>3, TailIsRight

--------------------------------------------------------------------------------
(* How a command ended.                                                    *)

\* No process died of an error that does not say how its command ended.
ErrorOK(e) == e.kind = "CmdError" => e.how # "killed" /\ e.exit # 0

LEMMA NoProcIsBlameless == ErrorOK(NoProc.error)
<1>1. PICK b : NoProc = [at |-> "idle", canceled |-> b, dir |-> {}, error |-> [kind |-> "none"]]
  BY Zenon DEF NoProc
<1>2. NoProc.error = [kind |-> "none"]
  BY <1>1
<1> QED
  BY <1>2 DEF ErrorOK

\* A process goes on with an error that is as it should be.
LEMMA BlamelessStep ==
  ASSUME ProcsOK, BlameIsEarned, NEW p \in Procs, NEW r, Turns(p, r), ErrorOK(r.error)
  PROVE  BlameIsEarned'
<1>1. proc'[p] = r /\ \A q \in Procs : q # p => proc'[q] = proc[q]
  BY DEF Turns, ProcsOK
<1> QED
  BY <1>1 DEF BlameIsEarned, ErrorOK

LEMMA ErrorOfIsRight ==
  ASSUME NEW how \in {"ok", "exit_1", "exit_0", "killed"}, NEW canceled, how = "killed" => canceled
  PROVE  ErrorOK(ErrorOf(how, canceled))
<1> DEFINE none == [kind |-> "none"]
           gone == [kind |-> "canceled"]
           blamed == [kind |-> "CmdError", how |-> how, exit |-> IF how = "exit_1" THEN 1 ELSE -1]
<1>1. ErrorOf(how, canceled) = IF how = "ok" THEN none ELSE IF canceled THEN gone ELSE blamed
  BY DEF ErrorOf
<1>2. ErrorOK(none) /\ ErrorOK(gone) /\ (how # "killed" => ErrorOK(blamed))
  BY DEF ErrorOK
<1> HIDE DEF none, gone, blamed
<1>3. CASE how = "ok"
  <2>1. ErrorOf(how, canceled) = none
    BY <1>1, <1>3
  <2> QED
    BY <1>2, <2>1
<1>4. CASE how # "ok" /\ canceled
  <2>1. ErrorOf(how, canceled) = gone
    BY <1>1, <1>4, Zenon
  <2> QED
    BY <1>2, <2>1
<1>5. CASE how # "ok" /\ ~canceled
  <2>1. ErrorOf(how, canceled) = blamed
    BY <1>1, <1>5, Zenon
  <2>2. how # "killed"
    BY <1>5
  <2> QED
    BY <1>2, <2>1, <2>2
<1> QED
  BY <1>3, <1>4, <1>5

LEMMA BlameStays ==
  ASSUME AttemptInv, BlameIsEarned, [AttemptNext]_attemptVars
  PROVE  BlameIsEarned'
<1>1. ProcsOK
  BY DEF AttemptInv
<1>2. \A p \in Procs : DOMAIN proc[p] = {"at", "canceled", "dir", "error"} /\ ErrorOK(proc[p].error)
  BY <1>1 DEF ProcsOK, ProcOK, BlameIsEarned, ErrorOK
<1>3. ASSUME UNCHANGED proc PROVE BlameIsEarned'
  BY <1>3 DEF BlameIsEarned
<1>4. ASSUME NEW p \in Procs, NEW pid \in Pids, NEW later \in 0..1, NewRunner(p, pid, later) PROVE BlameIsEarned'
  <2> DEFINE d == {[sec |-> second + later, pid |-> pid]}
             r == [NoProc EXCEPT !.at = "naming", !.dir = d]
  <2>1. Turns(p, r)
    BY <1>4 DEF NewRunner
  <2> HIDE DEF d
  <2>2. r.error = NoProc.error
    BY NoProcIsIdle
  <2> HIDE DEF r
  <2> QED
    BY <1>1, <2>1, <2>2, NoProcIsBlameless, BlamelessStep
<1>5. ASSUME NEW p \in Procs, NEW r, Turns(p, r), r.error = proc[p].error PROVE BlameIsEarned'
  BY <1>1, <1>2, <1>5, BlamelessStep
<1>6. ASSUME NEW p \in Procs, Turns(p, NoProc) PROVE BlameIsEarned'
  BY <1>1, <1>6, NoProcIsBlameless, BlamelessStep
<1>7. ASSUME NEW p \in Procs, MakeDir(p) PROVE BlameIsEarned'
  <2> DEFINE d == {UniqueDir(Dir(p).sec, Dir(p).pid)}
             r == [proc[p] EXCEPT !.at = "linking", !.dir = d]
  <2>1. Turns(p, r)
    BY <1>7 DEF MakeDir
  <2> HIDE DEF d
  <2>2. r.error = proc[p].error
    BY <1>2
  <2> HIDE DEF r
  <2> QED
    BY <1>5, <2>1, <2>2
<1>8. ASSUME NEW p \in Procs, NEW ok \in BOOLEAN, LinkLatest(p, ok) PROVE BlameIsEarned'
  <2> DEFINE r == [proc[p] EXCEPT !.at = "between"]
  <2>1. Turns(p, r)
    BY <1>8 DEF LinkLatest
  <2>2. r.error = proc[p].error
    BY <1>2
  <2> HIDE DEF r
  <2> QED
    BY <1>5, <2>1, <2>2
<1>9. ASSUME NEW p \in Procs, NEW name \in StepNames, NEW envOk \in BOOLEAN, Run(p, name, envOk) PROVE BlameIsEarned'
  <2> DEFINE r == [proc[p] EXCEPT !.at = "running"]
  <2>1. Turns(p, r) \/ Turns(p, NoProc)
    BY <1>9, Zenon DEF Run
  <2>2. r.error = proc[p].error
    BY <1>2
  <2> HIDE DEF r
  <2> QED
    BY <1>5, <1>6, <2>1, <2>2
<1>10. ASSUME NEW p \in Procs, NEW how \in {"ok", "exit_1", "exit_0", "killed"}, NEW goesOn \in BOOLEAN, Exit(p, how, goesOn)
       PROVE  BlameIsEarned'
  <2> DEFINE e == ErrorOf(how, proc[p].canceled)
             r == [proc[p] EXCEPT !.at = "dying", !.error = e]
  <2>1. Turns(p, Between(p)) \/ Turns(p, r)
    BY <1>10, Zenon DEF Exit
  <2>2. how = "killed" => proc[p].canceled
    BY <1>10, Zenon DEF Exit
  <2>3. ErrorOK(e)
    BY <2>2, ErrorOfIsRight
  <2> HIDE DEF e
  <2>4. r.error = e
    BY <1>2
  <2>5. Between(p).error = NoProc.error
    <3>1. PICK c : c = proc[p].canceled
      OBVIOUS
    <3>2. Between(p) = [NoProc EXCEPT !.at = "between", !.canceled = c, !.dir = proc[p].dir]
      BY <3>1, Zenon DEF Between
    <3> QED
      BY <3>2, NoProcIsIdle
  <2> HIDE DEF r
  <2>6. ASSUME Turns(p, r) PROVE BlameIsEarned'
    BY <1>1, <2>3, <2>4, <2>6, BlamelessStep
  <2>7. ASSUME Turns(p, Between(p)) PROVE BlameIsEarned'
    BY <1>1, <2>5, <2>7, NoProcIsBlameless, BlamelessStep
  <2> QED
    BY <2>1, <2>6, <2>7
<1>11. ASSUME NEW p \in Procs, Cancel(p) PROVE BlameIsEarned'
  <2>1. PICK yes : yes = TRUE
    OBVIOUS
  <2> DEFINE r == [proc[p] EXCEPT !.canceled = yes]
  <2>2. Turns(p, r)
    BY <1>11, <2>1, Zenon DEF Cancel
  <2>3. r.error = proc[p].error
    BY <1>2
  <2> HIDE DEF r
  <2> QED
    BY <1>5, <2>2, <2>3
<1> QED
  <2>1. CASE UNCHANGED attemptVars
    BY <1>3, <2>1 DEF attemptVars
  <2>2. CASE \E g \in {"lock", "free"} : Choose(g)
    BY <1>3, <2>2 DEF Choose
  <2>3. CASE StartFollow \/ RollOn \/ ShowMore
    BY <1>3, <2>3 DEF StartFollow, RollOn, ShowMore
  <2>4. ASSUME NEW p \in Procs, Output(p) \/ Close(p) \/ Crash(p) PROVE BlameIsEarned'
    <3>1. UNCHANGED proc \/ Turns(p, NoProc)
      BY <2>4 DEF Output, Close, Crash
    <3> QED
      BY <1>3, <1>6, <3>1
  <2> QED
    BY <1>4, <1>7, <1>8, <1>9, <1>10, <1>11, <2>1, <2>2, <2>3, <2>4 DEF AttemptNext

\* An error carries the end of what its command wrote, however that was cut into
\* writes (tailWriter), and blames no command that was killed for a canceled job
\* or exited well (Runner.run).
THEOREM ErrorsAreTrue == AttemptSpec => []ErrorsTellTheEnd
<1>1. AttemptInit => BlameIsEarned
  <2> SUFFICES ASSUME AttemptInit PROVE BlameIsEarned
    OBVIOUS
  <2>1. \A p \in Procs : proc[p] = NoProc
    BY DEF AttemptInit
  <2> QED
    BY <2>1, NoProcIsBlameless DEF BlameIsEarned, ErrorOK
<1>2. AttemptInv /\ BlameIsEarned /\ [AttemptNext]_attemptVars => (AttemptInv /\ BlameIsEarned)'
  BY AttemptsGoOn, BlameStays
<1>3. BlameIsEarned => ErrorsTellTheEnd
  BY TailIsAlwaysTheEnd DEF ErrorsTellTheEnd
<1> QED
  BY <1>1, <1>2, <1>3, AttemptsBegin, PTL DEF AttemptSpec

(***************************************************************************)
(* The numbers of a bench session.                                         *)
(***************************************************************************)

--------------------------------------------------------------------------------
(* Its invariant.                                                             *)

\* What a command and its session keep.
RunFields == {"at", "suite", "written", "asked", "pinned", "order", "baseline", "stamp", "left", "cells", "missing",
              "values", "results", "failures"}
SessionFields == {"timeline", "accounting", "raw", "report"}

\* Its arms differ, and the baseline is one of them; nothing is measured yet.
LinedUp(r) == r.order \in Seq(ToSet(r.order)) /\ IsInjective(r.order) /\ r.baseline \in ToSet(r.order)
Untouched(r) == r.written = 0 /\ r.values = {} /\ r.results = {} /\ r.failures = <<>>
\* The benchmarks it was to run, and those whose requirements did not install.
SuiteOf(r) == IF r.suite = "micro" THEN {"micro"} ELSE ToSet(Cases)
Dropped(r) == {e.bench : e \in {m \in r.missing : m.why = "requirements"}}
OnlyDropped(r) == \A e \in r.missing : e.why = "requirements"
\* A sequence that repeats nothing; two sets that share nothing.
Listing(s) == s \in Seq(ToSet(s)) /\ IsInjective(s)
Apart(A, B) == \A x \in A : x \notin B

\* The cells that wait, the numbers and the failures of a run: no cell is two of
\* them, and together they are every benchmark that was not dropped, on every arm;
\* of the built-in suite nothing is dropped.
CellsOK(r) ==
  /\ Apart(ToSet(r.cells), r.values) /\ Apart(ToSet(r.cells), ToSet(r.failures)) /\ Apart(r.values, ToSet(r.failures))
  /\ ToSet(r.cells) \cup r.values \cup ToSet(r.failures) = (SuiteOf(r) \ Dropped(r)) \X ToSet(r.order)
  /\ r.failures \in Seq(ToSet(r.failures))
  /\ r.suite = "micro" => Dropped(r) = {}

\* A command before, while and after it measures.
Preparing(r) == LinedUp(r) /\ Untouched(r) /\ r.missing = {} /\ r.cells = <<>> /\ r.asked = {}
Installing(r) ==
  /\ LinedUp(r) /\ Untouched(r) /\ r.asked = {} /\ r.suite # "micro"
  /\ Listing(r.left) /\ Listing(r.cells) /\ OnlyDropped(r)
  /\ Apart(ToSet(r.left), ToSet(r.cells)) /\ Apart(ToSet(r.left), Dropped(r)) /\ Apart(ToSet(r.cells), Dropped(r))
  /\ ToSet(r.left) \cup ToSet(r.cells) \cup Dropped(r) = ToSet(Cases)
Measuring(r) ==
  LinedUp(r) /\ r.asked = {} /\ r.written \in Nat /\ Listing(r.cells) /\ OnlyDropped(r) /\ CellsOK(r)
Reported(r) ==
  /\ LinedUp(r) /\ r.asked = {} /\ r.cells = <<>> /\ CellsOK(r)
  /\ SummarizeFailures(r.failures) \subseteq r.missing
  /\ \A e \in r.missing : e.why = "requirements" \/ e \in SummarizeFailures(r.failures)

\* BaselineIsChosen and PinnedAsAsked, of one request.
More(q) == Lineup([q EXCEPT !.interps = Append(@, [label |-> "extra", path |-> "/extra"])])
BaselineFits(r, q, paths) ==
  /\ q.interps # <<>> /\ q.only = {} => More(q).baseline = r.baseline
  /\ \A i \in DOMAIN q.interps :
       q.interps[i].path # NotGiven /\ q.interps[i].label \in DOMAIN paths
         /\ (\A j \in DOMAIN q.interps : j > i => q.interps[j].label # q.interps[i].label)
           => paths[q.interps[i].label] = q.interps[i].path
PinFits(a) ==
  LET topo  == Topology(a.machine)
      other == Fastest(topo) \ {0}
  IN  /\ a.flags.want # {} /\ ~a.flags.off => a.pin.applied /\ a.pin.cpu \in a.flags.want
      /\ a.machine # <<>> /\ ~a.flags.off => a.pin.applied
      /\ a.pin.applied /\ a.flags.want \cup a.flags.pick = {} =>
           /\ a.pin.cpu \in Fastest(topo) /\ (a.pin.cpu = 0 => other = {})
           /\ \A d \in other : topo[d].rank <= topo[a.pin.cpu].rank

\* A command whose arms and core are chosen.
ArmsOK(r) ==
  /\ LinedUp(r) /\ Untouched(r) /\ r.missing = {} /\ r.cells = <<>>
  /\ r.asked # {} /\ \A a \in r.asked : BaselineFits(r, a.q, a.paths) /\ PinFits(a)

\* What holds of a command wherever it stands...
RunOK(r) ==
  /\ DOMAIN r = RunFields
  /\ r.at \in {"idle", "chosen", "preparing", "installing", "measuring", "done", "failed", "killed"}
  /\ r.at = "idle" => r = Idle
  /\ r.at = "chosen" => ArmsOK(r)
  /\ r.at = "preparing" => Preparing(r)
  /\ r.at = "installing" => Installing(r)
  /\ r.at = "measuring" => Measuring(r)
  /\ r.at = "done" => Reported(r)
  /\ r.at = "killed" /\ r.values # {} => LinedUp(r) /\ r.asked = {} /\ CellsOK(r) /\ OnlyDropped(r)

\* ...of the files of a session that is its own: a cell is measured or failed by
\* what its file names, and the results are the times of the files; what is a
\* number or lies under raw/ has a record of a cell that succeeded, and the account
\* is written before the first number...
Left(r, f, cell) == IF r.suite = "micro" THEN Whole(cell[1]) ELSE Found(f.raw, cell)
Filed(r, f) ==
  /\ \A v \in r.values : Left(r, f, v).names # {}
  /\ \A v \in ToSet(r.failures) : Left(r, f, v).names = {} /\ Left(r, f, v).timed = {}
  /\ DOMAIN f.raw \subseteq r.values \cup ToSet(r.failures)
  /\ r.results = UNION {{<<v[2], n>> : n \in Left(r, f, v).timed} : v \in r.values}
GoodCells(f) == {e.cell : e \in {g \in Range(f.timeline) : g.ok}}
Confined(r, f) == r.pinned /\ r.suite # "micro" => \A e \in Range(f.timeline) : e.confined
SessionOK(r, f) ==
  /\ r.written \in Nat /\ DOMAIN f.timeline \subseteq 1..r.written
  /\ r.values \subseteq GoodCells(f) /\ DOMAIN f.raw \subseteq GoodCells(f) /\ Filed(r, f)
  /\ Confined(r, f)
  /\ r.at # "done" => f.report = {}
  /\ \A rep \in f.report : rep.rows = Compare(r.results, r.baseline, r.order)
  /\ (r.at \in {"measuring", "done"} \/ (r.at = "killed" /\ r.values # {})) => f.accounting = {r.missing}

\* ...and of all of them: every session was opened by a command.
BenchInv ==
  /\ DOMAIN run = Commands /\ \A c \in Commands : RunOK(run[c])
  /\ \A s \in DOMAIN sessions : DOMAIN sessions[s] = SessionFields /\ (sessions[s].report # {} => sessions[s].accounting # {})
  /\ \A s \in DOMAIN sessions : \E c \in Commands : Opened(c) /\ run[c].stamp = s
  /\ \A c \in Commands : Opened(c) => run[c].stamp \in DOMAIN sessions
  /\ \A c \in Commands : Opened(c) /\ OwnSession(c) => SessionOK(run[c], sessions[run[c].stamp])

--------------------------------------------------------------------------------
(* Lists without repetition.                                                  *)

\* A list with one more.
LEMMA Appended ==
  ASSUME NEW V, NEW s \in Seq(V), NEW x \in V
  PROVE  /\ ToSet(Append(s, x)) = ToSet(s) \cup {x}
         /\ IsInjective(s) /\ x \notin ToSet(s) => IsInjective(Append(s, x))
<1>1. PICK t : t = Append(s, x)
  OBVIOUS
<1>2. /\ Len(s) \in Nat /\ DOMAIN s = 1..Len(s) /\ DOMAIN t = 1..(Len(s) + 1)
      /\ t[Len(s) + 1] = x /\ \A i \in 1..Len(s) : t[i] = s[i]
  BY <1>1, AppendProperties
<1>3. ToSet(t) = ToSet(s) \cup {x}
  <2>1. ASSUME NEW i \in DOMAIN t PROVE t[i] \in ToSet(s) \cup {x}
    <3>1. i = Len(s) + 1 \/ i \in 1..Len(s)
      BY <1>2
    <3> QED
      BY <1>2, <3>1 DEF ToSet
  <2>2. Len(s) + 1 \in DOMAIN t /\ \A i \in 1..Len(s) : i \in DOMAIN t
    BY <1>2
  <2> QED
    BY <1>2, <2>1, <2>2 DEF ToSet
<1>4. ASSUME IsInjective(s), x \notin ToSet(s) PROVE IsInjective(t)
  <2> SUFFICES ASSUME NEW i \in DOMAIN t, NEW j \in DOMAIN t, t[i] = t[j] PROVE i = j
    BY DEF IsInjective
  <2>1. \A k \in 1..Len(s) : s[k] # x
    BY <1>2, <1>4 DEF ToSet
  <2>2. (i = Len(s) + 1 \/ i \in 1..Len(s)) /\ (j = Len(s) + 1 \/ j \in 1..Len(s))
    BY <1>2
  <2>3. CASE i \in 1..Len(s) /\ j \in 1..Len(s)
    BY <1>2, <1>4, <2>3 DEF IsInjective
  <2>4. CASE ~(i \in 1..Len(s) /\ j \in 1..Len(s))
    BY <1>2, <2>1, <2>2, <2>4
  <2> QED
    BY <2>3, <2>4
<1> QED
  BY <1>1, <1>3, <1>4

\* The list of the first i members, as it grows.
OrderWalk(list, set, V) ==
  \E g \in [0..Len(list) -> Seq(V)] :
           /\ g[0] = <<>>
           /\ \A i \in 1..Len(list) : g[i] = IF list[i] \in set \ ToSet(g[i - 1]) THEN Append(g[i - 1], list[i]) ELSE g[i - 1]
           /\ InOrder(list, set) = g[Len(list)]

\* The members in order are what that walk ends with.
LEMMA InOrderIs ==
  ASSUME NEW V, NEW list \in Seq(V), NEW set
  PROVE  OrderWalk(list, set, V)
<1>1. PICK n : n = Len(list)
  OBVIOUS
<1>0. n \in Nat /\ \A i \in 1..n : list[i] \in V
  BY <1>1
<1> DEFINE Next(i, s) == IF list[i] \in set \ ToSet(s) THEN Append(s, list[i]) ELSE s
           step == [i \in 1..n |-> [s \in Seq(V) |-> Next(i, s)]]
           Steps(h) == h = [i \in 0..n |-> IF i = 0 THEN <<>> ELSE Next(i, h[i - 1])]
           it == CHOOSE h : Steps(h)
<1>2. step \in [1..n -> [Seq(V) -> Seq(V)]]
  <2>1. \A i \in 1..n, s \in Seq(V) : Next(i, s) \in Seq(V)
    BY <1>0, AppendProperties
  <2> HIDE DEF Next
  <2> QED
    BY <2>1
<1>3. PICK g \in [0..n -> Seq(V)] : g[0] = <<>> /\ \A i \in 1..n : g[i] = step[i][g[i - 1]]
  <2> HIDE DEF step
  <2>1. PICK a : a = <<>>
    OBVIOUS
  <2>2. a \in Seq(V)
    BY <2>1
  <2>3. \E g \in [0..n -> Seq(V)] : Walk(g, n, a, step)
    BY ONLY <1>0, <2>2, <1>2, Iterates
  <2> QED
    BY <2>1, <2>3 DEF Walk
<1>4. ASSUME NEW i \in 1..n PROVE g[i] = Next(i, g[i - 1]) /\ i - 1 \in 0..n
  <2>1. i - 1 \in 0..n
    BY <1>0
  <2>2. g[i - 1] \in Seq(V)
    BY ONLY <2>1, g \in [0..n -> Seq(V)]
  <2>3. g[i] = step[i][g[i - 1]]
    BY <1>3
  <2> HIDE DEF Next
  <2> QED
    BY <2>1, <2>2, <2>3
<1>5. Steps(g)
  <2> HIDE DEF Next
  <2>1. \A i \in 0..n : g[i] = IF i = 0 THEN <<>> ELSE Next(i, g[i - 1])
    BY <1>0, <1>3, <1>4
  <2> QED
    BY <2>1
<1>6. Steps(it)
  <2> HIDE DEF Steps
  <2> QED
    BY <1>5
<1>7. PICK h : h = it
  OBVIOUS
<1>8. Steps(h)
  BY <1>6, <1>7
<1>9. h[n] = g[n]
  <2> HIDE DEF Next
  <2>1. h[0] = g[0]
    BY <1>0, <1>3, <1>8
  <2>2. ASSUME NEW i \in 1..n PROVE h[i] = Next(i, h[i - 1])
    BY <1>0, <1>8
  <2>3. \A i \in 1..n : h[i - 1] = g[i - 1] => h[i] = g[i]
    BY <1>4, <2>2
  <2> DEFINE Same == {i \in 0..n : h[i] = g[i]}
  <2>4. 0 \in Same /\ \A i \in 1..n : i - 1 \in Same => i \in Same
    BY <1>0, <2>1, <2>3
  <2>5. \A i \in 0..n : i \in Same
    <3> HIDE DEF Same
    <3> QED
      BY <1>0, <2>4, AllTheWay
  <2> QED
    BY <1>0, <2>5
<1>10. InOrder(list, set) = g[n]
  BY <1>1, <1>7, <1>9 DEF InOrder
<1>11. \A i \in 1..n : g[i] = IF list[i] \in set \ ToSet(g[i - 1]) THEN Append(g[i - 1], list[i]) ELSE g[i - 1]
  BY <1>4
<1> HIDE DEF step, Steps, it, Next
<1> QED
  BY ONLY <1>1, <1>3, <1>10, <1>11 DEF OrderWalk

\* It names the members of the set that the list names, and none twice.
LEMMA InOrderNames ==
  ASSUME NEW V, NEW list \in Seq(V), NEW set
  PROVE  /\ InOrder(list, set) \in Seq(V) /\ IsInjective(InOrder(list, set))
         /\ ToSet(InOrder(list, set)) = set \cap ToSet(list)
<1>1. PICK g \in [0..Len(list) -> Seq(V)] :
           /\ g[0] = <<>>
           /\ \A i \in 1..Len(list) : g[i] = IF list[i] \in set \ ToSet(g[i - 1]) THEN Append(g[i - 1], list[i]) ELSE g[i - 1]
           /\ InOrder(list, set) = g[Len(list)]
  <2>1. OrderWalk(list, set, V)
    BY InOrderIs
  <2> QED
    BY <2>1 DEF OrderWalk
<1>2. PICK n : n = Len(list)
  OBVIOUS
<1>3. n \in Nat /\ DOMAIN list = 1..n /\ \A i \in 1..n : list[i] \in V
  BY <1>2
<1> DEFINE S == {i \in 0..n : IsInjective(g[i]) /\ ToSet(g[i]) = set \cap {list[j] : j \in 1..i}}
<1>4. 0 \in S
  <2>1. IsInjective(g[0]) /\ ToSet(g[0]) = {} /\ 1..0 = {}
    BY <1>1 DEF IsInjective, ToSet
  <2> QED
    BY <1>3, <2>1
<1>5. ASSUME NEW i \in 1..n, i - 1 \in S PROVE i \in S
  <2>0. i \in 0..n /\ i - 1 \in 0..n /\ g[i - 1] \in Seq(V) /\ list[i] \in V
    BY <1>2, <1>3
  <2>1. {list[j] : j \in 1..i} = {list[j] : j \in 1..(i - 1)} \cup {list[i]}
    <3>1. 1..i = 1..(i - 1) \cup {i}
      BY <1>3
    <3> QED
      BY <3>1
  <2>2. IsInjective(g[i - 1]) /\ ToSet(g[i - 1]) = set \cap {list[j] : j \in 1..(i - 1)}
    BY <1>5
  <2>3. CASE list[i] \in set \ ToSet(g[i - 1])
    <3>1. g[i] = Append(g[i - 1], list[i])
      BY <1>1, <1>2, <2>3
    <3>2. PICK u, x : u = g[i - 1] /\ x = list[i]
      OBVIOUS
    <3>3. IsInjective(Append(u, x)) /\ ToSet(Append(u, x)) = ToSet(u) \cup {x}
      BY <2>0, <2>2, <2>3, <3>2, Appended
    <3> QED
      BY <2>0, <2>1, <2>2, <2>3, <3>1, <3>2, <3>3
  <2>4. CASE list[i] \notin set \ ToSet(g[i - 1])
    <3>1. g[i] = g[i - 1]
      BY <1>1, <1>2, <2>4
    <3> QED
      BY <2>0, <2>1, <2>2, <2>4, <3>1
  <2> QED
    BY <2>3, <2>4
<1>6. n \in S
  <2>1. \A i \in 1..n : i - 1 \in S => i \in S
    BY <1>5
  <2> HIDE DEF S
  <2>2. \A i \in 0..n : i \in S
    BY <1>3, <1>4, <2>1, AllTheWay
  <2> QED
    BY <1>3, <2>2
<1>7. ToSet(list) = {list[j] : j \in 1..n}
  BY <1>3 DEF ToSet
<1> QED
  BY <1>1, <1>2, <1>3, <1>6, <1>7

\* One more at the end of the list is one more at the end, or none.
LEMMA InOrderGrows ==
  ASSUME NEW V, NEW list \in Seq(V), NEW x \in V
  PROVE  InOrder(Append(list, x), ToSet(Append(list, x)))
           = IF x \in ToSet(list) THEN InOrder(list, ToSet(list)) ELSE Append(InOrder(list, ToSet(list)), x)
<1>1. PICK long : long = Append(list, x)
  OBVIOUS
<1>2. PICK n : n = Len(list)
  OBVIOUS
<1>3. /\ n \in Nat /\ long \in Seq(V) /\ Len(long) = n + 1 /\ long[n + 1] = x /\ \A i \in 1..n : long[i] = list[i]
      /\ DOMAIN list = 1..n /\ DOMAIN long = 1..(n + 1)
  BY <1>1, <1>2
<1>4. ToSet(long) = ToSet(list) \cup {x}
  BY <1>1, Appended
<1>5. PICK g \in [0..n -> Seq(V)] :
           /\ g[0] = <<>>
           /\ \A i \in 1..n : g[i] = IF list[i] \in ToSet(list) \ ToSet(g[i - 1]) THEN Append(g[i - 1], list[i]) ELSE g[i - 1]
           /\ InOrder(list, ToSet(list)) = g[n]
  <2>1. OrderWalk(list, ToSet(list), V)
    BY InOrderIs
  <2> QED
    BY <1>2, <2>1 DEF OrderWalk
<1>6. PICK h \in [0..(n + 1) -> Seq(V)] :
           /\ h[0] = <<>>
           /\ \A i \in 1..(n + 1) : h[i] = IF long[i] \in ToSet(long) \ ToSet(h[i - 1]) THEN Append(h[i - 1], long[i]) ELSE h[i - 1]
           /\ InOrder(long, ToSet(long)) = h[n + 1]
  <2>1. OrderWalk(long, ToSet(long), V)
    BY <1>3, InOrderIs
  <2> QED
    BY <1>3, <2>1 DEF OrderWalk
<1> DEFINE S == {i \in 0..n : h[i] = g[i]}
<1>7. 0 \in S
  BY <1>3, <1>5, <1>6
<1>8. ASSUME NEW i \in 1..n, i - 1 \in S PROVE i \in S
  <2>1. i \in 1..(n + 1) /\ i \in 0..n /\ long[i] = list[i] /\ list[i] \in ToSet(list) /\ list[i] \in ToSet(long)
    <3>1. list[i] \in ToSet(list)
      BY <1>3 DEF ToSet
    <3> QED
      BY <1>3, <1>4, <3>1
  <2>2. h[i - 1] = g[i - 1]
    BY <1>8
  <2>3. CASE list[i] \in ToSet(g[i - 1])
    BY <1>5, <1>6, <2>1, <2>2, <2>3
  <2>4. CASE list[i] \notin ToSet(g[i - 1])
    BY <1>5, <1>6, <2>1, <2>2, <2>4
  <2> QED
    BY <2>3, <2>4
<1>9. h[n] = g[n]
  <2>1. \A i \in 1..n : i - 1 \in S => i \in S
    BY <1>8
  <2>2. \A i \in 0..n : i \in S
    <3> HIDE DEF S
    <3> QED
      BY <1>3, <1>7, <2>1, AllTheWay
  <2>3. n \in S
    <3>1. n \in 0..n
      BY <1>3
    <3> HIDE DEF S
    <3> QED
      BY <2>2, <3>1
  <2> QED
    BY <2>3
<1>10. ToSet(g[n]) = ToSet(list)
  <2>1. ToSet(InOrder(list, ToSet(list))) = ToSet(list) \cap ToSet(list)
    BY InOrderNames
  <2> QED
    BY <1>5, <2>1
<1>11. h[n + 1] = IF x \in ToSet(list) THEN g[n] ELSE Append(g[n], x)
  <2>1. n + 1 \in 1..(n + 1) /\ (n + 1) - 1 = n /\ x \in ToSet(long)
    BY <1>3, <1>4
  <2>2. h[n + 1] = IF x \in ToSet(long) \ ToSet(h[n]) THEN Append(h[n], x) ELSE h[n]
    BY <1>3, <1>6, <2>1
  <2> QED
    BY <1>9, <1>10, <2>1, <2>2
<1> QED
  BY <1>1, <1>5, <1>6, <1>11

--------------------------------------------------------------------------------
(* The lineup of a command.                                                   *)

\* A sequence is one of its own elements.
LEMMA OfItsOwn == ASSUME NEW V, NEW s \in Seq(V) PROVE s \in Seq(ToSet(s))
<1>1. \A i \in 1..Len(s) : s[i] \in ToSet(s)
  BY DEF ToSet
<1> QED
  BY <1>1

\* The labels of a request, and of one with an --interp more.
LabelsOf(interps) == [i \in DOMAIN interps |-> interps[i].label]
Labelled == [label : STRING, path : STRING]

\* The labels of a request are its labels, each once.
LEMMA LabelsName ==
  ASSUME NEW interps \in Seq(Labelled)
  PROVE  /\ LabelsOf(interps) \in Seq(STRING) /\ Len(LabelsOf(interps)) = Len(interps)
         /\ Labels(interps) \in Seq(STRING) /\ IsInjective(Labels(interps))
         /\ ToSet(Labels(interps)) = {interps[i].label : i \in DOMAIN interps}
<1>1. Len(interps) \in Nat /\ DOMAIN interps = 1..Len(interps) /\ \A i \in 1..Len(interps) : interps[i].label \in STRING
  <2>1. Len(interps) \in Nat /\ DOMAIN interps = 1..Len(interps) /\ \A i \in 1..Len(interps) : interps[i] \in Labelled
    OBVIOUS
  <2>2. \A a \in Labelled : a.label \in STRING
    BY DEF Labelled
  <2> QED
    BY <2>1, <2>2
<1>2. LabelsOf(interps) \in Seq(STRING) /\ Len(LabelsOf(interps)) = Len(interps)
  BY <1>1 DEF LabelsOf
<1>3. PICK labels : labels = LabelsOf(interps)
  OBVIOUS
<1>4. Labels(interps) = InOrder(labels, ToSet(labels))
  BY <1>3 DEF Labels, LabelsOf
<1>5. /\ InOrder(labels, ToSet(labels)) \in Seq(STRING) /\ IsInjective(InOrder(labels, ToSet(labels)))
      /\ ToSet(InOrder(labels, ToSet(labels))) = ToSet(labels) \cap ToSet(labels)
  BY <1>2, <1>3, InOrderNames
<1>6. ToSet(labels) = {interps[i].label : i \in DOMAIN interps}
  BY <1>1, <1>2, <1>3 DEF ToSet, LabelsOf
<1> QED
  BY <1>2, <1>4, <1>5, <1>6

\* One more --interp adds its label at the end, if it is new.
LEMMA LabelsGrow ==
  ASSUME NEW interps \in Seq(Labelled), NEW l, NEW p
  PROVE  Labels(Append(interps, [label |-> l, path |-> p])) =
           IF l \in ToSet(Labels(interps)) THEN Labels(interps) ELSE Append(Labels(interps), l)
<1>1. PICK e : e = [label |-> l, path |-> p]
  OBVIOUS
<1>2. PICK long : long = Append(interps, e)
  OBVIOUS
<1>3. PICK n : n = Len(interps)
  OBVIOUS
<1>4. /\ n \in Nat /\ DOMAIN interps = 1..n /\ DOMAIN long = 1..(n + 1) /\ Len(long) = n + 1
      /\ long[n + 1] = e /\ \A i \in 1..n : long[i] = interps[i]
  BY <1>2, <1>3, AppendProperties
<1>5. PICK labels : labels = LabelsOf(interps)
  OBVIOUS
<1> DEFINE V == STRING \cup {l}
<1>6. labels \in Seq(V) /\ l \in V /\ Len(labels) = n /\ labels \in Seq(STRING)
  <2>1. labels \in Seq(STRING) /\ Len(labels) = n
    BY <1>3, <1>5, LabelsName
  <2> QED
    BY <2>1
<1>7. LabelsOf(long) = Append(labels, l)
  <2>1. PICK t : t = Append(labels, l)
    OBVIOUS
  <2>2. Len(t) = n + 1 /\ DOMAIN t = 1..(n + 1) /\ t[n + 1] = l /\ \A i \in 1..n : t[i] = labels[i]
    BY <1>4, <1>6, <2>1, AppendProperties
  <2>3. \A i \in 1..n : labels[i] = interps[i].label
    BY <1>4, <1>5 DEF LabelsOf
  <2>4. ASSUME NEW i \in 1..(n + 1) PROVE t[i] = long[i].label
    <3>1. CASE i = n + 1
      BY <1>1, <1>4, <2>2, <3>1
    <3>2. CASE i # n + 1
      <4>1. i \in 1..n
        BY <1>4, <3>2
      <4> QED
        BY <1>4, <2>2, <2>3, <4>1
    <3> QED
      BY <3>1, <3>2
  <2>5. t = [i \in 1..(n + 1) |-> long[i].label]
    <3>1. t \in Seq(V)
      BY <1>6, <2>1, AppendProperties
    <3>2. t = [i \in DOMAIN t |-> t[i]]
      <4> HIDE DEF V
      <4> QED
        BY <3>1
    <3> QED
      BY <2>2, <2>4, <3>2
  <2> QED
    BY <1>4, <2>1, <2>5 DEF LabelsOf
<1>8. InOrder(Append(labels, l), ToSet(Append(labels, l)))
           = IF l \in ToSet(labels) THEN InOrder(labels, ToSet(labels)) ELSE Append(InOrder(labels, ToSet(labels)), l)
  <2> HIDE DEF V
  <2> QED
    BY <1>6, InOrderGrows
<1>9. Labels(long) = InOrder(LabelsOf(long), ToSet(LabelsOf(long))) /\ Labels(interps) = InOrder(labels, ToSet(labels))
  BY <1>5 DEF Labels, LabelsOf
<1>10. ToSet(Labels(interps)) = ToSet(labels)
  <2>1. ToSet(InOrder(labels, ToSet(labels))) = ToSet(labels) \cap ToSet(labels)
    BY <1>6, InOrderNames
  <2> QED
    BY <1>9, <2>1
<1> QED
  BY <1>1, <1>2, <1>7, <1>8, <1>9, <1>10

\* The path that was given last.
LEMMA LastPathIsLast ==
  ASSUME NEW interps \in Seq(Labelled), NEW i \in DOMAIN interps,
         \A j \in DOMAIN interps : j > i => interps[j].label # interps[i].label
  PROVE  LastPath(interps, interps[i].label) = interps[i].path
<1> DEFINE S == {j \in DOMAIN interps : interps[j].label = interps[i].label}
<1>1. DOMAIN interps = 1..Len(interps) /\ Len(interps) \in Nat
  OBVIOUS
<1>2. i \in S /\ \A j \in S : j \in Nat /\ i >= j
  BY <1>1
<1>3. Max(S) \in S /\ \A j \in S : Max(S) >= j
  <2>1. \E x \in S : \A y \in S : x >= y
    BY <1>2
  <2> HIDE DEF S
  <2> QED
    BY <2>1, Zenon DEF Max
<1>4. Max(S) = i
  <2>1. PICK m : m = Max(S)
    OBVIOUS
  <2>2. m \in S /\ m >= i
    BY <1>2, <1>3, <2>1
  <2>3. m \in Nat /\ i \in Nat /\ i >= m
    BY <1>2, <2>2
  <2> QED
    BY <2>1, <2>2, <2>3
<1> QED
  BY <1>4 DEF LastPath

\* What a lineup that is not refused is.
LEMMA LineupIs ==
  ASSUME NEW q \in Requests, NEW l, l = Lineup(q), ~l.refused
  PROVE  /\ l.order \in Seq(ToSet(l.order)) /\ IsInjective(l.order) /\ l.baseline \in ToSet(l.order)
         /\ DOMAIN l.path = ToSet(l.order)
<1> DEFINE named  == q.interps # <<>>
           all    == IF named THEN Labels(q.interps) ELSE IF q.kit # <<>> THEN Labels(q.kit[1].arms) ELSE <<>>
           order  == IF q.only = {} THEN all ELSE InOrder(all, q.only)
           asked  == IF q.flag = NotGiven /\ ~named /\ q.kit # <<>> THEN q.kit[1].baseline ELSE q.flag
<1>1. /\ l.order = order /\ l.baseline = IF asked # NotGiven THEN asked ELSE DefaultBaseline(order)
      /\ DOMAIN l.path = ToSet(order)
  BY DEF Lineup
<1>2. all # <<>> /\ q.only \subseteq ToSet(all) /\ (asked # NotGiven => asked \in ToSet(order))
  BY DEF Lineup
<1>3. all \in Seq(STRING) /\ IsInjective(all)
  <2>1. q.interps \in Seq(Labelled)
    BY DEF Requests, Labelled
  <2>2. q.kit # <<>> => q.kit[1].arms \in Seq(Labelled)
    <3>1. q.kit \in Seq([arms : Seq(Labelled), baseline : STRING])
      BY DEF Requests, Labelled
    <3>2. ASSUME q.kit # <<>> PROVE q.kit[1] \in [arms : Seq(Labelled), baseline : STRING]
      <4>1. PICK kit, K : kit = q.kit /\ K = [arms : Seq(Labelled), baseline : STRING]
        OBVIOUS
      <4>2. kit \in Seq(K) /\ kit # <<>>
        BY <3>1, <3>2, <4>1
      <4>3. kit[1] \in K
        BY ONLY <4>2
      <4> QED
        BY <4>1, <4>3
    <3> QED
      BY <3>2
  <2>3. CASE named
    <3>1. Labels(q.interps) \in Seq(STRING) /\ IsInjective(Labels(q.interps))
      BY <2>1, LabelsName
    <3> QED
      BY <2>3, <3>1
  <2>4. CASE ~named /\ q.kit # <<>>
    <3>1. PICK arms \in Seq(Labelled) : arms = q.kit[1].arms
      BY <2>2, <2>4
    <3>2. Labels(arms) \in Seq(STRING) /\ IsInjective(Labels(arms))
      BY <3>1, LabelsName
    <3> QED
      BY <2>4, <3>1, <3>2
  <2>5. CASE ~named /\ q.kit = <<>>
    BY <1>2, <2>5
  <2> QED
    BY <2>3, <2>4, <2>5
<1> HIDE DEF all, asked
<1>4. order \in Seq(STRING) /\ IsInjective(order) /\ order # <<>>
  <2>1. CASE q.only = {}
    BY <1>2, <1>3, <2>1
  <2>2. CASE q.only # {}
    <3>1. PICK only : only = q.only
      OBVIOUS
    <3>2. InOrder(all, only) \in Seq(STRING) /\ IsInjective(InOrder(all, only)) /\ ToSet(InOrder(all, only)) = only \cap ToSet(all)
      BY <1>3, InOrderNames
    <3>3. ToSet(InOrder(all, only)) # {}
      BY <1>2, <2>2, <3>1, <3>2
    <3>4. InOrder(all, only) # <<>>
      BY <3>3 DEF ToSet
    <3> QED
      BY <2>2, <3>1, <3>2, <3>4
  <2> QED
    BY <2>1, <2>2
<1> HIDE DEF order
<1>5. order \in Seq(ToSet(order))
  BY <1>4, OfItsOwn
<1>6. DefaultBaseline(order) \in ToSet(order)
  <2>1. 1 \in DOMAIN order /\ Head(order) = order[1]
    BY <1>4
  <2>2. Head(order) \in ToSet(order)
    BY <2>1 DEF ToSet
  <2> QED
    BY <1>4, <2>2 DEF DefaultBaseline
<1> QED
  BY <1>1, <1>2, <1>4, <1>5, <1>6

\* One more --interp at the end leaves the baseline, and a path is the last given.
LEMMA LineupStands ==
  ASSUME NEW q \in Requests, NEW l, l = Lineup(q), ~l.refused, q.interps # <<>>
  PROVE  /\ q.only = {} => Lineup([q EXCEPT !.interps = Append(@, [label |-> "extra", path |-> "/extra"])]).baseline = l.baseline
         /\ \A i \in DOMAIN q.interps :
              q.interps[i].path # NotGiven /\ q.interps[i].label \in DOMAIN l.path
                 /\ (\A j \in DOMAIN q.interps : j > i => q.interps[j].label # q.interps[i].label)
                   => l.path[q.interps[i].label] = q.interps[i].path
<1> DEFINE all == Labels(q.interps)
           order  == IF q.only = {} THEN all ELSE InOrder(all, q.only)
           Path(k) == LET g == LastPath(q.interps, k)
                      IN  IF g # NotGiven THEN g
                          ELSE IF KitPath(q.kit, k) # NotGiven THEN KitPath(q.kit, k)
                          ELSE IF k \in Known THEN k ELSE NotGiven
<1>1. /\ l.baseline = IF q.flag # NotGiven THEN q.flag ELSE DefaultBaseline(order)
      /\ DOMAIN l.path = ToSet(order) /\ \A k \in ToSet(order) : l.path[k] = Path(k)
  BY DEF Lineup
<1>2. q.interps \in Seq(Labelled) /\ q.flag \in STRING
  BY DEF Requests, Labelled
<1>3. all # <<>> /\ all \in Seq(STRING)
  <2>1. all # <<>>
    BY DEF Lineup
  <2>2. all \in Seq(STRING)
    BY <1>2, LabelsName
  <2> QED
    BY <2>1, <2>2
<1>4. ASSUME q.only = {}
      PROVE  Lineup([q EXCEPT !.interps = Append(@, [label |-> "extra", path |-> "/extra"])]).baseline = l.baseline
  <2>1. PICK e : e = [label |-> "extra", path |-> "/extra"]
    OBVIOUS
  <2>2. PICK long : long = Append(q.interps, e)
    OBVIOUS
  <2>3. long # <<>>
    <3>1. Len(long) = Len(q.interps) + 1 /\ Len(q.interps) \in Nat
      BY <1>2, <2>2, AppendProperties
    <3> QED
      BY <3>1
  <2>4. PICK more : more = [q EXCEPT !.interps = Append(@, e)]
    OBVIOUS
  <2>5. more.interps = long /\ more.only = {} /\ more.flag = q.flag
    BY <1>4, <2>2, <2>4 DEF Requests
  <2>6. Lineup(more).baseline = IF q.flag # NotGiven THEN q.flag ELSE DefaultBaseline(Labels(long))
    BY <2>3, <2>5 DEF Lineup
  <2>7. Labels(long) = IF "extra" \in ToSet(all) THEN all ELSE Append(all, "extra")
    BY <1>2, <2>1, <2>2, LabelsGrow
  <2>8. DefaultBaseline(Labels(long)) = DefaultBaseline(all)
    <3>1. CASE "extra" \in ToSet(all)
      BY <2>7, <3>1
    <3>2. CASE "extra" \notin ToSet(all)
      <4>1. Labels(long) = Append(all, "extra")
        BY <2>7, <3>2
      <4> HIDE DEF all
      <4>2. PICK t : t = Append(all, "extra")
        OBVIOUS
      <4>3. ToSet(t) = ToSet(all) \cup {"extra"} /\ t # <<>> /\ Head(t) = Head(all)
        <5> DEFINE V == STRING \cup {"extra"}
        <5>1. all \in Seq(V) /\ "extra" \in V
          BY <1>3
        <5>2. ToSet(t) = ToSet(all) \cup {"extra"}
          <6> HIDE DEF V
          <6> QED
            BY <4>2, <5>1, Appended
        <5>3. Len(t) = Len(all) + 1 /\ Len(all) \in Nat \ {0} /\ t[1] = all[1] /\ t \in Seq(V)
          BY <1>3, <4>2, <5>1, AppendProperties
        <5>4. Head(t) = t[1] /\ Head(all) = all[1] /\ t # <<>>
          BY <1>3, <5>1, <5>3
        <5> QED
          BY <5>2, <5>3, <5>4
      <4>4. ("reference" \in ToSet(t)) <=> ("reference" \in ToSet(all))
        BY <4>3
      <4> QED
        BY <1>3, <4>1, <4>2, <4>3, <4>4 DEF DefaultBaseline
    <3> QED
      BY <3>1, <3>2
  <2>9. order = all
    BY <1>4
  <2> QED
    BY <1>1, <2>1, <2>4, <2>6, <2>8, <2>9
<1>5. ASSUME NEW i \in DOMAIN q.interps, q.interps[i].path # NotGiven, q.interps[i].label \in DOMAIN l.path,
             \A j \in DOMAIN q.interps : j > i => q.interps[j].label # q.interps[i].label
      PROVE  l.path[q.interps[i].label] = q.interps[i].path
  <2>1. LastPath(q.interps, q.interps[i].label) = q.interps[i].path
    <3>1. PICK interps \in Seq(Labelled) : interps = q.interps
      BY <1>2
    <3> QED
      BY <1>5, <3>1, LastPathIsLast
  <2> QED
    BY <1>1, <1>5, <2>1
<1> QED
  BY <1>4, <1>5

--------------------------------------------------------------------------------
(* The core it is pinned to.                                                  *)

Cpus(topo, n) == n \in Nat /\ DOMAIN topo = 0..n /\ \A c \in 0..n : topo[c].class \in Nat /\ topo[c].rank \in Int

\* The topology of a machine has a class and a rank for every CPU.
LEMMA TopologyIs ==
  ASSUME NEW machine \in Seq([capacity : Nat, freq : Nat, rank : Int]), machine # <<>>
  PROVE  Cpus(Topology(machine), Len(machine) - 1)
<1>1. PICK n : n = Len(machine)
  OBVIOUS
<1>2. n \in Nat \ {0} /\ DOMAIN machine = 1..n
  BY <1>1
<1>3. \A i \in 1..n : machine[i].capacity \in Nat /\ machine[i].freq \in Nat /\ machine[i].rank \in Int
  <2>1. \A i \in 1..n : machine[i] \in [capacity : Nat, freq : Nat, rank : Int]
    <3>1. PICK K : K = [capacity : Nat, freq : Nat, rank : Int]
      OBVIOUS
    <3>2. machine \in Seq(K)
      BY <3>1
    <3>3. \A i \in 1..Len(machine) : machine[i] \in K
      BY ONLY <3>2
    <3> QED
      BY <1>1, <3>1, <3>3
  <2> QED
    BY <2>1
<1>4. PICK topo : topo = Topology(machine)
  OBVIOUS
<1>5. {i - 1 : i \in 1..n} = 0..(n - 1)
  <2>1. ASSUME NEW c \in 0..(n - 1) PROVE c \in {i - 1 : i \in 1..n}
    <3>1. c + 1 \in 1..n /\ (c + 1) - 1 = c
      BY <1>2
    <3> QED
      BY <3>1
  <2>2. \A i \in 1..n : i - 1 \in 0..(n - 1)
    BY <1>2
  <2> QED
    BY <2>1, <2>2
<1>6. DOMAIN topo = 0..(n - 1)
  BY <1>2, <1>4, <1>5 DEF Topology
<1>7. ASSUME NEW c \in 0..(n - 1) PROVE topo[c].class \in Nat /\ topo[c].rank \in Int
  <2>1. c + 1 \in 1..n
    BY <1>2
  <2>2. topo[c].rank = machine[c + 1].rank
    BY <1>2, <1>4, <1>5 DEF Topology
  <2>3. topo[c].class \in {machine[c + 1].capacity, machine[c + 1].freq}
    BY <1>2, <1>4, <1>5 DEF Topology
  <2> QED
    BY <1>3, <2>1, <2>2, <2>3
<1> QED
  BY <1>1, <1>2, <1>4, <1>6, <1>7 DEF Cpus

\* There is a fastest class.
LEMMA SomeFastest ==
  ASSUME NEW n, NEW topo, Cpus(topo, n)
  PROVE  Fastest(topo) # {} /\ Fastest(topo) \subseteq 0..n
<1>1. n \in Nat /\ DOMAIN topo = 0..n /\ \A c \in 0..n : topo[c].class \in Nat
  BY DEF Cpus
<1> DEFINE S == {i \in 0..n : \E c \in 0..i : \A d \in 0..i : topo[d].class <= topo[c].class}
<1>2. 0 \in S
  <2>1. 0..0 = {0} /\ topo[0].class <= topo[0].class
    BY <1>1
  <2> QED
    BY <1>1, <2>1
<1>3. ASSUME NEW i \in 1..n, i - 1 \in S PROVE i \in S
  <2>1. PICK c \in 0..(i - 1) : \A d \in 0..(i - 1) : topo[d].class <= topo[c].class
    BY <1>3
  <2>2. c \in 0..i /\ i \in 0..i /\ 0..i = 0..(i - 1) \cup {i} /\ i \in 0..n /\ 0..i \subseteq 0..n
    BY <1>1
  <2>3. CASE topo[i].class <= topo[c].class
    BY <2>1, <2>2, <2>3
  <2>4. CASE ~(topo[i].class <= topo[c].class)
    <3>1. \A d \in 0..i : topo[d].class <= topo[i].class
      <4>1. topo[i].class \in Nat /\ topo[c].class \in Nat /\ \A d \in 0..i : topo[d].class \in Nat
        BY <1>1, <2>2
      <4> QED
        BY <2>1, <2>2, <2>4, <4>1
    <3> QED
      BY <2>2, <3>1
  <2> QED
    BY <2>3, <2>4
<1>4. n \in S
  <2>1. \A i \in 1..n : i - 1 \in S => i \in S
    BY <1>3
  <2> HIDE DEF S
  <2>2. \A i \in 0..n : i \in S
    BY <1>1, <1>2, <2>1, AllTheWay
  <2> QED
    BY <1>1, <2>2
<1> QED
  BY <1>1, <1>4 DEF Fastest

\* The core that is picked.
LEMMA PickCoreIs ==
  ASSUME NEW n, NEW topo, Cpus(topo, n)
  PROVE  /\ PickCore(topo) \in Fastest(topo) /\ (PickCore(topo) = 0 => Fastest(topo) \ {0} = {})
         /\ \A d \in Fastest(topo) \ {0} : topo[d].rank <= topo[PickCore(topo)].rank
<1>1. PICK cands : cands = Fastest(topo)
  OBVIOUS
<1>2. /\ n \in Nat /\ DOMAIN topo = 0..n /\ \A c \in 0..n : topo[c].rank \in Int
      /\ cands # {} /\ cands \subseteq 0..n /\ cands \in SUBSET Nat
  <2>1. Fastest(topo) # {} /\ Fastest(topo) \subseteq 0..n
    BY SomeFastest
  <2>2. n \in Nat /\ DOMAIN topo = 0..n /\ \A c \in 0..n : topo[c].rank \in Int
    BY DEF Cpus
  <2>3. 0..n \subseteq Nat
    BY <2>2
  <2> QED
    BY <1>1, <2>1, <2>2, <2>3
<1>3. Min(cands) \in cands
  BY <1>2, SomeLeast
<1> DEFINE Better(c, p) == IF c \in cands /\ (p = 0 \/ topo[c].rank > topo[p].rank) THEN c ELSE p
           step == [i \in 1..n |-> [p \in cands |-> Better(i, p)]]
           Steps(h) == h = [c \in 0..n |-> IF c = 0 THEN Min(cands) ELSE Better(c, h[c - 1])]
           it == CHOOSE h : Steps(h)
<1>4. step \in [1..n -> [cands -> cands]]
  OBVIOUS
<1>5. PICK g \in [0..n -> cands] : g[0] = Min(cands) /\ \A i \in 1..n : g[i] = step[i][g[i - 1]]
  <2> HIDE DEF step
  <2>1. \E g \in [0..n -> cands] : Walk(g, n, Min(cands), step)
    <3>1. PICK a : a = Min(cands)
      OBVIOUS
    <3>2. a \in cands /\ n \in Nat
      BY <1>2, <1>3, <3>1
    <3>3. \E g \in [0..n -> cands] : Walk(g, n, a, step)
      BY ONLY <1>4, <3>2, Iterates
    <3> QED
      BY <3>1, <3>3
  <2> QED
    BY <2>1 DEF Walk
<1>6. ASSUME NEW i \in 1..n PROVE g[i] = Better(i, g[i - 1]) /\ i - 1 \in 0..n
  <2>1. i - 1 \in 0..n
    BY <1>2
  <2>2. g[i - 1] \in cands
    BY ONLY <2>1, g \in [0..n -> cands]
  <2>3. g[i] = step[i][g[i - 1]]
    BY <1>5
  <2> HIDE DEF Better
  <2> QED
    BY <2>1, <2>2, <2>3
<1>7. Steps(g)
  <2> HIDE DEF Better
  <2>1. \A i \in 0..n : g[i] = IF i = 0 THEN Min(cands) ELSE Better(i, g[i - 1])
    BY <1>2, <1>5, <1>6
  <2> QED
    BY <2>1
<1>8. Steps(it)
  <2> HIDE DEF Steps
  <2> QED
    BY <1>7
<1>9. PICK h : h = it
  OBVIOUS
<1>10. Steps(h)
  BY <1>8, <1>9
<1>11. h[n] = g[n]
  <2> HIDE DEF Better
  <2>1. h[0] = g[0]
    BY <1>2, <1>5, <1>10
  <2>2. ASSUME NEW i \in 1..n PROVE h[i] = Better(i, h[i - 1])
    BY <1>2, <1>10
  <2>3. \A i \in 1..n : h[i - 1] = g[i - 1] => h[i] = g[i]
    BY <1>6, <2>2
  <2> DEFINE Same == {i \in 0..n : h[i] = g[i]}
  <2>4. 0 \in Same /\ \A i \in 1..n : i - 1 \in Same => i \in Same
    BY <1>2, <2>1, <2>3
  <2>5. \A i \in 0..n : i \in Same
    <3> HIDE DEF Same
    <3> QED
      BY <1>2, <2>4, AllTheWay
  <2> QED
    BY <1>2, <2>5
<1>12. Max(0..n) = n
  <2> DEFINE S == 0..n
  <2>1. n \in S /\ \A j \in S : n >= j
    BY <1>2
  <2>2. Max(S) \in S /\ \A j \in S : Max(S) >= j
    <3> HIDE DEF S
    <3> QED
      BY <2>1, Zenon DEF Max
  <2> QED
    BY <1>2, <2>1, <2>2
<1>13. PickCore(topo) = g[n]
  <2>1. PickCore(topo) = it[n]
    BY <1>1, <1>2, <1>12 DEF PickCore
  <2> QED
    BY <1>9, <1>11, <2>1
<1> HIDE DEF step, Steps, it
<1> DEFINE S == {i \in 0..n : \A d \in cands : d \in 1..i => g[i] # 0 /\ topo[d].rank <= topo[g[i]].rank}
<1>14. 0 \in S
  BY <1>2
<1>15. ASSUME NEW i \in 1..n, i - 1 \in S PROVE i \in S
  <2>1. PICK p : p = g[i - 1]
    OBVIOUS
  <2>2. /\ p \in cands /\ i \in 0..n /\ g[i] = Better(i, p)
        /\ \A d \in cands : d \in 1..(i - 1) => p # 0 /\ topo[d].rank <= topo[p].rank
    BY <1>6, <1>15, <2>1
  <2>3. topo[p].rank \in Int /\ topo[i].rank \in Int /\ \A d \in cands : topo[d].rank \in Int /\ (d \in 1..i => d = i \/ d \in 1..(i - 1))
    <3>1. p \in 0..n /\ \A d \in cands : d \in 0..n
      BY <1>2, <2>2
    <3>2. \A d \in 0..n : topo[d].rank \in Int
      BY <1>2
    <3>3. ASSUME NEW d \in cands, d \in 1..i, d # i PROVE d \in 1..(i - 1)
      BY <1>2, <3>1, <3>3
    <3> QED
      BY <2>2, <3>1, <3>2, <3>3
  <2>4. CASE i \in cands /\ (p = 0 \/ topo[i].rank > topo[p].rank)
    <3>1. g[i] = i /\ i # 0
      BY <1>2, <2>2, <2>4
    <3>2. \A d \in cands : d \in 1..i => topo[d].rank <= topo[i].rank
      BY <2>2, <2>3, <2>4
    <3> QED
      BY <2>2, <3>1, <3>2
  <2>5. CASE ~(i \in cands /\ (p = 0 \/ topo[i].rank > topo[p].rank))
    <3>1. g[i] = p
      BY <2>2, <2>5
    <3>2. \A d \in cands : d \in 1..i => p # 0 /\ topo[d].rank <= topo[p].rank
      BY <2>2, <2>3, <2>5
    <3> QED
      BY <2>2, <3>1, <3>2
  <2> QED
    BY <2>4, <2>5
<1>16. n \in S
  <2>1. \A i \in 1..n : i - 1 \in S => i \in S
    BY <1>15
  <2> HIDE DEF S
  <2>2. \A i \in 0..n : i \in S
    BY <1>2, <1>14, <2>1, AllTheWay
  <2> QED
    BY <1>2, <2>2
<1>17. g[n] \in cands
  BY <1>2
<1>18. \A d \in cands \ {0} : g[n] # 0 /\ topo[d].rank <= topo[g[n]].rank
  <2>1. ASSUME NEW d \in cands \ {0} PROVE d \in 1..n
    <3>1. d \in 0..n /\ n \in Nat /\ d # 0
      BY <1>2, <2>1
    <3> QED
      BY ONLY <3>1
  <2> QED
    BY <1>16, <2>1
<1> QED
  BY <1>1, <1>13, <1>17, <1>18

\* What is pinned.
LEMMA PinIs ==
  ASSUME NEW machine \in Machines, NEW flags, NEW allowed, NEW pin,
         pin = ChoosePin(machine, flags, allowed), ~pin.refused
  PROVE  LET topo  == Topology(machine)
             other == Fastest(topo) \ {0}
         IN  /\ flags.want # {} /\ ~flags.off => pin.applied /\ pin.cpu \in flags.want
             /\ machine # <<>> /\ ~flags.off => pin.applied
             /\ pin.applied /\ flags.want \cup flags.pick = {} =>
                  /\ pin.cpu \in Fastest(topo) /\ (pin.cpu = 0 => other = {})
                  /\ \A d \in other : topo[d].rank <= topo[pin.cpu].rank
<1> DEFINE topo == Topology(machine)
           chosen == IF flags.want # {} THEN CHOOSE c \in flags.want : TRUE
                ELSE IF flags.pick # {} THEN CHOOSE c \in flags.pick : TRUE ELSE PickCore(topo)
<1>1. pin = IF machine = <<>> THEN IF flags.want # {} THEN NoPin ELSE Unpinned
            ELSE IF flags.off THEN Unpinned
            ELSE IF chosen \notin DOMAIN topo \/ ~allowed THEN NoPin
            ELSE [cpu |-> chosen, applied |-> TRUE, refused |-> FALSE]
  BY DEF ChoosePin
<1>2. NoPin.refused /\ ~Unpinned.applied
  BY DEF NoPin, Unpinned
<1>3. CASE machine = <<>>
  <2>1. pin = Unpinned /\ flags.want = {}
    BY <1>1, <1>2, <1>3
  <2> QED
    BY <1>2, <1>3, <2>1
<1>4. CASE machine # <<>> /\ flags.off
  <2>1. pin = Unpinned
    BY <1>1, <1>4
  <2> QED
    BY <1>2, <1>4, <2>1
<1>5. CASE machine # <<>> /\ ~flags.off
  <2>1. pin.cpu = chosen /\ pin.applied
    BY <1>1, <1>2, <1>5
  <2>2. flags.want # {} => chosen \in flags.want
    OBVIOUS
  <2>3. flags.want \cup flags.pick = {} => chosen = PickCore(topo)
    OBVIOUS
  <2>4. Cpus(topo, Len(machine) - 1)
    <3>1. machine \in Seq([capacity : Nat, freq : Nat, rank : Int])
      BY BenchAssumption
    <3> QED
      BY <1>5, <3>1, TopologyIs
  <2> HIDE DEF topo, chosen
  <2>5. /\ PickCore(topo) \in Fastest(topo) /\ (PickCore(topo) = 0 => Fastest(topo) \ {0} = {})
        /\ \A d \in Fastest(topo) \ {0} : topo[d].rank <= topo[PickCore(topo)].rank
    BY <2>4, PickCoreIs
  <2>6. /\ flags.want # {} /\ ~flags.off => pin.applied /\ pin.cpu \in flags.want
        /\ machine # <<>> /\ ~flags.off => pin.applied
        /\ pin.applied /\ flags.want \cup flags.pick = {} =>
                  /\ pin.cpu \in Fastest(topo) /\ (pin.cpu = 0 => Fastest(topo) \ {0} = {})
                  /\ \A d \in Fastest(topo) \ {0} : topo[d].rank <= topo[pin.cpu].rank
    BY <2>1, <2>2, <2>3, <2>5
  <2> QED
    BY <2>6 DEF topo
<1> QED
  BY <1>3, <1>4, <1>5

--------------------------------------------------------------------------------
(* The queue of cells, and the mean of a finished session.                    *)

\* Two lists after each other, and a list without its first.
LEMMA Concatenated ==
  ASSUME NEW V, NEW s \in Seq(V), NEW t \in Seq(V)
  PROVE  /\ ToSet(s \o t) = ToSet(s) \cup ToSet(t)
         /\ IsInjective(s) /\ IsInjective(t) /\ Apart(ToSet(s), ToSet(t)) => IsInjective(s \o t)
<1>1. PICK u : u = s \o t
  OBVIOUS
<1>2. /\ Len(s) \in Nat /\ Len(t) \in Nat /\ DOMAIN s = 1..Len(s) /\ DOMAIN t = 1..Len(t) /\ DOMAIN u = 1..(Len(s) + Len(t))
      /\ (\A i \in 1..Len(s) : u[i] = s[i]) /\ \A i \in 1..Len(t) : u[Len(s) + i] = t[i]
  BY <1>1
<1>3. \A k \in DOMAIN u : k \in 1..Len(s) \/ (k - Len(s) \in 1..Len(t) /\ u[k] = t[k - Len(s)])
  <2> SUFFICES ASSUME NEW k \in DOMAIN u, k \notin 1..Len(s) PROVE k - Len(s) \in 1..Len(t) /\ u[k] = t[k - Len(s)]
    OBVIOUS
  <2>1. k - Len(s) \in 1..Len(t) /\ k = Len(s) + (k - Len(s))
    BY <1>2
  <2> QED
    BY <1>2, <2>1
<1>4. ToSet(u) = ToSet(s) \cup ToSet(t)
  <2>1. \A k \in DOMAIN u : u[k] \in ToSet(s) \cup ToSet(t)
    BY <1>2, <1>3 DEF ToSet
  <2>2. (\A i \in 1..Len(s) : i \in DOMAIN u) /\ \A i \in 1..Len(t) : Len(s) + i \in DOMAIN u
    BY <1>2
  <2> QED
    BY <1>2, <2>1, <2>2 DEF ToSet
<1>5. ASSUME IsInjective(s), IsInjective(t), Apart(ToSet(s), ToSet(t)) PROVE IsInjective(u)
  <2> SUFFICES ASSUME NEW i \in DOMAIN u, NEW j \in DOMAIN u, u[i] = u[j] PROVE i = j
    BY DEF IsInjective
  <2>1. \A a \in 1..Len(s), b \in 1..Len(t) : s[a] # t[b]
    BY <1>2, <1>5 DEF Apart, ToSet
  <2>2. CASE i \in 1..Len(s) /\ j \in 1..Len(s)
    BY <1>2, <1>5, <2>2 DEF IsInjective
  <2>3. CASE i \in 1..Len(s) /\ j \notin 1..Len(s)
    BY <1>2, <1>3, <2>1, <2>3
  <2>4. CASE i \notin 1..Len(s) /\ j \in 1..Len(s)
    BY <1>2, <1>3, <2>1, <2>4
  <2>5. CASE i \notin 1..Len(s) /\ j \notin 1..Len(s)
    <3>1. i - Len(s) \in DOMAIN t /\ j - Len(s) \in DOMAIN t /\ t[i - Len(s)] = t[j - Len(s)]
      BY <1>2, <1>3, <2>5
    <3>2. i - Len(s) = j - Len(s)
      BY <1>5, <3>1 DEF IsInjective
    <3> QED
      BY <1>2, <3>2
  <2> QED
    BY <2>2, <2>3, <2>4, <2>5
<1> QED
  BY <1>1, <1>4, <1>5

\* A list without its first element.
LEMMA Tailed ==
  ASSUME NEW s, Listing(s), s # <<>>
  PROVE  /\ Listing(Tail(s)) /\ Head(s) \notin ToSet(Tail(s))
         /\ Head(s) \in ToSet(s) /\ ToSet(s) = ToSet(Tail(s)) \cup {Head(s)}
<1>1. PICK t, h : t = Tail(s) /\ h = Head(s)
  OBVIOUS
<1>2. s \in Seq(ToSet(s)) /\ IsInjective(s)
  BY DEF Listing
<1>3. /\ Len(s) \in Nat \ {0} /\ DOMAIN s = 1..Len(s) /\ t \in Seq(ToSet(s)) /\ Len(t) = Len(s) - 1 /\ DOMAIN t = 1..(Len(s) - 1)
      /\ h = s[1] /\ \A i \in 1..(Len(s) - 1) : t[i] = s[i + 1]
  <2>1. PICK V : V = ToSet(s)
    OBVIOUS
  <2>2. s \in Seq(V) /\ s # <<>>
    BY <1>2, <2>1
  <2>3. /\ Len(s) \in Nat \ {0} /\ DOMAIN s = 1..Len(s) /\ t \in Seq(V) /\ Len(t) = Len(s) - 1
        /\ h = s[1] /\ \A i \in 1..(Len(s) - 1) : t[i] = s[i + 1]
    BY <1>1, <2>2, HeadTailProperties
  <2>4. DOMAIN t = 1..(Len(s) - 1)
    BY <2>3
  <2> QED
    BY <2>1, <2>3, <2>4
<1>4. \A i \in 1..(Len(s) - 1) : i + 1 \in 1..Len(s) /\ i + 1 # 1
  BY <1>3
<1>5. IsInjective(t)
  <2> SUFFICES ASSUME NEW i \in DOMAIN t, NEW j \in DOMAIN t, t[i] = t[j] PROVE i = j
    BY DEF IsInjective
  <2>1. i + 1 = j + 1
    BY <1>2, <1>3, <1>4 DEF IsInjective
  <2> QED
    BY <1>3, <2>1
<1>6. h \notin ToSet(t)
  <2>1. ASSUME NEW i \in 1..(Len(s) - 1) PROVE t[i] # h
    <3>1. i + 1 \in DOMAIN s /\ 1 \in DOMAIN s /\ i + 1 # 1
      BY <1>3, <1>4
    <3>2. s[i + 1] # s[1]
      BY <1>2, <3>1 DEF IsInjective
    <3> QED
      BY <1>3, <3>2
  <2> QED
    BY <1>3, <2>1 DEF ToSet
<1>7. h \in ToSet(s)
  BY <1>3 DEF ToSet
<1>8. ToSet(s) = ToSet(t) \cup {h}
  <2>1. ASSUME NEW i \in 1..Len(s) PROVE s[i] \in ToSet(t) \cup {h}
    <3>1. i = 1 \/ (i - 1 \in 1..(Len(s) - 1) /\ (i - 1) + 1 = i)
      BY <1>3
    <3> QED
      BY <1>3, <3>1 DEF ToSet
  <2>2. \A i \in 1..(Len(s) - 1) : t[i] \in ToSet(s)
    BY <1>3, <1>4 DEF ToSet
  <2> QED
    BY <1>3, <1>7, <2>1, <2>2 DEF ToSet
<1>9. t \in Seq(ToSet(t))
  BY <1>3, OfItsOwn
<1> QED
  BY <1>1, <1>5, <1>6, <1>7, <1>8, <1>9 DEF Listing

\* Every arm measures every benchmark once.
LEMMA QueueIs ==
  ASSUME NEW order, Listing(order), NEW cases, Listing(cases)
  PROVE  Listing(Queue(order, cases)) /\ ToSet(Queue(order, cases)) = ToSet(cases) \X ToSet(order)
<1>1. PICK n, A, C : n = Len(cases) /\ A = ToSet(order) /\ C = ToSet(cases)
  OBVIOUS
<1>2. /\ n \in Nat /\ cases \in Seq(C) /\ order \in Seq(A) /\ IsInjective(order) /\ IsInjective(cases)
      /\ DOMAIN cases = 1..n /\ DOMAIN order = 1..Len(order) /\ Len(order) \in Nat
      /\ (\A i \in 1..n : cases[i] \in C) /\ \A i \in 1..Len(order) : order[i] \in A
  BY <1>1 DEF Listing
<1> DEFINE part(k) == [i \in DOMAIN order |-> <<cases[k], order[i]>>]
           seqs == [k \in DOMAIN cases |-> part(k)]
           V == C \X A
<1>3. ASSUME NEW k \in 1..n
      PROVE  part(k) \in Seq(V) /\ IsInjective(part(k)) /\ ToSet(part(k)) = {cases[k]} \X A
  <2>1. part(k) \in Seq(V)
    BY <1>2
  <2>2. IsInjective(part(k))
    BY <1>2 DEF IsInjective
  <2>3. ToSet(part(k)) = {cases[k]} \X A
    BY <1>1, <1>2 DEF ToSet
  <2> QED
    BY <2>1, <2>2, <2>3
<1>4. seqs \in Seq(Seq(V)) /\ Len(seqs) = n
  <2> HIDE DEF part, V
  <2> QED
    BY <1>2, <1>3
<1>5. PICK g \in [0..n -> Seq(V)] :
        /\ g[0] = <<>> /\ \A i \in 1..n : g[i] = g[i - 1] \o seqs[i]
        /\ FlattenSeq(seqs) = g[n]
  <2> HIDE DEF seqs, V
  <2> QED
    BY <1>4, Joins
<1>6. Queue(order, cases) = g[n]
  BY <1>5 DEF Queue
<1> HIDE DEF part
<1> DEFINE S == {i \in 0..n : IsInjective(g[i]) /\ ToSet(g[i]) = {cases[k] : k \in 1..i} \X A}
<1>7. 0 \in S
  <2>1. IsInjective(g[0]) /\ ToSet(g[0]) = {} /\ 1..0 = {}
    BY <1>5 DEF IsInjective, ToSet
  <2> QED
    BY <1>2, <2>1
<1>8. ASSUME NEW i \in 1..n, i - 1 \in S PROVE i \in S
  <2>1. i \in 0..n /\ i - 1 \in 0..n /\ 1..i = 1..(i - 1) \cup {i}
    BY <1>2
  <2>2. PICK u, t : u = g[i - 1] /\ t = part(i)
    OBVIOUS
  <2>3. /\ u \in Seq(V) /\ t \in Seq(V) /\ IsInjective(u) /\ IsInjective(t)
        /\ ToSet(u) = {cases[k] : k \in 1..(i - 1)} \X A /\ ToSet(t) = {cases[i]} \X A
    <3> HIDE DEF V
    <3>1. u \in Seq(V)
      BY <2>1, <2>2
    <3>2. t \in Seq(V) /\ IsInjective(t) /\ ToSet(t) = {cases[i]} \X A
      BY <1>3, <2>2
    <3>3. IsInjective(u) /\ ToSet(u) = {cases[k] : k \in 1..(i - 1)} \X A
      BY <1>8, <2>2
    <3> QED
      BY <3>1, <3>2, <3>3
  <2>4. Apart(ToSet(u), ToSet(t))
    <3>1. ASSUME NEW k \in 1..(i - 1) PROVE cases[k] # cases[i]
      <4>1. k \in DOMAIN cases /\ i \in DOMAIN cases /\ k # i
        BY <1>2
      <4> QED
        BY <1>2, <4>1 DEF IsInjective
    <3> QED
      BY <2>3, <3>1 DEF Apart
  <2>5. ToSet(u \o t) = ToSet(u) \cup ToSet(t) /\ IsInjective(u \o t)
    <3> HIDE DEF V
    <3>1. u \in Seq(V) /\ t \in Seq(V)
      BY <2>3
    <3>2. /\ ToSet(u \o t) = ToSet(u) \cup ToSet(t)
          /\ IsInjective(u) /\ IsInjective(t) /\ Apart(ToSet(u), ToSet(t)) => IsInjective(u \o t)
      BY ONLY <3>1, Concatenated
    <3> QED
      BY <2>3, <2>4, <3>2
  <2>6. g[i] = u \o t
    <3>1. g[i] = g[i - 1] \o seqs[i] /\ seqs[i] = part(i)
      BY <1>2, <1>5
    <3> QED
      BY <2>2, <3>1
  <2>7. ToSet(u \o t) = {cases[k] : k \in 1..i} \X A
    <3>1. {cases[k] : k \in 1..i} = {cases[k] : k \in 1..(i - 1)} \cup {cases[i]}
      BY <2>1
    <3> QED
      BY <2>3, <2>5, <3>1
  <2> QED
    BY <2>1, <2>5, <2>6, <2>7
<1>9. n \in S
  <2>1. \A i \in 1..n : i - 1 \in S => i \in S
    BY <1>8
  <2> HIDE DEF S
  <2>2. \A i \in 0..n : i \in S
    BY <1>2, <1>7, <2>1, AllTheWay
  <2> QED
    BY <1>2, <2>2
<1>10. C = {cases[k] : k \in 1..n}
  BY <1>1, <1>2 DEF ToSet
<1>11. g[n] \in Seq(ToSet(g[n]))
  <2> HIDE DEF V
  <2>1. g[n] \in Seq(V)
    BY <1>2
  <2> QED
    BY <2>1, OfItsOwn
<1> QED
  BY <1>1, <1>6, <1>9, <1>10, <1>11 DEF Listing

\* What the session of a run has a time of on an arm; what its accounting misses.
TimesOf(r, f, arm) == UNION {Left(r, f, <<case, arm>>).timed : case \in SuiteOf(r)}
Missed(r, case, arm) ==
  \E e \in r.missing : e.bench = case /\ (e.why = "requirements" \/ e.arms \cap {arm, r.baseline} # {})

\* Of a run that is done: what it says of the cells.
LEMMA DoneIs ==
  ASSUME NEW r, Reported(r)
  PROVE  /\ r.baseline \in ToSet(r.order) /\ Apart(r.values, ToSet(r.failures))
         /\ r.values \cup ToSet(r.failures) = (SuiteOf(r) \ Dropped(r)) \X ToSet(r.order)
         /\ r.suite = "micro" => Dropped(r) = {}
         /\ SummarizeFailures(r.failures) \subseteq r.missing
         /\ \A e \in r.missing : e.why = "requirements" \/ e \in SummarizeFailures(r.failures)
<1>1. r.cells = <<>> /\ ToSet(<<>>) = {}
  BY DEF Reported, ToSet
<1> QED
  BY <1>1 DEF Reported, LinedUp, CellsOK

\* A cell of its suite is a number just if its file names something, and one that
\* is none has no time.
LEMMA FileTells ==
  ASSUME NEW r, NEW f, Reported(r), Filed(r, f), NEW case \in SuiteOf(r), NEW arm \in ToSet(r.order)
  PROVE  /\ <<case, arm>> \in r.values <=> Left(r, f, <<case, arm>>).names # {}
         /\ <<case, arm>> \notin r.values => Left(r, f, <<case, arm>>).timed = {}
<1>1. PICK v : v = <<case, arm>>
  OBVIOUS
<1>2. CASE v \in r.values
  BY <1>1, <1>2 DEF Filed
<1>3. CASE v \in ToSet(r.failures)
  <2>1. v \notin r.values
    BY <1>3, DoneIs DEF Apart
  <2> QED
    BY <1>1, <1>3, <2>1 DEF Filed
<1>4. CASE v \notin r.values \cup ToSet(r.failures)
  <2>1. case \in Dropped(r)
    BY <1>1, <1>4, DoneIs
  <2>2. r.suite # "micro" /\ v \notin DOMAIN f.raw
    BY <1>4, <2>1, DoneIs DEF Filed
  <2>3. Left(r, f, v) = NamesNone
    BY <2>2 DEF Left, Found
  <2> QED
    BY <1>1, <1>4, <2>3 DEF NamesNone
<1> QED
  BY <1>2, <1>3, <1>4

\* The names behind an arm's mean are what the session times on the arm and on the
\* baseline.
LEMMA MeanOfDone ==
  ASSUME NEW r, NEW f, Reported(r), Filed(r, f), NEW arm \in ToSet(r.order)
  PROVE  {row.name : row \in {x \in Compare(r.results, r.baseline, r.order) : arm \in x.arms}}
           = TimesOf(r, f, arm) \cap TimesOf(r, f, r.baseline)
<1> DEFINE Rows == Compare(r.results, r.baseline, r.order)
           MeanNames == {row.name : row \in {x \in Rows : arm \in x.arms}}
<1>1. ASSUME NEW a \in ToSet(r.order), NEW n PROVE <<a, n>> \in r.results <=> n \in TimesOf(r, f, a)
  <2>1. <<a, n>> \in r.results <=> \E v \in r.values : v[2] = a /\ n \in Left(r, f, v).timed
    BY DEF Filed
  <2>2. \A v \in r.values : v = <<v[1], v[2]>> /\ v[1] \in SuiteOf(r)
    BY DoneIs
  <2>3. ASSUME NEW v \in r.values, v[2] = a, n \in Left(r, f, v).timed PROVE n \in TimesOf(r, f, a)
    <3>1. v = <<v[1], a>> /\ v[1] \in SuiteOf(r)
      BY <2>2, <2>3
    <3> QED
      BY <2>3, <3>1 DEF TimesOf
  <2>4. ASSUME n \in TimesOf(r, f, a) PROVE \E v \in r.values : v[2] = a /\ n \in Left(r, f, v).timed
    <3>1. PICK case \in SuiteOf(r) : n \in Left(r, f, <<case, a>>).timed
      BY <2>4 DEF TimesOf
    <3>2. <<case, a>> \in r.values
      BY <3>1, FileTells
    <3>3. <<case, a>>[2] = a
      OBVIOUS
    <3> QED
      BY <3>1, <3>2, <3>3
  <2> QED
    BY <2>1, <2>3, <2>4
<1>2. ASSUME NEW n PROVE n \in MeanNames <=> <<r.baseline, n>> \in r.results /\ <<arm, n>> \in r.results
  <2> DEFINE names == {t[2] : t \in {x \in r.results : x[1] = r.baseline}}
             Row(m) == [name |-> m, arms |-> {a \in ToSet(r.order) : <<a, m>> \in r.results}]
  <2>1. Rows = {Row(m) : m \in names}
    BY DEF Compare
  <2>2. n \in names <=> <<r.baseline, n>> \in r.results
    <3>1. \A t \in r.results : t = <<t[1], t[2]>>
      BY DEF Filed
    <3>2. <<r.baseline, n>>[1] = r.baseline /\ <<r.baseline, n>>[2] = n
      OBVIOUS
    <3> QED
      BY <3>1, <3>2
  <2>3. \A m : Row(m).name = m /\ (arm \in Row(m).arms <=> <<arm, m>> \in r.results)
    OBVIOUS
  <2>4. n \in MeanNames <=> \E m \in names : arm \in Row(m).arms /\ Row(m).name = n
    <3> HIDE DEF Row, names
    <3> QED
      BY <2>1
  <2> HIDE DEF Row, names, MeanNames
  <2> QED
    BY <2>2, <2>3, <2>4
<1>3. r.baseline \in ToSet(r.order)
  BY DoneIs
<1> HIDE DEF Rows, MeanNames
<1>4. \A n : n \in MeanNames <=> n \in TimesOf(r, f, arm) /\ n \in TimesOf(r, f, r.baseline)
  BY <1>1, <1>2, <1>3
<1>5. MeanNames = TimesOf(r, f, arm) \cap TimesOf(r, f, r.baseline)
  BY <1>4
<1> QED
  BY <1>5 DEF MeanNames, Rows

\* What is missing, for an arm or for the baseline, are the benchmarks whose file
\* names nothing.
LEMMA MissedOfDone ==
  ASSUME NEW r, NEW f, Reported(r), Filed(r, f), NEW arm \in ToSet(r.order), NEW k \in SuiteOf(r)
  PROVE  Missed(r, k, arm) <=> \E a \in {arm, r.baseline} : Left(r, f, <<k, a>>).names = {}
<1>1. r.baseline \in ToSet(r.order)
  BY DoneIs
<1>2. \A a \in {arm, r.baseline} : <<k, a>> \in r.values <=> Left(r, f, <<k, a>>).names # {}
  BY <1>1, FileTells
<1>3. CASE k \in Dropped(r)
  <2>1. \E e \in r.missing : e.bench = k /\ e.why = "requirements"
    BY <1>3 DEF Dropped
  <2>2. <<k, arm>> \notin r.values
    BY <1>3, DoneIs
  <2> QED
    BY <1>2, <2>1, <2>2 DEF Missed
<1>4. CASE k \notin Dropped(r)
  <2> DEFINE Lost(a) == <<k, a>> \in ToSet(r.failures)
             Fault(f1) == [bench |-> f1[1], why |-> "runtime", arms |-> {g[2] : g \in {h \in ToSet(r.failures) : h[1] = f1[1]}}]
  <2>1. \A a \in {arm, r.baseline} : <<k, a>> \in r.values <=> ~Lost(a)
    BY <1>1, <1>4, DoneIs DEF Apart
  <2>2. ASSUME NEW a \in {arm, r.baseline}, Lost(a) PROVE Missed(r, k, arm)
    <3> DEFINE e == Fault(<<k, a>>)
    <3>1. e \in SummarizeFailures(r.failures)
      BY <2>2 DEF SummarizeFailures
    <3>2. e.bench = k /\ a \in e.arms
      BY <2>2
    <3> HIDE DEF e
    <3> QED
      BY <3>1, <3>2, DoneIs DEF Missed
  <2>3. ASSUME NEW e \in r.missing, e.bench = k, e.why = "requirements" \/ e.arms \cap {arm, r.baseline} # {}
        PROVE  \E a \in {arm, r.baseline} : Lost(a)
    <3>1. e.why # "requirements"
      BY <1>4, <2>3 DEF Dropped
    <3>2. e \in SummarizeFailures(r.failures)
      BY <3>1, DoneIs
    <3>3. PICK f1 \in ToSet(r.failures) : e = Fault(f1)
      BY <3>2 DEF SummarizeFailures
    <3>4. PICK a \in {arm, r.baseline} : a \in e.arms
      BY <2>3, <3>1
    <3>5. f1[1] = k /\ e.arms = {g[2] : g \in {h \in ToSet(r.failures) : h[1] = f1[1]}}
      BY <2>3, <3>3
    <3>6. PICK g \in ToSet(r.failures) : g[1] = k /\ g[2] = a
      BY <3>4, <3>5
    <3>7. g = <<g[1], g[2]>>
      BY DoneIs
    <3> QED
      BY <3>6, <3>7
  <2>4. Missed(r, k, arm) <=> \E a \in {arm, r.baseline} : Lost(a)
    BY <2>2, <2>3 DEF Missed
  <2> HIDE DEF Lost
  <2> QED
    BY <1>2, <2>1, <2>4
<1> QED
  BY <1>3, <1>4

--------------------------------------------------------------------------------
(* The steps of one command, up to its measurements.                          *)

\* What the lineup and the pin of a command that is let through promise.
LEMMA ChosenIs ==
  ASSUME NEW q \in Lineups, NEW machine \in Machines, NEW flags, NEW allowed, NEW suite,
         NEW l, l = Lineup(q), ~l.refused, NEW p, p = ChoosePin(machine, flags, allowed), ~p.refused,
         NEW r, r = [Idle EXCEPT !.at = "chosen", !.suite = suite,
                       !.asked = {[q |-> q, machine |-> machine, flags |-> flags, pin |-> p, paths |-> l.path]},
                       !.pinned = p.applied, !.order = l.order, !.baseline = l.baseline]
  PROVE  RunOK(r)
<1>1. /\ DOMAIN r = RunFields /\ r.at = "chosen" /\ r.written = 0 /\ r.values = {} /\ r.failures = <<>>
      /\ r.results = {}
      /\ r.missing = {} /\ r.cells = <<>> /\ r.order = l.order /\ r.baseline = l.baseline
      /\ r.asked = {[q |-> q, machine |-> machine, flags |-> flags, pin |-> p, paths |-> l.path]}
  BY DEF Idle, RunFields
<1>2. q \in Requests
  BY BenchAssumption
<1>3. LinedUp(r)
  BY <1>1, <1>2, LineupIs DEF LinedUp
<1>4. BaselineFits(r, q, l.path)
  <2>1. CASE q.interps # <<>>
    <3>1. PICK b : b = l.baseline
      OBVIOUS
    <3>2. /\ q.only = {} => More(q).baseline = l.baseline
          /\ \A i \in DOMAIN q.interps :
              q.interps[i].path # NotGiven /\ q.interps[i].label \in DOMAIN l.path
                 /\ (\A j \in DOMAIN q.interps : j > i => q.interps[j].label # q.interps[i].label)
                   => l.path[q.interps[i].label] = q.interps[i].path
      BY <1>2, <2>1, LineupStands DEF More
    <3> QED
      BY <3>2, <1>1 DEF BaselineFits
  <2>2. CASE q.interps = <<>>
    BY <2>2, <1>1 DEF BaselineFits
  <2> QED
    BY <2>1, <2>2
<1>5. ASSUME NEW a, a = [q |-> q, machine |-> machine, flags |-> flags, pin |-> p, paths |-> l.path]
      PROVE  PinFits(a)
  <2>1. a.machine = machine /\ a.flags = flags /\ a.pin = p
    BY <1>5
  <2> QED
    BY <2>1, PinIs DEF PinFits
<1>6. \A a \in r.asked : BaselineFits(r, a.q, a.paths) /\ PinFits(a)
  <2>1. SUFFICES ASSUME NEW a \in r.asked PROVE BaselineFits(r, a.q, a.paths) /\ PinFits(a)
    OBVIOUS
  <2>2. a = [q |-> q, machine |-> machine, flags |-> flags, pin |-> p, paths |-> l.path]
    BY <1>1
  <2>3. a.q = q /\ a.paths = l.path
    BY <2>2
  <2> QED
    BY <2>2, <2>3, <1>4, <1>5
<1>7. ArmsOK(r)
  BY <1>1, <1>3, <1>6 DEF ArmsOK, Untouched
<1> QED
  BY <1>1, <1>7 DEF RunOK

\* Nothing is promised of a command that failed.
LEMMA FailedIs == ASSUME NEW r, DOMAIN r = RunFields, r.at = "failed" PROVE RunOK(r)
  BY DEF RunOK

\* OpenSession: what was chosen is what is prepared.
LEMMA OpenedIs ==
  ASSUME NEW r, RunOK(r), r.at = "chosen", NEW t, NEW s, s = [r EXCEPT !.at = "preparing", !.asked = {}, !.stamp = t]
  PROVE  RunOK(s)
<1>1. DOMAIN r = RunFields /\ ArmsOK(r)
  BY DEF RunOK
<1>2. /\ DOMAIN s = RunFields /\ s.at = "preparing" /\ s.written = r.written /\ s.values = r.values /\ s.failures = r.failures
      /\ s.results = r.results
      /\ s.missing = r.missing /\ s.cells = r.cells /\ s.order = r.order /\ s.baseline = r.baseline /\ s.asked = {}
  BY <1>1 DEF RunFields
<1>3. Preparing(s)
  BY <1>1, <1>2 DEF ArmsOK, Preparing, LinedUp, Untouched
<1> QED
  BY <1>2, <1>3 DEF RunOK

\* Prepare: every benchmark of the suite is left to install.
LEMMA PreparedIs ==
  ASSUME NEW r, RunOK(r), r.at = "preparing", r.suite # "micro", NEW s, s = [r EXCEPT !.at = "installing", !.left = Cases]
  PROVE  RunOK(s)
<1>1. DOMAIN r = RunFields /\ Preparing(r)
  BY DEF RunOK
<1>2. /\ DOMAIN s = RunFields /\ s.at = "installing" /\ s.written = r.written /\ s.values = r.values /\ s.failures = r.failures
      /\ s.results = r.results
      /\ s.missing = r.missing /\ s.cells = r.cells /\ s.order = r.order /\ s.baseline = r.baseline /\ s.asked = r.asked
      /\ s.suite = r.suite /\ s.left = Cases
  BY <1>1 DEF RunFields
<1>3. s.missing = {} /\ s.cells = <<>> /\ LinedUp(s) /\ Untouched(s)
  BY <1>1, <1>2 DEF Preparing, LinedUp, Untouched
<1>4. Dropped(s) = {} /\ OnlyDropped(s) /\ ToSet(s.cells) = {}
  BY <1>3 DEF Dropped, OnlyDropped, ToSet
<1>5. Listing(s.left) /\ Listing(s.cells)
  <2>1. Listing(Cases)
    BY BenchAssumption, OfItsOwn DEF Listing
  <2>2. Listing(<<>>)
    BY DEF Listing, ToSet, IsInjective
  <2> QED
    BY <2>1, <2>2, <1>2, <1>3
<1>6. Installing(s)
  BY <1>1, <1>2, <1>3, <1>4, <1>5 DEF Installing, Preparing, Apart
<1> QED
  BY <1>2, <1>6 DEF RunOK

\* A sequence without repetition takes one that is not in it.
LEMMA ListedOneMore ==
  ASSUME NEW s, Listing(s), NEW x, x \notin ToSet(s)
  PROVE  Listing(Append(s, x)) /\ ToSet(Append(s, x)) = ToSet(s) \cup {x}
<1>1. PICK V : V = ToSet(s) \cup {x}
  OBVIOUS
<1>2. s \in Seq(ToSet(s)) /\ s \in Seq(V) /\ IsInjective(s) /\ x \in V
  <2>1. s \in Seq(ToSet(s)) /\ IsInjective(s)
    BY DEF Listing
  <2> QED
    BY <2>1, <1>1
<1>3. ToSet(Append(s, x)) = ToSet(s) \cup {x} /\ IsInjective(Append(s, x))
  BY <1>2, Appended
<1>4. Append(s, x) \in Seq(V)
  BY <1>2
<1> QED
  BY <1>1, <1>3, <1>4 DEF Listing

\* Install: a benchmark moves from those that are left to the cells...
LEMMA InstalledIs ==
  ASSUME NEW r, RunOK(r), r.at = "installing", r.left # <<>>, NEW s,
         s = [r EXCEPT !.left = Tail(r.left), !.cells = Append(r.cells, Head(r.left))]
  PROVE  RunOK(s)
<1>1. DOMAIN r = RunFields /\ Installing(r)
  BY DEF RunOK
<1>2. /\ DOMAIN s = RunFields /\ s.at = "installing" /\ s.written = r.written /\ s.values = r.values /\ s.failures = r.failures
      /\ s.results = r.results
      /\ s.missing = r.missing /\ s.cells = Append(r.cells, Head(r.left)) /\ s.order = r.order /\ s.baseline = r.baseline /\ s.asked = r.asked
      /\ s.suite = r.suite /\ s.left = Tail(r.left)
  BY <1>1 DEF RunFields
<1>3. /\ LinedUp(s) /\ Untouched(s) /\ Dropped(s) = Dropped(r) /\ OnlyDropped(s) /\ s.asked = {} /\ s.suite # "micro"
  BY <1>1, <1>2 DEF Installing, LinedUp, Untouched, Dropped, OnlyDropped
<1>4. /\ Listing(r.left) /\ Listing(r.cells) /\ Apart(ToSet(r.left), ToSet(r.cells)) /\ Apart(ToSet(r.left), Dropped(r))
      /\ Apart(ToSet(r.cells), Dropped(r)) /\ ToSet(r.left) \cup ToSet(r.cells) \cup Dropped(r) = ToSet(Cases)
  BY <1>1 DEF Installing
<1>5. /\ Listing(s.left) /\ Head(r.left) \notin ToSet(s.left) /\ Head(r.left) \in ToSet(r.left)
      /\ ToSet(r.left) = ToSet(s.left) \cup {Head(r.left)}
  BY <1>2, <1>4, Tailed
<1>6. Head(r.left) \notin ToSet(r.cells)
  BY <1>4, <1>5 DEF Apart
<1>7. Listing(s.cells) /\ ToSet(s.cells) = ToSet(r.cells) \cup {Head(r.left)}
  BY <1>2, <1>4, <1>6, ListedOneMore
<1>8. /\ Apart(ToSet(s.left), ToSet(s.cells)) /\ Apart(ToSet(s.left), Dropped(s)) /\ Apart(ToSet(s.cells), Dropped(s))
      /\ ToSet(s.left) \cup ToSet(s.cells) \cup Dropped(s) = ToSet(Cases)
  BY <1>3, <1>4, <1>5, <1>7 DEF Apart
<1>9. Installing(s)
  BY <1>3, <1>5, <1>7, <1>8 DEF Installing
<1> QED
  BY <1>2, <1>9 DEF RunOK

\* ...or to the missing ones.
LEMMA DroppedIs ==
  ASSUME NEW r, RunOK(r), r.at = "installing", r.left # <<>>, NEW failed, NEW s,
         s = [r EXCEPT !.left = Tail(r.left),
                       !.missing = r.missing \cup {[bench |-> Head(r.left), why |-> "requirements", arms |-> failed]}]
  PROVE  RunOK(s)
<1>1. DOMAIN r = RunFields /\ Installing(r)
  BY DEF RunOK
<1>0. PICK e : e = [bench |-> Head(r.left), why |-> "requirements", arms |-> failed]
  OBVIOUS
<1>7. e.bench = Head(r.left) /\ e.why = "requirements"
  BY <1>0
<1>2. /\ DOMAIN s = RunFields /\ s.at = "installing" /\ s.written = r.written /\ s.values = r.values /\ s.failures = r.failures
      /\ s.results = r.results
      /\ s.missing = r.missing \cup {e} /\ s.cells = r.cells /\ s.order = r.order /\ s.baseline = r.baseline /\ s.asked = r.asked
      /\ s.suite = r.suite /\ s.left = Tail(r.left)
  BY <1>1, <1>0 DEF RunFields
<1>3. /\ LinedUp(s) /\ Untouched(s) /\ OnlyDropped(s) /\ s.asked = {} /\ s.suite # "micro"
  BY <1>1, <1>2, <1>7 DEF Installing, LinedUp, Untouched, OnlyDropped
<1>4. /\ Listing(r.left) /\ Listing(r.cells) /\ Apart(ToSet(r.left), ToSet(r.cells)) /\ Apart(ToSet(r.left), Dropped(r))
      /\ Apart(ToSet(r.cells), Dropped(r)) /\ ToSet(r.left) \cup ToSet(r.cells) \cup Dropped(r) = ToSet(Cases)
  BY <1>1 DEF Installing
<1>5. /\ Listing(s.left) /\ Head(r.left) \notin ToSet(s.left) /\ Head(r.left) \in ToSet(r.left)
      /\ ToSet(r.left) = ToSet(s.left) \cup {Head(r.left)}
  BY <1>2, <1>4, Tailed
<1>6. Dropped(s) = Dropped(r) \cup {Head(r.left)}
  BY <1>2, <1>7 DEF Dropped
<1>8. /\ Apart(ToSet(s.left), ToSet(s.cells)) /\ Apart(ToSet(s.left), Dropped(s)) /\ Apart(ToSet(s.cells), Dropped(s))
      /\ ToSet(s.left) \cup ToSet(s.cells) \cup Dropped(s) = ToSet(Cases)
  BY <1>2, <1>4, <1>5, <1>6 DEF Apart
<1>9. Installing(s)
  BY <1>2, <1>3, <1>4, <1>5, <1>8 DEF Installing
<1> QED
  BY <1>2, <1>9 DEF RunOK

\* The queue holds every benchmark that was not dropped, once per arm.
LEMMA QueuedIs ==
  ASSUME NEW r, DOMAIN r = RunFields, LinedUp(r), Untouched(r), r.asked = {}, OnlyDropped(r),
         r.suite = "micro" => Dropped(r) = {},
         NEW cases, Listing(cases), ToSet(cases) = SuiteOf(r) \ Dropped(r), NEW s,
         s = [r EXCEPT !.at = "measuring", !.cells = Queue(r.order, cases)]
  PROVE  RunOK(s)
<1>2. /\ DOMAIN s = RunFields /\ s.at = "measuring" /\ s.written = r.written /\ s.values = r.values /\ s.failures = r.failures
      /\ s.results = r.results
      /\ s.missing = r.missing /\ s.cells = Queue(r.order, cases) /\ s.order = r.order /\ s.baseline = r.baseline /\ s.asked = r.asked
      /\ s.suite = r.suite
  BY DEF RunFields
<1>3. Listing(r.order)
  BY DEF LinedUp, Listing
<1>4. Listing(s.cells) /\ ToSet(s.cells) = ToSet(cases) \X ToSet(r.order)
  BY <1>2, <1>3, QueueIs
<1>5. LinedUp(s) /\ OnlyDropped(s) /\ Dropped(s) = Dropped(r) /\ SuiteOf(s) = SuiteOf(r)
  BY <1>2 DEF LinedUp, OnlyDropped, Dropped, SuiteOf
<1>6. s.written = 0 /\ s.values = {} /\ s.failures = <<>>
  BY <1>2 DEF Untouched
<1>7. ToSet(s.failures) = {} /\ s.failures \in Seq(ToSet(s.failures))
  <2>1. ToSet(<<>>) = {} /\ <<>> \in Seq({})
    BY DEF ToSet
  <2> QED
    BY <1>6, <2>1
<1>8. ToSet(s.cells) = (SuiteOf(s) \ Dropped(s)) \X ToSet(s.order)
  BY <1>2, <1>4, <1>5
<1>9. CellsOK(s)
  BY <1>2, <1>5, <1>6, <1>7, <1>8 DEF CellsOK, Apart
<1>10. Measuring(s)
  BY <1>2, <1>4, <1>5, <1>6, <1>9 DEF Measuring
<1> QED
  BY <1>2, <1>10 DEF RunOK

\* Account: what was not dropped is queued...
LEMMA AccountedIs ==
  ASSUME NEW r, RunOK(r), r.at = "installing", r.left = <<>>, NEW s,
         s = [r EXCEPT !.at = "measuring", !.cells = Queue(r.order, r.cells)]
  PROVE  RunOK(s)
<1>1. DOMAIN r = RunFields /\ Installing(r)
  BY DEF RunOK
<1>2. /\ LinedUp(r) /\ Untouched(r) /\ r.asked = {} /\ OnlyDropped(r) /\ Listing(r.cells) /\ r.suite # "micro"
      /\ Apart(ToSet(r.cells), Dropped(r)) /\ ToSet(r.left) \cup ToSet(r.cells) \cup Dropped(r) = ToSet(Cases)
  BY <1>1 DEF Installing
<1>3. ToSet(r.left) = {}
  BY DEF ToSet
<1>4. ToSet(r.cells) = SuiteOf(r) \ Dropped(r)
  BY <1>2, <1>3 DEF SuiteOf, Apart
<1> QED
  BY <1>1, <1>2, <1>4, QueuedIs

\* ...and of the built-in suite nothing is dropped.
LEMMA AccountedMicroIs ==
  ASSUME NEW r, RunOK(r), r.at = "preparing", r.suite = "micro", NEW s,
         s = [r EXCEPT !.at = "measuring", !.cells = Queue(r.order, <<"micro">>)]
  PROVE  RunOK(s) /\ r.missing = {}
<1>1. DOMAIN r = RunFields /\ Preparing(r)
  BY DEF RunOK
<1>2. LinedUp(r) /\ Untouched(r) /\ r.asked = {} /\ r.missing = {}
  BY <1>1 DEF Preparing
<1>3. OnlyDropped(r) /\ Dropped(r) = {}
  BY <1>2 DEF OnlyDropped, Dropped
<1>4. PICK m : m = "micro"
  OBVIOUS
<1>5. ToSet(<<m>>) = {m} /\ <<m>> \in Seq({m}) /\ IsInjective(<<m>>)
  BY DEF ToSet, IsInjective
<1>6. Listing(<<m>>)
  BY <1>5 DEF Listing
<1>7. SuiteOf(r) = {m}
  BY <1>4 DEF SuiteOf
<1>8. ToSet(<<m>>) = SuiteOf(r) \ Dropped(r)
  BY <1>3, <1>5, <1>7
<1>9. s = [r EXCEPT !.at = "measuring", !.cells = Queue(r.order, <<m>>)]
  BY <1>4
<1> QED
  BY <1>1, <1>2, <1>3, <1>6, <1>8, <1>9, QueuedIs

--------------------------------------------------------------------------------
(* The measurements and the end.                                              *)

\* One more element.
LEMMA Tailless == ASSUME NEW V, NEW s \in Seq(V), NEW x PROVE Append(s, x) \in Seq(V \cup {x})
<1>1. s \in Seq(V \cup {x})
  OBVIOUS
<1> QED
  BY <1>1

\* A cell that is measured leaves the queue for the numbers or for the failures.
LEMMA CellMoves ==
  ASSUME NEW r, CellsOK(r), Listing(r.cells), r.cells # <<>>, NEW s, NEW good \in BOOLEAN,
         s.suite = r.suite, s.missing = r.missing, s.order = r.order, s.cells = Tail(r.cells),
         s.values = IF good THEN r.values \cup {Head(r.cells)} ELSE r.values,
         s.failures = IF good THEN r.failures ELSE Append(r.failures, Head(r.cells))
  PROVE  CellsOK(s) /\ Listing(s.cells)
<1>1. PICK h : h = Head(r.cells)
  OBVIOUS
<1>2. PICK C : C = ToSet(r.cells)
  OBVIOUS
<1>3. PICK D : D = ToSet(s.cells)
  OBVIOUS
<1>4. PICK F : F = ToSet(r.failures)
  OBVIOUS
<1>5. PICK A : A = (SuiteOf(r) \ Dropped(r)) \X ToSet(r.order)
  OBVIOUS
<1>6. Listing(s.cells) /\ h \notin D /\ h \in C /\ C = D \cup {h}
  BY <1>1, <1>2, <1>3, Tailed
<1>7. /\ Apart(C, r.values) /\ Apart(C, F) /\ Apart(r.values, F) /\ C \cup r.values \cup F = A
      /\ r.failures \in Seq(F)
  BY <1>2, <1>4, <1>5 DEF CellsOK
<1>11. s.suite = "micro" => Dropped(s) = {}
  BY DEF CellsOK, Dropped
<1>8. (SuiteOf(s) \ Dropped(s)) \X ToSet(s.order) = A
  BY <1>5 DEF SuiteOf, Dropped
<1>9. PICK G : G = ToSet(s.failures)
  OBVIOUS
<1>10. /\ Apart(D, s.values) /\ Apart(D, G) /\ Apart(s.values, G) /\ D \cup s.values \cup G = A
       /\ s.failures \in Seq(G)
  <2>1. CASE good
    <3>1. s.values = r.values \cup {h} /\ G = F /\ s.failures = r.failures
      BY <2>1, <1>1, <1>4, <1>9
    <3>2. Apart(D, s.values) /\ Apart(D, G) /\ Apart(s.values, G) /\ D \cup s.values \cup G = A
      BY <3>1, <1>6, <1>7 DEF Apart
    <3> QED
      BY <3>1, <3>2, <1>7
  <2>2. CASE ~good
    <3>1. s.values = r.values /\ s.failures = Append(r.failures, h)
      BY <2>2, <1>1
    <3>2. ToSet(s.failures) = F \cup {h}
      <4>1. r.failures \in Seq(F) /\ ToSet(r.failures) = F
        BY <1>4, <1>7
      <4>2. PICK W : W = F \cup {h}
        OBVIOUS
      <4>3. r.failures \in Seq(W) /\ h \in W
        BY ONLY <4>1, <4>2
      <4>4. ToSet(Append(r.failures, h)) = ToSet(r.failures) \cup {h}
        BY ONLY <4>3, Appended
      <4> QED
        BY ONLY <3>1, <4>1, <4>4
    <3>3. s.failures \in Seq(G)
      <4>1. Append(r.failures, h) \in Seq(F \cup {h})
        BY <1>7, Tailless
      <4> QED
        BY ONLY <3>1, <3>2, <1>9, <4>1
    <3>4. Apart(D, s.values) /\ Apart(D, G) /\ Apart(s.values, G) /\ D \cup s.values \cup G = A
      BY <3>1, <3>2, <1>6, <1>7, <1>9 DEF Apart
    <3> QED
      BY <3>3, <3>4
  <2> QED
    BY <2>1, <2>2
<1> QED
  BY <1>3, <1>6, <1>8, <1>9, <1>10, <1>11 DEF CellsOK

\* A cell that is measured, of either suite; one that fails of the built-in
\* suite ends the command.
LEMMA MeasuredIs ==
  ASSUME NEW r, RunOK(r), r.at = "measuring", r.cells # <<>>, NEW s, NEW good \in BOOLEAN, NEW times \in Nat,
         DOMAIN s = RunFields, s.at \in {"measuring", "failed"}, s.suite = r.suite, s.missing = r.missing, s.order = r.order,
         s.baseline = r.baseline, s.asked = r.asked, s.cells = Tail(r.cells), s.written = r.written + times,
         s.values = IF good THEN r.values \cup {Head(r.cells)} ELSE r.values,
         s.at = "measuring" => s.failures = IF good THEN r.failures ELSE Append(r.failures, Head(r.cells))
  PROVE  RunOK(s)
<1>1. LinedUp(r) /\ r.asked = {} /\ r.written \in Nat /\ Listing(r.cells) /\ OnlyDropped(r) /\ CellsOK(r)
  BY DEF RunOK, Measuring
<1>2. CASE s.at = "measuring"
  <2>1. CellsOK(s) /\ Listing(s.cells)
    BY <1>1, <1>2, CellMoves
  <2>2. LinedUp(s) /\ OnlyDropped(s) /\ s.written \in Nat
    BY <1>1 DEF LinedUp, OnlyDropped
  <2>3. Measuring(s)
    BY <1>1, <2>1, <2>2 DEF Measuring
  <2> QED
    BY <1>2, <2>3 DEF RunOK
<1>3. CASE s.at = "failed"
  BY <1>3 DEF RunOK
<1> QED
  BY <1>2, <1>3

\* What is lost at runtime is not what was dropped.
LEMMA SummaryIs == ASSUME NEW f, NEW e \in SummarizeFailures(f) PROVE e.why = "runtime"
  BY DEF SummarizeFailures

\* Finish: what was lost joins what was dropped.
LEMMA FinishedIs ==
  ASSUME NEW r, RunOK(r), r.at = "measuring", r.cells = <<>>, NEW s,
         s = [r EXCEPT !.at = "done", !.missing = r.missing \cup SummarizeFailures(r.failures)]
  PROVE  RunOK(s)
<1>1. DOMAIN r = RunFields /\ LinedUp(r) /\ r.asked = {} /\ OnlyDropped(r) /\ CellsOK(r)
  BY DEF RunOK, Measuring
<1>0. PICK M : M = SummarizeFailures(r.failures)
  OBVIOUS
<1>2. /\ DOMAIN s = RunFields /\ s.at = "done" /\ s.values = r.values /\ s.failures = r.failures
      /\ s.results = r.results
      /\ s.missing = r.missing \cup M /\ s.cells = r.cells /\ s.order = r.order /\ s.baseline = r.baseline /\ s.asked = r.asked
      /\ s.suite = r.suite
  BY <1>1, <1>0 DEF RunFields
<1>3. \A e \in M : e.why = "runtime"
  BY <1>0, SummaryIs
<1>4. Dropped(s) = Dropped(r)
  BY <1>2, <1>3 DEF Dropped
<1>5. CellsOK(s)
  <2>1. SuiteOf(s) = SuiteOf(r)
    BY <1>2 DEF SuiteOf
  <2> QED
    BY <1>1, <1>2, <1>4, <2>1 DEF CellsOK
<1>6. LinedUp(s)
  BY <1>1, <1>2 DEF LinedUp
<1>7. SummarizeFailures(s.failures) = M
  BY <1>2, <1>0
<1>8. \A e \in s.missing : e.why = "requirements" \/ e \in M
  BY <1>1, <1>2 DEF OnlyDropped
<1>9. Reported(s)
  BY <1>1, <1>2, <1>5, <1>6, <1>7, <1>8 DEF Reported
<1> QED
  BY <1>2, <1>9 DEF RunOK

\* A command that is killed keeps its account.
LEMMA KilledIs ==
  ASSUME NEW r, RunOK(r), r.at \in {"chosen", "preparing", "installing", "measuring"},
         NEW s, s = [r EXCEPT !.at = "killed"]
  PROVE  RunOK(s)
<1>1. DOMAIN r = RunFields
  BY DEF RunOK
<1>2. /\ DOMAIN s = RunFields /\ s.at = "killed" /\ s.values = r.values /\ s.failures = r.failures
      /\ s.results = r.results
      /\ s.missing = r.missing /\ s.cells = r.cells /\ s.order = r.order /\ s.suite = r.suite
      /\ s.asked = r.asked /\ s.baseline = r.baseline
  BY <1>1 DEF RunFields
<1>3. CASE r.at # "measuring"
  <2>1. s.values = {}
    BY <1>2, <1>3 DEF RunOK, ArmsOK, Preparing, Installing, Untouched
  <2> QED
    BY <1>2, <2>1 DEF RunOK
<1>4. CASE r.at = "measuring"
  <2>1. LinedUp(r) /\ r.asked = {} /\ CellsOK(r) /\ OnlyDropped(r)
    BY <1>4 DEF RunOK, Measuring
  <2>2. LinedUp(s) /\ CellsOK(s) /\ OnlyDropped(s)
    <3>1. SuiteOf(s) = SuiteOf(r) /\ Dropped(s) = Dropped(r)
      BY <1>2 DEF SuiteOf, Dropped
    <3>2. OnlyDropped(s)
      BY <1>2, <2>1 DEF OnlyDropped
    <3>3. CellsOK(s)
      BY <1>2, <2>1, <3>1 DEF CellsOK
    <3>4. LinedUp(s)
      BY <1>2, <2>1 DEF LinedUp
    <3> QED
      BY <3>2, <3>3, <3>4
  <2> QED
    BY <1>2, <2>1, <2>2 DEF RunOK
<1> QED
  BY <1>3, <1>4

--------------------------------------------------------------------------------
(* What a step does to the sessions.                                          *)

\* Whoever has the same numbers and the same raw files has them filed as well.
LEMMA SameFiled ==
  ASSUME NEW r, NEW s, NEW f, NEW g, Filed(r, f), g.raw = f.raw, s.suite = r.suite, s.values = r.values,
         s.results = r.results, s.failures = r.failures
  PROVE  Filed(s, g)
<1>1. \A v : Left(s, g, v) = Left(r, f, v)
  BY DEF Left
<1> QED
  BY <1>1 DEF Filed

\* Likewise of the processes that were confined.
LEMMA SameConfined ==
  ASSUME NEW r, NEW s, NEW f, NEW g, Confined(r, f), g.timeline = f.timeline, s.suite = r.suite, s.pinned = r.pinned
  PROVE  Confined(s, g)
  BY DEF Confined

\* A cell that is measured is filed by what its file names.
LEMMA FiledMore ==
  ASSUME NEW r, NEW s, NEW f, NEW g, NEW h, NEW good \in BOOLEAN, Filed(r, g), h \notin r.values,
         h \notin ToSet(r.failures), s.values = IF good THEN r.values \cup {h} ELSE r.values,
         ToSet(s.failures) = IF good THEN ToSet(r.failures) ELSE ToSet(r.failures) \cup {h},
         s.results = IF good THEN r.results \cup {<<h[2], n>> : n \in Left(s, f, h).timed} ELSE r.results,
         \A v : v # h => Left(s, f, v) = Left(r, g, v), good <=> Left(s, f, h).names # {},
         DOMAIN f.raw \subseteq DOMAIN g.raw \cup {h}, Left(s, f, h).timed \subseteq Left(s, f, h).names
  PROVE  Filed(s, f)
<1>1. \A v \in s.values : Left(s, f, v).names # {}
  BY DEF Filed
<1>2. \A v \in ToSet(s.failures) : Left(s, f, v).names = {} /\ Left(s, f, v).timed = {}
  BY DEF Filed
<1>3. DOMAIN f.raw \subseteq s.values \cup ToSet(s.failures)
  BY DEF Filed
<1>4. s.results = UNION {{<<v[2], n>> : n \in Left(s, f, v).timed} : v \in s.values}
  <2> DEFINE Old(v) == {<<v[2], n>> : n \in Left(r, g, v).timed}
             New(v) == {<<v[2], n>> : n \in Left(s, f, v).timed}
  <2>1. \A v \in r.values : New(v) = Old(v)
    OBVIOUS
  <2>2. r.results = UNION {Old(v) : v \in r.values}
    BY DEF Filed
  <2>3. s.results = IF good THEN r.results \cup New(h) ELSE r.results
    OBVIOUS
  <2>4. s.results = UNION {New(v) : v \in s.values}
    <3> HIDE DEF Old, New
    <3> QED
      BY <2>1, <2>2, <2>3
  <2> QED
    BY <2>4
<1> QED
  BY <1>1, <1>2, <1>3, <1>4 DEF Filed

Shaped(f) == DOMAIN f = SessionFields /\ (f.report # {} => f.accounting # {})
\* No other command has the session directory t.
NoOther(c, t) == \A d \in Commands \ {c} : Opened(d) => run[d].stamp # t

\* What is written after the first w records of the timeline keeps them.
LEMMA RecordedIs ==
  ASSUME NEW f, NEW g, NEW w \in Nat, NEW times \in Nat \ {0}, NEW event, DOMAIN f.timeline \subseteq 1..w,
         g.timeline = Over([i \in w + 1 .. w + times |-> event], f.timeline)
  PROVE  /\ DOMAIN g.timeline \subseteq 1..(w + times)
         /\ GoodCells(f) \subseteq GoodCells(g)
         /\ event.ok => event.cell \in GoodCells(g)
         /\ event.confined /\ (\A e \in Range(f.timeline) : e.confined) => \A e \in Range(g.timeline) : e.confined
<1>1. PICK line : line = f.timeline
  OBVIOUS
<1>2. PICK more : more = g.timeline
  OBVIOUS
<1>3. PICK new : new = [i \in w + 1 .. w + times |-> event]
  OBVIOUS
<1>4. DOMAIN new = w + 1 .. w + times /\ \A i \in w + 1 .. w + times : new[i] = event
  BY <1>3
<1>5. DOMAIN line \subseteq 1..w /\ more = Over(new, line)
  BY <1>1, <1>2, <1>3
<1>6. /\ DOMAIN more = DOMAIN new \cup DOMAIN line
      /\ \A k \in DOMAIN new : more[k] = new[k]
      /\ \A k \in DOMAIN line : k \notin DOMAIN new => more[k] = line[k]
  BY <1>5 DEF Over
<1>7. DOMAIN more \subseteq 1..(w + times)
  BY <1>4, <1>5, <1>6
<1>8. \A k \in DOMAIN line : k \notin DOMAIN new
  BY <1>4, <1>5
<1>9. Range(line) \subseteq Range(more)
  BY <1>6, <1>8 DEF Range
<1>10. event \in Range(more)
  <2>1. w + 1 \in DOMAIN new
    BY <1>4
  <2> QED
    BY <2>1, <1>4, <1>6 DEF Range
<1>11. GoodCells(f) = {e.cell : e \in {x \in Range(line) : x.ok}}
  BY <1>1, Zenon DEF GoodCells
<1>12. GoodCells(g) = {e.cell : e \in {x \in Range(more) : x.ok}}
  BY <1>2, Zenon DEF GoodCells
<1>13. GoodCells(f) \subseteq GoodCells(g)
  BY <1>9, <1>11, <1>12, Zenon
<1>14. event.ok => event.cell \in GoodCells(g)
  BY <1>10, <1>12, Zenon
<1>15. \A e \in Range(more) : e = event \/ e \in Range(line)
  BY <1>4, <1>6 DEF Range
<1>16. event.confined /\ (\A e \in Range(f.timeline) : e.confined) => \A e \in Range(g.timeline) : e.confined
  BY <1>1, <1>2, <1>15, Zenon
<1> QED
  BY <1>2, <1>7, <1>13, <1>14, <1>16, Zenon

\* A command's step touches its own session only.
LEMMA StepFrame ==
  ASSUME BenchInv, NEW c \in Commands, NEW s, run' = [run EXCEPT ![c] = s], RunOK(s), s.at # "idle",
         Opened(c) => s.asked = {} /\ s.stamp = run[c].stamp,
         DOMAIN sessions \subseteq DOMAIN sessions',
         \A u \in DOMAIN sessions' : (u \in DOMAIN sessions /\ sessions'[u] = sessions[u]) \/ (s.asked = {} /\ u = s.stamp),
         s.asked = {} => s.stamp \in DOMAIN sessions' /\ Shaped(sessions'[s.stamp]),
         s.asked = {} /\ NoOther(c, s.stamp) => SessionOK(s, sessions'[s.stamp])
  PROVE  BenchInv'
<1>1. /\ DOMAIN run = Commands /\ \A d \in Commands : RunOK(run[d])
      /\ \A u \in DOMAIN sessions : Shaped(sessions[u])
      /\ \A u \in DOMAIN sessions : \E d \in Commands : Opened(d) /\ run[d].stamp = u
      /\ \A d \in Commands : Opened(d) => run[d].stamp \in DOMAIN sessions
      /\ \A d \in Commands : Opened(d) /\ OwnSession(d) => SessionOK(run[d], sessions[run[d].stamp])
  BY DEF BenchInv, Shaped
<1>2. DOMAIN run' = Commands /\ run'[c] = s /\ \A d \in Commands \ {c} : run'[d] = run[d]
  BY <1>1
<1>3. (Opened(c)' <=> s.asked = {}) /\ \A d \in Commands \ {c} : Opened(d)' <=> Opened(d)
  BY <1>2 DEF Opened
<1>4. \A d \in Commands : RunOK(run'[d])
  BY <1>1, <1>2
<1>5. \A u \in DOMAIN sessions' : Shaped(sessions'[u])
  BY <1>1
<1>6. ASSUME NEW u \in DOMAIN sessions' PROVE \E d \in Commands : Opened(d)' /\ run'[d].stamp = u
  <2>1. CASE s.asked = {} /\ u = s.stamp
    BY <2>1, <1>2, <1>3
  <2>2. CASE u \in DOMAIN sessions
    <3>1. PICK d \in Commands : Opened(d) /\ run[d].stamp = u
      BY <2>2, <1>1
    <3>2. CASE d = c
      BY <3>1, <3>2, <1>2, <1>3
    <3>3. CASE d # c
      BY <3>1, <3>3, <1>2, <1>3
    <3> QED
      BY <3>2, <3>3
  <2> QED
    BY <2>1, <2>2
<1>7. ASSUME NEW d \in Commands, Opened(d)' PROVE run'[d].stamp \in DOMAIN sessions'
  BY <1>1, <1>2, <1>3, <1>7
<1>8. ASSUME NEW d \in Commands, Opened(d)', OwnSession(d)' PROVE SessionOK(run'[d], sessions'[run'[d].stamp])
  <2>0. \A e \in Commands \ {d} : Opened(e)' => run'[e].stamp # run'[d].stamp
    BY <1>8 DEF OwnSession
  <2>1. CASE d = c
    <3>1. NoOther(c, s.stamp)
      BY <2>0, <2>1, <1>2, <1>3 DEF NoOther
    <3> QED
      BY <3>1, <2>1, <1>2, <1>3, <1>8
  <2>2. CASE d # c
    <3>1. Opened(d) /\ run'[d] = run[d] /\ run[d].stamp \in DOMAIN sessions /\ run[d].stamp \in DOMAIN sessions'
      BY <2>2, <1>1, <1>2, <1>3, <1>8
    <3>2. s.asked = {} => s.stamp # run[d].stamp
      BY <2>0, <2>2, <1>2, <1>3
    <3>3. sessions'[run[d].stamp] = sessions[run[d].stamp]
      BY <3>1, <3>2
    <3>4. OwnSession(d)
      <4>1. SUFFICES ASSUME NEW e \in Commands \ {d}, Opened(e) PROVE run[e].stamp # run[d].stamp
        BY DEF OwnSession
      <4>2. CASE e = c
        BY <4>1, <4>2, <3>2
      <4>3. CASE e # c
        BY <4>1, <4>3, <2>0, <3>1, <1>2, <1>3
      <4> QED
        BY <4>2, <4>3
    <3> QED
      BY <3>1, <3>3, <3>4, <1>1
  <2> QED
    BY <2>1, <2>2
<1> QED
  BY <1>2, <1>4, <1>5, <1>6, <1>7, <1>8 DEF BenchInv, Shaped

\* A step of a command that has its session, and writes f there.
WritesIn(c, s, f) ==
  /\ Opened(c) /\ run' = [run EXCEPT ![c] = s] /\ RunOK(s) /\ s.at # "idle"
  /\ s.asked = {} /\ s.stamp = run[c].stamp /\ Shaped(f)
  /\ DOMAIN sessions' = DOMAIN sessions /\ sessions'[s.stamp] = f
  /\ \A u \in DOMAIN sessions : u # s.stamp => sessions'[u] = sessions[u]
  /\ OwnSession(c) => SessionOK(s, f)

\* Such a step keeps the invariant.
LEMMA StepInPlace == ASSUME BenchInv, NEW c \in Commands, NEW s, NEW f, WritesIn(c, s, f) PROVE BenchInv'
<1>0. /\ Opened(c) /\ run' = [run EXCEPT ![c] = s] /\ RunOK(s) /\ s.at # "idle"
      /\ s.asked = {} /\ s.stamp = run[c].stamp /\ Shaped(f)
      /\ DOMAIN sessions' = DOMAIN sessions /\ sessions'[s.stamp] = f
      /\ \A u \in DOMAIN sessions : u # s.stamp => sessions'[u] = sessions[u]
      /\ OwnSession(c) => SessionOK(s, f)
  BY DEF WritesIn
<1>1. s.stamp \in DOMAIN sessions'
  BY <1>0 DEF BenchInv
<1>2. NoOther(c, s.stamp) => OwnSession(c)
  BY <1>0 DEF NoOther, OwnSession
<1>3. \A u \in DOMAIN sessions' : (u \in DOMAIN sessions /\ sessions'[u] = sessions[u]) \/ (s.asked = {} /\ u = s.stamp)
  BY <1>0
<1>4. s.asked = {} /\ NoOther(c, s.stamp) => SessionOK(s, sessions'[s.stamp])
  BY <1>0, <1>2
<1>5. s.asked = {} => s.stamp \in DOMAIN sessions' /\ Shaped(sessions'[s.stamp])
  BY <1>0, <1>1
<1> QED
  BY <1>0, <1>3, <1>4, <1>5, StepFrame

\* A step of a command that leaves its session alone.
LEMMA StepAlone ==
  ASSUME BenchInv, NEW c \in Commands, NEW s, run' = [run EXCEPT ![c] = s], RunOK(s), sessions' = sessions,
         s.at \in {"preparing", "installing", "failed", "killed"}, run[c].at \notin {"idle", "done"},
         s.written = run[c].written, s.values = run[c].values, s.asked = run[c].asked, s.stamp = run[c].stamp,
         s.suite = run[c].suite, s.pinned = run[c].pinned, s.results = run[c].results, s.failures = run[c].failures,
         s.at = "killed" /\ s.values # {} => run[c].at = "measuring" /\ s.missing = run[c].missing
  PROVE  BenchInv'
<1>1. CASE s.asked # {}
  <2>1. ~Opened(c)
    BY <1>1 DEF Opened
  <2>2. /\ DOMAIN sessions \subseteq DOMAIN sessions'
        /\ \A u \in DOMAIN sessions' : (u \in DOMAIN sessions /\ sessions'[u] = sessions[u]) \/ (s.asked = {} /\ u = s.stamp)
    OBVIOUS
  <2> QED
    BY <1>1, <2>1, <2>2, StepFrame
<1>2. CASE s.asked = {}
  <2>1. Opened(c)
    BY <1>2 DEF Opened
  <2>2. PICK f : f = sessions[run[c].stamp]
    OBVIOUS
  <2>3. Shaped(f) /\ s.stamp \in DOMAIN sessions
    BY <2>1, <2>2 DEF BenchInv, Shaped
  <2>4. ASSUME OwnSession(c) PROVE SessionOK(s, f)
    <3>1. SessionOK(run[c], f)
      BY <2>1, <2>2, <2>4 DEF BenchInv
    <3>2. f.report = {}
      BY <3>1 DEF SessionOK
    <3>3. Filed(s, f)
      BY <3>1, SameFiled DEF SessionOK
    <3>4. Confined(s, f)
      BY <3>1, SameConfined DEF SessionOK
    <3> QED
      BY <3>1, <3>2, <3>3, <3>4 DEF SessionOK
  <2>5. WritesIn(c, s, f)
    BY <1>2, <2>1, <2>2, <2>3, <2>4 DEF WritesIn
  <2> QED
    BY <2>5, StepInPlace
<1> QED
  BY <1>1, <1>2

--------------------------------------------------------------------------------
(* Every action keeps the invariant.                                          *)

\* Before any command there is no session.
LEMMA BeganWell == BenchInit => BenchInv
<1> SUFFICES ASSUME BenchInit PROVE BenchInv
  OBVIOUS
<1>1. run = [c \in Commands |-> Idle] /\ sessions = <<>>
  BY DEF BenchInit
<1>2. DOMAIN run = Commands /\ (\A c \in Commands : run[c] = Idle) /\ DOMAIN sessions = {}
  BY <1>1
<1>3. DOMAIN Idle = RunFields /\ Idle.at = "idle"
  BY DEF Idle, RunFields
<1>4. RunOK(Idle)
  BY <1>3 DEF RunOK
<1>5. \A c \in Commands : ~Opened(c)
  BY <1>2, <1>3 DEF Opened
<1> QED
  BY <1>2, <1>4, <1>5 DEF BenchInv

\* A command that chooses its arms has no session yet.
LEMMA ArmsAreChosen ==
  ASSUME BenchInv, NEW c \in Commands, NEW suite, NEW q \in Lineups, NEW machine \in Machines, NEW flags,
         NEW allowed, ChooseArms(c, suite, q, machine, flags, allowed)
  PROVE  BenchInv'
<1>1. PICK l : l = Lineup(q)
  OBVIOUS
<1>2. PICK p : p = ChoosePin(machine, flags, allowed)
  OBVIOUS
<1>3. PICK a : a = [q |-> q, machine |-> machine, flags |-> flags, pin |-> p, paths |-> l.path]
  OBVIOUS
<1>4. PICK at : at = IF l.refused \/ p.refused THEN "failed" ELSE "chosen"
  OBVIOUS
<1>5. PICK s : s = [Idle EXCEPT !.at = at, !.suite = suite, !.asked = {a}, !.pinned = p.applied, !.order = l.order,
                           !.baseline = l.baseline]
  OBVIOUS
<1>6. run' = [run EXCEPT ![c] = s] /\ sessions' = sessions /\ run[c].at = "idle"
  BY <1>1, <1>2, <1>3, <1>4, <1>5 DEF ChooseArms, Goes
<1>7. DOMAIN s = RunFields /\ s.at = at /\ s.asked = {a} /\ s.asked # {} /\ at # "idle"
  BY <1>4, <1>5 DEF Idle, RunFields
<1>8. RunOK(s)
  <2>1. CASE l.refused \/ p.refused
    <3>1. at = "failed"
      BY <1>4, <2>1
    <3> QED
      BY <1>7, <3>1, FailedIs
  <2>2. CASE ~l.refused /\ ~p.refused
    <3>1. s = [Idle EXCEPT !.at = "chosen", !.suite = suite,
                 !.asked = {[q |-> q, machine |-> machine, flags |-> flags, pin |-> p, paths |-> l.path]},
                 !.pinned = p.applied, !.order = l.order, !.baseline = l.baseline]
      BY <1>3, <1>4, <1>5, <2>2
    <3> QED
      BY <1>1, <1>2, <2>2, <3>1, ChosenIs
  <2> QED
    BY <2>1, <2>2
<1>9. ~Opened(c)
  BY <1>6 DEF Opened
<1>10. /\ DOMAIN sessions \subseteq DOMAIN sessions'
       /\ \A u \in DOMAIN sessions' : (u \in DOMAIN sessions /\ sessions'[u] = sessions[u]) \/ (s.asked = {} /\ u = s.stamp)
  BY <1>6
<1> QED
  BY <1>6, <1>7, <1>8, <1>9, <1>10, StepFrame

\* The session that is opened is empty, or one that another command has too.
LEMMA SessionIsOpened ==
  ASSUME BenchInv, NEW c \in Commands, OpenSession(c)
  PROVE  BenchInv'
<1>1. PICK r : r = run[c]
  OBVIOUS
<1>2. PICK s : s = [r EXCEPT !.at = "preparing", !.asked = {}, !.stamp = clock]
  OBVIOUS
<1>3. r.at = "chosen" /\ run' = [run EXCEPT ![c] = s]
  BY <1>1, <1>2 DEF OpenSession, Goes
<1>4. RunOK(r) /\ DOMAIN r = RunFields /\ ArmsOK(r)
  BY <1>1, <1>3 DEF BenchInv, RunOK
<1>5. s.at = "preparing" /\ s.asked = {} /\ s.stamp = clock /\ s.written = r.written /\ s.values = r.values
      /\ s.results = r.results /\ s.failures = r.failures
  BY <1>2, <1>4 DEF RunFields
<1>6. RunOK(s)
  BY <1>2, <1>3, <1>4, OpenedIs
<1>7. ~Opened(c)
  BY <1>1, <1>4 DEF Opened, ArmsOK
<1>8. PICK there : there = IF clock \in DOMAIN sessions THEN sessions[clock] ELSE NoFiles
  OBVIOUS
<1>9. PICK f : f = [there EXCEPT !.timeline = <<>>]
  OBVIOUS
<1>10. sessions' = With(sessions, clock, f)
  BY <1>8, <1>9 DEF OpenSession
<1>11. /\ DOMAIN sessions' = DOMAIN sessions \cup {clock} /\ sessions'[clock] = f
       /\ \A u \in DOMAIN sessions : u # clock => sessions'[u] = sessions[u]
  BY <1>10 DEF With
<1>12. Shaped(there)
  <2>1. Shaped(NoFiles)
    BY DEF Shaped, NoFiles, SessionFields
  <2> QED
    BY <1>8, <2>1 DEF BenchInv, Shaped
<1>13. /\ Shaped(f) /\ f.timeline = <<>> /\ f.raw = there.raw /\ f.report = there.report /\ f.accounting = there.accounting
  BY <1>9, <1>12 DEF Shaped, SessionFields
<1>14. ASSUME NoOther(c, s.stamp) PROVE SessionOK(s, f)
  <2>1. clock \notin DOMAIN sessions
    <3>1. SUFFICES ASSUME clock \in DOMAIN sessions PROVE FALSE
      OBVIOUS
    <3>2. PICK d \in Commands : Opened(d) /\ run[d].stamp = clock
      BY <3>1 DEF BenchInv
    <3> QED
      BY <3>2, <1>5, <1>7, <1>14 DEF NoOther
  <2>2. there = NoFiles
    BY <1>8, <2>1
  <2>3. DOMAIN f.raw = {} /\ f.report = {}
    BY <1>13, <2>2 DEF NoFiles
  <2>4. s.written = 0 /\ s.values = {} /\ s.results = {} /\ s.failures = <<>>
    BY <1>4, <1>5 DEF ArmsOK, Untouched
  <2>6. Filed(s, f)
    <3>1. ToSet(s.failures) = {}
      BY <2>4 DEF ToSet
    <3> QED
      BY <2>3, <2>4, <3>1 DEF Filed
  <2>5. DOMAIN f.timeline \subseteq 1..s.written
    BY <1>13, <2>4
  <2>7. Confined(s, f)
    BY <1>13 DEF Confined, Range
  <2> QED
    BY <1>5, <2>3, <2>4, <2>5, <2>6, <2>7 DEF SessionOK
<1>15. /\ DOMAIN sessions \subseteq DOMAIN sessions'
       /\ \A u \in DOMAIN sessions' : (u \in DOMAIN sessions /\ sessions'[u] = sessions[u]) \/ (s.asked = {} /\ u = s.stamp)
       /\ s.asked = {} => s.stamp \in DOMAIN sessions' /\ Shaped(sessions'[s.stamp])
       /\ s.asked = {} /\ NoOther(c, s.stamp) => SessionOK(s, sessions'[s.stamp])
  BY <1>5, <1>11, <1>13, <1>14
<1> QED
  BY <1>3, <1>5, <1>6, <1>7, <1>15, StepFrame

\* Preparation touches no session...
LEMMA ArmsArePrepared ==
  ASSUME BenchInv, NEW c \in Commands, NEW ok \in BOOLEAN, Prepare(c, ok)
  PROVE  BenchInv'
<1>1. PICK r : r = run[c]
  OBVIOUS
<1>2. PICK s : s = IF ok THEN [r EXCEPT !.at = "installing", !.left = Cases] ELSE [r EXCEPT !.at = "failed"]
  OBVIOUS
<1>3. r.at = "preparing" /\ r.suite = "pyperformance" /\ run' = [run EXCEPT ![c] = s] /\ sessions' = sessions
  BY <1>1, <1>2 DEF Prepare, Goes
<1>4. RunOK(r) /\ DOMAIN r = RunFields
  BY <1>1 DEF BenchInv, RunOK
<1>5. /\ DOMAIN s = RunFields /\ s.at \in {"installing", "failed"}
      /\ s.written = r.written /\ s.values = r.values /\ s.asked = r.asked /\ s.stamp = r.stamp
      /\ s.suite = r.suite /\ s.pinned = r.pinned /\ s.results = r.results /\ s.failures = r.failures
  BY <1>2, <1>4 DEF RunFields
<1>6. RunOK(s)
  <2>1. CASE ok
    <3>1. s = [r EXCEPT !.at = "installing", !.left = Cases]
      BY <1>2, <2>1
    <3> QED
      BY <1>3, <1>4, <3>1, PreparedIs
  <2>2. CASE ~ok
    <3>1. s.at = "failed"
      BY <1>2, <1>4, <2>2 DEF RunFields
    <3> QED
      BY <1>5, <3>1, FailedIs
  <2> QED
    BY <2>1, <2>2
<1> QED
  BY <1>1, <1>3, <1>5, <1>6, StepAlone

\* ...nor does installation...
LEMMA RequirementsAreInstalled ==
  ASSUME BenchInv, NEW c \in Commands, NEW failed, Install(c, failed)
  PROVE  BenchInv'
<1>1. PICK r : r = run[c]
  OBVIOUS
<1>0. PICK h : h = Head(r.left)
  OBVIOUS
<1>2. PICK s : s = IF failed = {} THEN [r EXCEPT !.left = Tail(r.left), !.cells = Append(r.cells, h)]
                   ELSE [r EXCEPT !.left = Tail(r.left),
                                  !.missing = r.missing \cup {[bench |-> h, why |-> "requirements", arms |-> failed]}]
  OBVIOUS
<1>4. RunOK(r) /\ DOMAIN r = RunFields
  BY <1>1 DEF BenchInv, RunOK
<1>3. r.at = "installing" /\ r.left # <<>> /\ run' = [run EXCEPT ![c] = s] /\ sessions' = sessions
  <2>1. r.at = "installing" /\ r.left # <<>> /\ sessions' = sessions
    BY <1>1 DEF Install
  <2>2. Goes(c, IF failed = {} THEN [r EXCEPT !.left = Tail(@), !.cells = Append(@, h)]
                ELSE [r EXCEPT !.left = Tail(@), !.missing = @ \cup {[bench |-> h, why |-> "requirements", arms |-> failed]}])
    BY <1>1, <1>0 DEF Install
  <2>3. CASE failed = {}
    <3>1. Goes(c, [r EXCEPT !.left = Tail(@), !.cells = Append(@, h)])
      BY <2>2, <2>3
    <3>2. [r EXCEPT !.left = Tail(@), !.cells = Append(@, h)] = [r EXCEPT !.left = Tail(r.left), !.cells = Append(r.cells, h)]
      BY <1>4 DEF RunFields
    <3> QED
      BY <2>1, <2>3, <3>1, <3>2, <1>2 DEF Goes
  <2>4. CASE failed # {}
    <3> DEFINE e == [bench |-> h, why |-> "requirements", arms |-> failed]
    <3>1. Goes(c, [r EXCEPT !.left = Tail(@), !.missing = @ \cup {e}])
      BY <2>2, <2>4
    <3>2. [r EXCEPT !.left = Tail(@), !.missing = @ \cup {e}] = [r EXCEPT !.left = Tail(r.left), !.missing = r.missing \cup {e}]
      BY <1>4 DEF RunFields
    <3> QED
      BY <2>1, <2>4, <3>1, <3>2, <1>2 DEF Goes
  <2> QED
    BY <2>3, <2>4
<1>5. /\ s.at = "installing" /\ s.written = r.written /\ s.values = r.values /\ s.asked = r.asked /\ s.stamp = r.stamp
      /\ s.suite = r.suite /\ s.pinned = r.pinned /\ s.results = r.results /\ s.failures = r.failures
  BY <1>2, <1>3, <1>4 DEF RunFields
<1>6. RunOK(s)
  <2>1. CASE failed = {}
    <3>1. s = [r EXCEPT !.left = Tail(r.left), !.cells = Append(r.cells, Head(r.left))]
      BY <1>2, <1>0, <2>1
    <3> QED
      BY <1>3, <1>4, <3>1, InstalledIs
  <2>2. CASE failed # {}
    <3>1. s = [r EXCEPT !.left = Tail(r.left),
                 !.missing = r.missing \cup {[bench |-> Head(r.left), why |-> "requirements", arms |-> failed]}]
      BY <1>2, <1>0, <2>2
    <3> QED
      BY <1>3, <1>4, <3>1, DroppedIs
  <2> QED
    BY <2>1, <2>2
<1> QED
  BY <1>1, <1>3, <1>5, <1>6, StepAlone

\* ...nor a signal.
LEMMA RunIsKilled ==
  ASSUME BenchInv, NEW c \in Commands, Killed(c)
  PROVE  BenchInv'
<1>1. PICK r : r = run[c]
  OBVIOUS
<1>2. PICK s : s = [r EXCEPT !.at = "killed"]
  OBVIOUS
<1>3. r.at \notin {"idle", "done", "failed", "killed"} /\ run' = [run EXCEPT ![c] = s] /\ sessions' = sessions
  BY <1>1, <1>2 DEF Killed, Goes
<1>4. RunOK(r) /\ DOMAIN r = RunFields
  BY <1>1 DEF BenchInv, RunOK
<1>5. /\ s.at = "killed" /\ s.written = r.written /\ s.values = r.values /\ s.asked = r.asked /\ s.stamp = r.stamp
      /\ s.suite = r.suite /\ s.pinned = r.pinned /\ s.results = r.results /\ s.failures = r.failures
      /\ s.missing = r.missing
  BY <1>2, <1>4 DEF RunFields
<1>6. RunOK(s)
  <2>1. r.at \in {"chosen", "preparing", "installing", "measuring"}
    BY <1>3, <1>4 DEF RunOK
  <2> QED
    BY <1>2, <1>4, <2>1, KilledIs
<1>7. s.values # {} => r.at = "measuring"
  BY <1>3, <1>4, <1>5 DEF RunOK, ArmsOK, Preparing, Installing, Untouched
<1> QED
  BY <1>1, <1>3, <1>5, <1>6, <1>7, StepAlone

\* The session of a command that has one.
LEMMA HasSession ==
  ASSUME BenchInv, NEW c \in Commands, run[c].at \in {"preparing", "installing", "measuring", "done"}
  PROVE  /\ Opened(c) /\ run[c].asked = {} /\ run[c].stamp \in DOMAIN sessions /\ Shaped(sessions[run[c].stamp])
         /\ OwnSession(c) => SessionOK(run[c], sessions[run[c].stamp])
<1>1. RunOK(run[c])
  BY DEF BenchInv
<1>2. run[c].asked = {}
  BY <1>1 DEF RunOK, Preparing, Installing, Measuring, Reported
<1>3. Opened(c)
  BY <1>2 DEF Opened
<1> QED
  BY <1>2, <1>3 DEF BenchInv, Shaped

\* The early account of a session: what was dropped is written as the
\* measurements begin.
LEMMA AccountIsWritten ==
  ASSUME BenchInv, NEW c \in Commands, run[c].at \in {"preparing", "installing"}, NEW cells, NEW s,
         s = [run[c] EXCEPT !.at = "measuring", !.cells = cells], RunOK(s), run' = [run EXCEPT ![c] = s],
         WriteAccounting(c, run[c].missing)
  PROVE  BenchInv'
<1>1. PICK r : r = run[c]
  OBVIOUS
<1>2. RunOK(r) /\ DOMAIN r = RunFields
  BY <1>1 DEF BenchInv, RunOK
<1>3. /\ s.at = "measuring" /\ s.written = r.written /\ s.values = r.values /\ s.asked = r.asked /\ s.stamp = r.stamp
      /\ s.suite = r.suite /\ s.results = r.results /\ s.failures = r.failures
      /\ s.missing = r.missing /\ s.pinned = r.pinned
  BY <1>1, <1>2 DEF RunFields
<1>4. /\ Opened(c) /\ r.asked = {} /\ r.stamp \in DOMAIN sessions /\ Shaped(sessions[r.stamp])
      /\ OwnSession(c) => SessionOK(r, sessions[r.stamp])
  BY <1>1, HasSession
<1>5. PICK g : g = sessions[r.stamp]
  OBVIOUS
<1>6. PICK f : f = [g EXCEPT !.accounting = {r.missing}]
  OBVIOUS
<1>7. sessions' = [sessions EXCEPT ![r.stamp] = f]
  <2>1. sessions' = [sessions EXCEPT ![r.stamp].accounting = {r.missing}]
    BY <1>1 DEF WriteAccounting
  <2> QED
    BY <1>5, <1>6, <2>1
<1>8. /\ DOMAIN f = SessionFields /\ f.accounting = {r.missing} /\ f.timeline = g.timeline /\ f.raw = g.raw /\ f.report = g.report
  BY <1>4, <1>5, <1>6 DEF Shaped, SessionFields
<1>9. Shaped(f)
  BY <1>8 DEF Shaped
<1>10. /\ DOMAIN sessions' = DOMAIN sessions /\ sessions'[s.stamp] = f
       /\ \A u \in DOMAIN sessions : u # s.stamp => sessions'[u] = sessions[u]
  BY <1>3, <1>4, <1>7
<1>11. ASSUME OwnSession(c) PROVE SessionOK(s, f)
  <2>1. SessionOK(r, g) /\ r.at # "done"
    BY <1>1, <1>4, <1>5, <1>11
  <2>2. GoodCells(f) = GoodCells(g)
    BY <1>8 DEF GoodCells
  <2>3. Filed(s, f)
    BY <2>1, <1>3, <1>8, SameFiled DEF SessionOK
  <2>4. Confined(s, f)
    BY <2>1, <1>3, <1>8, SameConfined DEF SessionOK
  <2> QED
    BY <2>1, <2>2, <2>3, <2>4, <1>3, <1>8 DEF SessionOK
<1>12. WritesIn(c, s, f)
  BY <1>1, <1>3, <1>4, <1>9, <1>10, <1>11 DEF WritesIn
<1> QED
  BY <1>12, StepInPlace

\* The pyperformance suite goes on to measure, or has nothing left to.
LEMMA DropsAreAccounted == ASSUME BenchInv, NEW c \in Commands, Account(c) PROVE BenchInv'
<1>1. PICK r : r = run[c]
  OBVIOUS
<1>2. RunOK(r) /\ DOMAIN r = RunFields
  BY <1>1 DEF BenchInv, RunOK
<1>3. CASE r.cells = <<>>
  <2>1. PICK s : s = [r EXCEPT !.at = "failed"]
    OBVIOUS
  <2>2. r.at = "installing" /\ run' = [run EXCEPT ![c] = s] /\ sessions' = sessions
    BY <1>1, <1>3, <2>1 DEF Account, Goes
  <2>3. /\ DOMAIN s = RunFields /\ s.at = "failed" /\ s.written = r.written /\ s.values = r.values
        /\ s.asked = r.asked /\ s.stamp = r.stamp
        /\ s.suite = r.suite /\ s.pinned = r.pinned /\ s.results = r.results /\ s.failures = r.failures
    BY <1>2, <2>1 DEF RunFields
  <2>4. RunOK(s)
    BY <2>3, FailedIs
  <2> QED
    BY <1>1, <2>2, <2>3, <2>4, StepAlone
<1>4. CASE r.cells # <<>>
  <2>1. PICK s : s = [r EXCEPT !.at = "measuring", !.cells = Queue(r.order, r.cells)]
    OBVIOUS
  <2>2. [r EXCEPT !.at = "measuring", !.cells = Queue(r.order, @)] = s
    BY <1>2, <2>1 DEF RunFields
  <2>3. r.at = "installing" /\ r.left = <<>> /\ WriteAccounting(c, r.missing)
        /\ Goes(c, [r EXCEPT !.at = "measuring", !.cells = Queue(r.order, @)])
    BY <1>1, <1>4 DEF Account
  <2>4. run' = [run EXCEPT ![c] = s]
    BY <2>2, <2>3 DEF Goes
  <2>5. RunOK(s)
    BY <1>2, <2>1, <2>3, AccountedIs
  <2> QED
    BY <1>1, <2>1, <2>3, <2>4, <2>5, AccountIsWritten
<1> QED
  BY <1>3, <1>4

\* The built-in suite goes on to measure.
LEMMA NothingIsDropped == ASSUME BenchInv, NEW c \in Commands, AccountMicro(c) PROVE BenchInv'
<1>1. PICK r : r = run[c]
  OBVIOUS
<1>2. RunOK(r) /\ DOMAIN r = RunFields
  BY <1>1 DEF BenchInv, RunOK
<1>3. PICK s : s = [r EXCEPT !.at = "measuring", !.cells = Queue(r.order, <<"micro">>)]
  OBVIOUS
<1>4. r.at = "preparing" /\ r.suite = "micro" /\ WriteAccounting(c, {}) /\ run' = [run EXCEPT ![c] = s]
  BY <1>1, <1>3 DEF AccountMicro, Goes
<1>5. RunOK(s) /\ r.missing = {}
  BY <1>2, <1>3, <1>4, AccountedMicroIs
<1>6. WriteAccounting(c, run[c].missing)
  BY <1>1, <1>4, <1>5
<1> QED
  BY <1>1, <1>3, <1>4, <1>5, <1>6, AccountIsWritten

\* A cell that succeeded is a number, and what it kept is one of a success.
RecordsIn(c, s, times, event, g, f) ==
  /\ run[c].at = "measuring" /\ RunOK(s) /\ s.at \in {"measuring", "failed"}
  /\ run' = [run EXCEPT ![c] = s] /\ s.asked = run[c].asked /\ s.stamp = run[c].stamp /\ s.missing = run[c].missing
  /\ s.suite = run[c].suite /\ s.pinned = run[c].pinned /\ (run[c].pinned /\ run[c].suite # "micro" => event.confined)
  /\ s.written = run[c].written + times
  /\ s.values \subseteq run[c].values \cup {event.cell}
  /\ g = sessions[run[c].stamp] /\ DOMAIN f = SessionFields /\ f.accounting = g.accounting /\ f.report = g.report
  /\ f.timeline = Over([i \in run[c].written + 1 .. run[c].written + times |-> event], g.timeline)
  /\ DOMAIN f.raw \subseteq DOMAIN g.raw \cup {event.cell}
  /\ DOMAIN sessions' = DOMAIN sessions /\ sessions'[s.stamp] = f
  /\ \A u \in DOMAIN sessions : u # s.stamp => sessions'[u] = sessions[u]

\* Such a step keeps the invariant.
LEMMA CellIsRecorded ==
  ASSUME BenchInv, NEW c \in Commands, NEW s, NEW times \in Nat \ {0}, NEW event, NEW g, NEW f, RecordsIn(c, s, times, event, g, f),
         event.ok \/ (s.values = run[c].values /\ DOMAIN f.raw \subseteq DOMAIN g.raw),
         OwnSession(c) => Filed(s, f)
  PROVE  BenchInv'
<1>1. PICK r : r = run[c]
  OBVIOUS
<1>0. /\ r.at = "measuring" /\ RunOK(s) /\ s.at \in {"measuring", "failed"}
      /\ run' = [run EXCEPT ![c] = s] /\ s.asked = r.asked /\ s.stamp = r.stamp /\ s.missing = r.missing
      /\ s.suite = r.suite /\ s.pinned = r.pinned /\ (r.pinned /\ r.suite # "micro" => event.confined)
      /\ s.written = r.written + times
      /\ s.values \subseteq r.values \cup {event.cell}
      /\ g = sessions[r.stamp] /\ DOMAIN f = SessionFields /\ f.accounting = g.accounting /\ f.report = g.report
      /\ f.timeline = Over([i \in r.written + 1 .. r.written + times |-> event], g.timeline)
      /\ DOMAIN f.raw \subseteq DOMAIN g.raw \cup {event.cell}
      /\ DOMAIN sessions' = DOMAIN sessions /\ sessions'[s.stamp] = f
      /\ \A u \in DOMAIN sessions : u # s.stamp => sessions'[u] = sessions[u]
  BY <1>1 DEF RecordsIn
<1>6. \/ event.ok
      \/ s.values = r.values /\ DOMAIN f.raw \subseteq DOMAIN g.raw
  BY <1>1, Zenon
<1>2. /\ Opened(c) /\ r.asked = {} /\ r.stamp \in DOMAIN sessions /\ Shaped(g)
      /\ OwnSession(c) => SessionOK(r, g)
  BY <1>0, <1>1, HasSession
<1>3. Shaped(f)
  BY <1>0, <1>2 DEF Shaped
<1>4. ASSUME OwnSession(c) PROVE SessionOK(s, f)
  <2>1. SessionOK(r, g) /\ r.written \in Nat /\ DOMAIN g.timeline \subseteq 1..r.written
    BY <1>2, <1>4 DEF SessionOK
  <2>2. /\ DOMAIN f.timeline \subseteq 1..(r.written + times)
        /\ GoodCells(g) \subseteq GoodCells(f)
        /\ event.ok => event.cell \in GoodCells(f)
        /\ event.confined /\ (\A e \in Range(g.timeline) : e.confined) => \A e \in Range(f.timeline) : e.confined
    <3>1. f.timeline = Over([i \in r.written + 1 .. r.written + times |-> event], g.timeline)
      BY <1>0
    <3> QED
      BY ONLY <2>1, <3>1, times \in Nat \ {0}, RecordedIs
  <2>3. r.values \subseteq GoodCells(g) /\ DOMAIN g.raw \subseteq GoodCells(g) /\ g.report = {}
        /\ g.accounting = {r.missing}
    BY ONLY <1>0, <2>1 DEF SessionOK
  <2>4. s.values \subseteq GoodCells(f) /\ DOMAIN f.raw \subseteq GoodCells(f)
    <3>1. CASE event.ok
      <4>1. event.cell \in GoodCells(f)
        BY <2>2, <3>1, Zenon
      <4> QED
        BY ONLY <4>1, <1>0, <2>2, <2>3
    <3>2. CASE s.values = r.values /\ DOMAIN f.raw \subseteq DOMAIN g.raw
      BY ONLY <3>2, <2>2, <2>3
    <3> QED
      BY <1>6, <3>1, <3>2, Zenon
  <2>5. s.written \in Nat /\ DOMAIN f.timeline \subseteq 1..s.written
    <3>1. PICK line : line = DOMAIN f.timeline
      OBVIOUS
    <3>2. PICK v : v = s.written
      OBVIOUS
    <3>3. line \subseteq 1..(r.written + times)
      BY <2>2, <3>1, Zenon
    <3>4. v = r.written + times
      BY <1>0, <3>2, Zenon
    <3>5. v \in Nat /\ line \subseteq 1..v
      BY ONLY <2>1, <3>3, <3>4, times \in Nat \ {0}
    <3> QED
      BY <3>1, <3>2, <3>5, Zenon
  <2>6. Filed(s, f)
    BY <1>4
  <2>7. Confined(s, f)
    <3>1. Confined(r, g)
      BY <2>1 DEF SessionOK
    <3> QED
      BY ONLY <1>0, <2>2, <3>1, Zenon DEF Confined
  <2> QED
    BY ONLY <1>0, <2>3, <2>4, <2>5, <2>6, <2>7 DEF SessionOK
<1>5. WritesIn(c, s, f)
  BY ONLY <1>0, <1>1, <1>2, <1>3, <1>4 DEF WritesIn
<1> QED
  BY <1>5, StepInPlace

\* The next cell has neither a number nor a failure yet.
LEMMA NextIsNew ==
  ASSUME NEW r, RunOK(r), r.at = "measuring", r.cells # <<>>
  PROVE  /\ Head(r.cells) \notin r.values /\ Head(r.cells) \notin ToSet(r.failures)
         /\ Head(r.cells)[1] \in SuiteOf(r) /\ r.failures \in Seq(ToSet(r.failures))
<1>1. Listing(r.cells) /\ CellsOK(r)
  BY DEF RunOK, Measuring
<1>2. Head(r.cells) \in ToSet(r.cells)
  BY <1>1, Tailed
<1>3. Head(r.cells) \in (SuiteOf(r) \ Dropped(r)) \X ToSet(r.order)
  BY <1>1, <1>2 DEF CellsOK
<1> QED
  BY <1>1, <1>2, <1>3 DEF CellsOK, Apart

\* What lies under raw/ after a cell is what lay there, but for that cell's file.
KeptSo(raw, cell, ok, file, kept) ==
  /\ \A v : v # cell => Found(kept, v) = Found(raw, v)
  /\ DOMAIN kept \subseteq DOMAIN raw \cup {cell}
  /\ ~ok => DOMAIN kept \subseteq DOMAIN raw /\ Found(kept, cell) = NamesNone
  /\ Found(kept, cell) = NamesNone \/ cell \in DOMAIN raw \/ (file # <<>> /\ Found(kept, cell) = Head(file))
LEMMA KeptIs ==
  ASSUME NEW raw, NEW cell, NEW ok \in BOOLEAN, NEW file
  PROVE  KeptSo(raw, cell, ok, file, Kept(raw, cell, ok, file))
<1>0. PICK kept : kept = Kept(raw, cell, ok, file)
  OBVIOUS
<1>1. ASSUME ~ok PROVE KeptSo(raw, cell, ok, file, kept)
  <2>1. kept = Restrict(raw, DOMAIN raw \ {cell})
    BY <1>0, <1>1, Zenon DEF Kept
  <2>2. DOMAIN kept = DOMAIN raw \ {cell} /\ \A v \in DOMAIN kept : kept[v] = raw[v]
    BY <2>1 DEF Restrict
  <2> QED
    BY <1>1, <2>2 DEF Found, KeptSo
<1>2. ASSUME ok, file = <<>> PROVE KeptSo(raw, cell, ok, file, kept)
  <2>1. kept = raw
    BY <1>0, <1>2, Zenon DEF Kept
  <2> QED
    BY <1>2, <2>1 DEF Found, KeptSo
<1>3. ASSUME ok, file # <<>> PROVE KeptSo(raw, cell, ok, file, kept)
  <2>1. kept = With(raw, cell, Head(file))
    BY <1>0, <1>3, Zenon DEF Kept
  <2>2. /\ DOMAIN kept = DOMAIN raw \cup {cell} /\ kept[cell] = Head(file)
        /\ \A v \in DOMAIN raw : v # cell => kept[v] = raw[v]
    BY <2>1 DEF With
  <2> QED
    BY <1>3, <2>2 DEF Found, KeptSo
<1>4. KeptSo(raw, cell, ok, file, kept)
  BY <1>1, <1>2, <1>3
<1> QED
  BY <1>0, <1>4, Zenon

\* A cell of the pyperformance suite.
LEMMA CellIsMeasured ==
  ASSUME BenchInv, NEW c \in Commands, NEW ok \in BOOLEAN, NEW file \in {<<>>} \cup {<<x>> : x \in PyperfFiles},
         Measure(c, ok, file)
  PROVE  BenchInv'
<1>1. PICK r : r = run[c]
  OBVIOUS
<1>2. PICK h : h = Head(r.cells)
  OBVIOUS
<1>14. PICK g : g = sessions[r.stamp]
  OBVIOUS
<1>16. PICK raw : raw = Kept(g.raw, h, ok, file)
  OBVIOUS
<1>29. PICK found : found = Found(raw, h)
  OBVIOUS
<1>4. PICK good \in BOOLEAN : good = Usable(ok, found)
  BY DEF Usable
<1>3. PICK times : times = IF ok /\ ~good THEN 2 ELSE 1
  OBVIOUS
<1>5. PICK event : event = Event(c, h, ok, r.pinned)
  OBVIOUS
<1>6. RunOK(r) /\ DOMAIN r = RunFields
  BY <1>1 DEF BenchInv, RunOK
<1>7. PICK values : values = IF good THEN r.values \cup {h} ELSE r.values
  OBVIOUS
<1>30. PICK results : results = IF good THEN r.results \cup {<<h[2], n>> : n \in found.timed} ELSE r.results
  OBVIOUS
<1>8. PICK failures : failures = IF good THEN r.failures ELSE Append(r.failures, h)
  OBVIOUS
<1>9. PICK s : s = [r EXCEPT !.cells = Tail(r.cells), !.written = r.written + times, !.values = values,
                             !.results = results, !.failures = failures]
  OBVIOUS
<1>0. Files(c) = g
  BY <1>1, <1>14 DEF Files
<1>31. /\ r.at = "measuring" /\ r.cells # <<>> /\ r.suite = "pyperformance"
       /\ Goes(c, [r EXCEPT !.cells = Rest(@, good), !.written = @ + times,
                            !.values = IF good THEN @ \cup {h} ELSE @,
                            !.results = IF good THEN @ \cup {<<h[2], n>> : n \in found.timed} ELSE @,
                            !.failures = IF good THEN @ ELSE Append(@, h)])
       /\ sessions' = [Record(c, event, times) EXCEPT ![r.stamp].raw = raw]
  <2> DEFINE cell == Head(run[c].cells)
             kept == Kept(Files(c).raw, cell, ok, file)
             there == Found(kept, cell)
             use == Usable(ok, there)
             n == IF ok /\ ~use THEN 2 ELSE 1
             said == Event(c, cell, ok, run[c].pinned)
  <2>1. /\ run[c].at = "measuring" /\ run[c].cells # <<>> /\ run[c].suite = "pyperformance"
        /\ Goes(c, [run[c] EXCEPT !.cells = Rest(@, use), !.written = @ + n,
                                  !.values = IF use THEN @ \cup {cell} ELSE @,
                                  !.results = IF use THEN @ \cup {<<cell[2], m>> : m \in there.timed} ELSE @,
                                  !.failures = IF use THEN @ ELSE Append(@, cell)])
        /\ sessions' = [Record(c, said, n) EXCEPT ![run[c].stamp].raw = kept]
    BY Zenon DEF Measure
  <2>2. cell = h
    BY <1>1, <1>2
  <2>3. kept = raw
    BY <1>0, <1>16, <2>2
  <2>4. there = found
    BY <1>29, <2>2, <2>3
  <2>5. use = good
    BY <1>4, <2>4, Zenon
  <2>6. n = times
    BY <1>3, <2>5, Zenon
  <2>7. said = event
    BY <1>1, <1>5, <2>2
  <2> HIDE DEF cell, kept, there, use, n, said
  <2> QED
    BY ONLY <1>1, <2>1, <2>2, <2>3, <2>4, <2>5, <2>6, <2>7
<1>10. /\ r.at = "measuring" /\ r.cells # <<>> /\ run' = [run EXCEPT ![c] = s]
  <2>3. [r EXCEPT !.cells = Rest(@, good), !.written = @ + times,
                  !.values = IF good THEN @ \cup {h} ELSE @,
                  !.results = IF good THEN @ \cup {<<h[2], n>> : n \in found.timed} ELSE @,
                  !.failures = IF good THEN @ ELSE Append(@, h)] = s
    <3>1. CASE good
      BY <3>1, <1>6, <1>7, <1>8, <1>9, <1>30 DEF Rest, RunFields
    <3>2. CASE ~good
      BY <3>2, <1>6, <1>7, <1>8, <1>9, <1>30 DEF Rest, RunFields
    <3> QED
      BY <3>1, <3>2
  <2> QED
    BY <1>31, <2>3, Zenon DEF Goes
<1>11. /\ DOMAIN s = RunFields /\ s.at = "measuring" /\ s.suite = r.suite /\ s.missing = r.missing /\ s.order = r.order
       /\ s.baseline = r.baseline /\ s.asked = r.asked /\ s.stamp = r.stamp /\ s.cells = Tail(r.cells)
       /\ s.pinned = r.pinned
       /\ s.written = r.written + times /\ s.values = values /\ s.results = results /\ s.failures = failures
  BY <1>6, <1>9, <1>10 DEF RunFields
<1>12. times \in Nat \ {0}
  BY <1>3
<1>13. RunOK(s)
  BY <1>2, <1>6, <1>7, <1>8, <1>10, <1>11, <1>12, MeasuredIs
<1>15. r.stamp \in DOMAIN sessions /\ DOMAIN g = SessionFields
  BY <1>1, <1>10, <1>14, HasSession DEF Shaped
<1>17. PICK line : line = Over([i \in r.written + 1 .. r.written + times |-> event], g.timeline)
  OBVIOUS
<1>18. PICK f : f = [g EXCEPT !.timeline = line, !.raw = raw]
  OBVIOUS
<1>19. /\ DOMAIN sessions' = DOMAIN sessions /\ sessions'[r.stamp] = f
       /\ \A u \in DOMAIN sessions : u # r.stamp => sessions'[u] = sessions[u]
  <2>2. PICK mid : mid = Record(c, event, times)
    OBVIOUS
  <2>3. PICK m : m = [g EXCEPT !.timeline = line]
    OBVIOUS
  <2>4. mid = [sessions EXCEPT ![r.stamp] = m]
    <3>1. mid = [sessions EXCEPT ![r.stamp].timeline = Over([i \in r.written + 1 .. r.written + times |-> event], @)]
      BY <1>1, <2>2, Zenon DEF Record
    <3> QED
      BY <3>1, <2>3, <1>14, <1>17
  <2>5. /\ DOMAIN mid = DOMAIN sessions /\ mid[r.stamp] = m
        /\ \A u \in DOMAIN sessions : u # r.stamp => mid[u] = sessions[u]
    BY <2>4, <1>15
  <2>7. [m EXCEPT !.raw = raw] = f
    BY <2>3, <1>15, <1>18 DEF SessionFields
  <2>8. sessions' = [mid EXCEPT ![r.stamp] = f]
    <3>1. sessions' = [mid EXCEPT ![r.stamp].raw = raw]
      BY <1>31, <2>2, Zenon
    <3> QED
      BY <3>1, <2>5, <2>7
  <2> QED
    BY <2>5, <2>8, <1>15
<1>20. /\ DOMAIN f = SessionFields /\ f.timeline = line /\ f.raw = raw /\ f.accounting = g.accounting /\ f.report = g.report
  BY <1>15, <1>18 DEF SessionFields
<1>21. event.cell = h
  BY <1>5 DEF Event
<1>22. ok => event.ok
  BY <1>5, Zenon DEF Event
<1>23. /\ s.values \subseteq r.values \cup {event.cell}
       /\ event.ok \/ s.values = r.values
  BY <1>4, <1>7, <1>11, <1>21, <1>22 DEF Usable
<1>32. /\ \A v : v # h => Found(raw, v) = Found(g.raw, v)
       /\ DOMAIN raw \subseteq DOMAIN g.raw \cup {h}
       /\ ~ok => DOMAIN raw \subseteq DOMAIN g.raw /\ Found(raw, h) = NamesNone
       /\ Found(raw, h) = NamesNone \/ h \in DOMAIN g.raw \/ (file # <<>> /\ Found(raw, h) = Head(file))
  <2>1. KeptSo(g.raw, h, ok, file, raw)
    BY ONLY <1>16, ok \in BOOLEAN, KeptIs, Zenon
  <2> QED
    BY <2>1 DEF KeptSo
<1>24. /\ DOMAIN f.raw \subseteq DOMAIN g.raw \cup {event.cell}
       /\ event.ok \/ DOMAIN f.raw \subseteq DOMAIN g.raw
  BY <1>20, <1>21, <1>22, <1>32
<1>33. ASSUME OwnSession(c) PROVE Filed(s, f)
  <2>1. Filed(r, g)
    BY <1>1, <1>10, <1>14, <1>33, HasSession DEF SessionOK
  <2>2. h \notin r.values /\ h \notin ToSet(r.failures) /\ r.failures \in Seq(ToSet(r.failures))
    BY <1>2, <1>6, <1>10, NextIsNew
  <2>3. (\A v : v # h => Left(s, f, v) = Left(r, g, v)) /\ Left(s, f, h) = found
    BY <1>11, <1>20, <1>29, <1>31, <1>32 DEF Left
  <2>4. good <=> found.names # {}
    <3>1. CASE ok
      BY <3>1, <1>4, Zenon DEF Usable
    <3>2. CASE ~ok
      <4>1. found.names = {}
        BY <3>2, <1>29, <1>32 DEF NamesNone
      <4> QED
        BY <3>2, <4>1, <1>4, Zenon DEF Usable
    <3> QED
      BY <3>1, <3>2
  <2>5. ToSet(s.failures) = IF good THEN ToSet(r.failures) ELSE ToSet(r.failures) \cup {h}
    <3>1. PICK F : F = ToSet(r.failures)
      OBVIOUS
    <3>2. PICK W : W = F \cup {h}
      OBVIOUS
    <3>3. r.failures \in Seq(W) /\ h \in W
      BY ONLY <2>2, <3>1, <3>2
    <3>4. ToSet(Append(r.failures, h)) = ToSet(r.failures) \cup {h}
      BY ONLY <3>3, Appended
    <3> QED
      BY <3>4, <1>8, <1>11
  <2>6. s.results = IF good THEN r.results \cup {<<h[2], n>> : n \in Left(s, f, h).timed} ELSE r.results
    BY <2>3, <1>11, <1>30
  <2>7. s.values = IF good THEN r.values \cup {h} ELSE r.values
    BY <1>7, <1>11
  <2>8. DOMAIN f.raw \subseteq DOMAIN g.raw \cup {h}
    BY <1>20, <1>32
  <2>9. good <=> Left(s, f, h).names # {}
    BY <2>3, <2>4
  <2>10. Left(s, f, h).timed \subseteq Left(s, f, h).names
    <3>1. h \notin DOMAIN g.raw
      BY <2>1, <2>2 DEF Filed
    <3>2. CASE found = NamesNone
      BY <3>2, <2>3 DEF NamesNone
    <3>3. CASE file # <<>> /\ found = Head(file)
      <4>1. PICK x \in PyperfFiles : file = <<x>>
        BY <3>3
      <4> QED
        BY <4>1, <3>3, <2>3, BenchAssumption
    <3> QED
      BY <1>29, <1>32, <3>1, <3>2, <3>3
  <2> QED
    BY ONLY <2>1, <2>2, <2>3, <2>5, <2>6, <2>7, <2>8, <2>9, <2>10, good \in BOOLEAN, FiledMore
<1>25. f.timeline = Over([i \in run[c].written + 1 .. run[c].written + times |-> event], g.timeline)
  BY <1>1, <1>17, <1>20
<1>34. r.pinned /\ r.suite # "micro" => event.confined
  BY <1>5, Zenon DEF Event
<1>26. RecordsIn(c, s, times, event, g, f)
  BY ONLY <1>1, <1>10, <1>11, <1>13, <1>14, <1>19, <1>20, <1>23, <1>24, <1>25, <1>34 DEF RecordsIn
<1>27. event.ok \/ (s.values = run[c].values /\ DOMAIN f.raw \subseteq DOMAIN g.raw)
  BY <1>1, <1>23, <1>24, Zenon
<1> QED
  BY <1>12, <1>26, <1>27, <1>33, CellIsRecorded

\* A cell of the built-in suite.
LEMMA MicroIsMeasured ==
  ASSUME BenchInv, NEW c \in Commands, NEW ok \in BOOLEAN, NEW pinnedThread, MeasureMicro(c, ok, pinnedThread)
  PROVE  BenchInv'
<1>1. PICK r : r = run[c]
  OBVIOUS
<1>2. PICK h : h = Head(r.cells)
  OBVIOUS
<1>5. PICK event : event = Event(c, h, ok, r.pinned /\ pinnedThread)
  OBVIOUS
<1>6. RunOK(r) /\ DOMAIN r = RunFields
  BY <1>1 DEF BenchInv, RunOK
<1>7. PICK values : values = IF ok THEN r.values \cup {h} ELSE r.values
  OBVIOUS
<1>30. PICK results : results = IF ok THEN r.results \cup {<<h[2], n>> : n \in NamesIn["micro"]} ELSE r.results
  OBVIOUS
<1>8. PICK at : at = IF ok THEN "measuring" ELSE "failed"
  OBVIOUS
<1>9. PICK s : s = [r EXCEPT !.at = at, !.cells = Tail(r.cells), !.written = r.written + 1, !.values = values,
                             !.results = results]
  OBVIOUS
<1>31. /\ r.at = "measuring" /\ r.cells # <<>> /\ r.suite = "micro"
       /\ Goes(c, [r EXCEPT !.at = IF ok THEN @ ELSE "failed", !.cells = Tail(@), !.written = @ + 1,
                            !.values = IF ok THEN @ \cup {h} ELSE @,
                            !.results = IF ok THEN @ \cup {<<h[2], n>> : n \in NamesIn["micro"]} ELSE @])
       /\ sessions' = Record(c, event, 1)
  BY <1>1, <1>2, <1>5, Zenon DEF MeasureMicro
<1>10. /\ r.at = "measuring" /\ r.cells # <<>> /\ run' = [run EXCEPT ![c] = s]
  <2>2. [r EXCEPT !.at = IF ok THEN @ ELSE "failed", !.cells = Tail(@), !.written = @ + 1,
                  !.values = IF ok THEN @ \cup {h} ELSE @,
                  !.results = IF ok THEN @ \cup {<<h[2], n>> : n \in NamesIn["micro"]} ELSE @] = s
    <3>1. CASE ok
      BY <3>1, <1>31, <1>6, <1>7, <1>8, <1>9, <1>30 DEF RunFields
    <3>2. CASE ~ok
      BY <3>2, <1>31, <1>6, <1>7, <1>8, <1>9, <1>30 DEF RunFields
    <3> QED
      BY <3>1, <3>2
  <2> QED
    BY <1>31, <2>2, Zenon DEF Goes
<1>11. /\ DOMAIN s = RunFields /\ s.at = at /\ s.suite = r.suite /\ s.missing = r.missing /\ s.order = r.order
       /\ s.baseline = r.baseline /\ s.asked = r.asked /\ s.stamp = r.stamp /\ s.cells = Tail(r.cells)
       /\ s.pinned = r.pinned
       /\ s.written = r.written + 1 /\ s.values = values /\ s.results = results /\ s.failures = r.failures
  BY <1>6, <1>9, <1>10 DEF RunFields
<1>12. s.at \in {"measuring", "failed"} /\ (s.at = "measuring" => ok)
  BY <1>8, <1>11
<1>13. RunOK(s)
  <2>1. /\ s.values = IF ok THEN r.values \cup {Head(r.cells)} ELSE r.values
        /\ s.at = "measuring" => s.failures = IF ok THEN r.failures ELSE Append(r.failures, Head(r.cells))
    BY <1>2, <1>7, <1>11, <1>12
  <2> QED
    BY <2>1, <1>6, <1>10, <1>11, <1>12, MeasuredIs
<1>14. PICK g : g = sessions[r.stamp]
  OBVIOUS
<1>15. r.stamp \in DOMAIN sessions /\ DOMAIN g = SessionFields
  BY <1>1, <1>10, <1>14, HasSession DEF Shaped
<1>17. PICK line : line = Over([i \in r.written + 1 .. r.written + 1 |-> event], g.timeline)
  OBVIOUS
<1>18. PICK f : f = [g EXCEPT !.timeline = line]
  OBVIOUS
<1>19. /\ DOMAIN sessions' = DOMAIN sessions /\ sessions'[r.stamp] = f
       /\ \A u \in DOMAIN sessions : u # r.stamp => sessions'[u] = sessions[u]
  <2>2. sessions' = [sessions EXCEPT ![r.stamp].timeline = Over([i \in r.written + 1 .. r.written + 1 |-> event], @)]
    BY <1>1, <1>31, Zenon DEF Record
  <2>3. sessions' = [sessions EXCEPT ![r.stamp] = f]
    BY <2>2, <1>14, <1>17, <1>18
  <2> QED
    BY <2>3, <1>15
<1>20. /\ DOMAIN f = SessionFields /\ f.timeline = line /\ f.raw = g.raw /\ f.accounting = g.accounting /\ f.report = g.report
  BY <1>15, <1>18 DEF SessionFields
<1>21. event.cell = h
  BY <1>5 DEF Event
<1>22. ok => event.ok
  BY <1>5, Zenon DEF Event
<1>23. /\ s.values \subseteq r.values \cup {event.cell}
       /\ event.ok \/ s.values = r.values
  BY <1>7, <1>11, <1>21, <1>22
<1>24. DOMAIN f.raw \subseteq DOMAIN g.raw
  BY <1>20
<1>33. ASSUME OwnSession(c) PROVE Filed(s, f)
  <2>1. Filed(r, g)
    BY <1>1, <1>10, <1>14, <1>33, HasSession DEF SessionOK
  <2>2. CASE ~ok
    BY <2>1, <2>2, <1>7, <1>11, <1>20, <1>30, SameFiled
  <2>3. CASE ok
    <3>1. h \notin r.values /\ h \notin ToSet(r.failures) /\ h[1] \in SuiteOf(r)
      BY <1>2, <1>6, <1>10, NextIsNew
    <3>2. \A v : Left(s, f, v) = Whole(v[1]) /\ Left(r, g, v) = Whole(v[1])
      BY <1>11, <1>31 DEF Left
    <3>3. h[1] = "micro"
      BY <3>1, <1>31 DEF SuiteOf
    <3>4. Left(s, f, h).names = NamesIn["micro"] /\ Left(s, f, h).timed = NamesIn["micro"]
      <4>1. Left(s, f, h) = Whole("micro")
        BY <3>2, <3>3, Zenon
      <4> QED
        BY <4>1 DEF Whole
    <3>5. Left(s, f, h).names # {}
      BY <3>4, BenchAssumption
    <3>6. s.results = r.results \cup {<<h[2], n>> : n \in Left(s, f, h).timed}
      BY <2>3, <3>4, <1>11, <1>30
    <3>7. s.values = r.values \cup {h} /\ s.failures = r.failures
      BY <2>3, <1>7, <1>11
    <3>8. DOMAIN f.raw \subseteq DOMAIN g.raw \cup {h}
      BY <1>24
    <3>9. Left(s, f, h).timed \subseteq Left(s, f, h).names
      BY <3>4
    <3> QED
      BY ONLY <2>1, <3>1, <3>2, <3>5, <3>6, <3>7, <3>8, <3>9, TRUE \in BOOLEAN, FiledMore
  <2> QED
    BY <2>2, <2>3
<1>25. f.timeline = Over([i \in run[c].written + 1 .. run[c].written + 1 |-> event], g.timeline)
  BY <1>1, <1>17, <1>20
<1>26. 1 \in Nat \ {0}
  OBVIOUS
<1>27. RecordsIn(c, s, 1, event, g, f)
  BY ONLY <1>1, <1>10, <1>11, <1>12, <1>13, <1>14, <1>19, <1>20, <1>23, <1>24, <1>25, <1>31 DEF RecordsIn
<1>28. event.ok \/ (s.values = run[c].values /\ DOMAIN f.raw \subseteq DOMAIN g.raw)
  BY <1>1, <1>23, <1>24, Zenon
<1> QED
  BY <1>26, <1>27, <1>28, <1>33, CellIsRecorded

\* The report is the comparison of the numbers, and the accounting names what is
\* missing from it.
LEMMA SessionIsReported == ASSUME BenchInv, NEW c \in Commands, Finish(c) PROVE BenchInv'
<1>1. PICK r : r = run[c]
  OBVIOUS
<1>2. PICK missing : missing = r.missing \cup SummarizeFailures(r.failures)
  OBVIOUS
<1>3. PICK rep : rep = [baseline |-> r.baseline, by |-> c, rows |-> Compare(r.results, r.baseline, r.order)]
  OBVIOUS
<1>4. PICK s : s = [r EXCEPT !.at = "done", !.missing = missing]
  OBVIOUS
<1>5. /\ r.at = "measuring" /\ r.cells = <<>> /\ run' = [run EXCEPT ![c] = s]
      /\ sessions' = [sessions EXCEPT ![r.stamp].accounting = {missing}, ![r.stamp].report = {rep}]
  BY <1>1, <1>2, <1>3, <1>4 DEF Finish, Goes
<1>6. RunOK(r) /\ DOMAIN r = RunFields
  BY <1>1 DEF BenchInv, RunOK
<1>7. /\ s.at = "done" /\ s.written = r.written /\ s.values = r.values /\ s.asked = r.asked /\ s.stamp = r.stamp
      /\ s.suite = r.suite /\ s.pinned = r.pinned /\ s.results = r.results /\ s.failures = r.failures
      /\ s.missing = missing /\ s.baseline = r.baseline /\ s.order = r.order
  BY <1>4, <1>6 DEF RunFields
<1>8. RunOK(s)
  BY <1>2, <1>4, <1>5, <1>6, FinishedIs
<1>9. PICK g : g = sessions[r.stamp]
  OBVIOUS
<1>10. /\ Opened(c) /\ r.asked = {} /\ r.stamp \in DOMAIN sessions /\ DOMAIN g = SessionFields
       /\ OwnSession(c) => SessionOK(r, g)
  BY <1>1, <1>5, <1>9, HasSession DEF Shaped
<1>11. PICK f : f = [g EXCEPT !.accounting = {missing}, !.report = {rep}]
  OBVIOUS
<1>12. /\ DOMAIN f = SessionFields /\ f.accounting = {missing} /\ f.report = {rep} /\ f.timeline = g.timeline /\ f.raw = g.raw
  BY <1>10, <1>11 DEF SessionFields
<1>13. /\ DOMAIN sessions' = DOMAIN sessions /\ sessions'[s.stamp] = f
       /\ \A u \in DOMAIN sessions : u # s.stamp => sessions'[u] = sessions[u]
  BY <1>5, <1>7, <1>9, <1>10, <1>11
<1>14. Shaped(f)
  BY <1>12 DEF Shaped
<1>15. ASSUME OwnSession(c) PROVE SessionOK(s, f)
  <2>1. SessionOK(r, g)
    BY <1>10, <1>15
  <2>2. GoodCells(f) = GoodCells(g)
    BY <1>12 DEF GoodCells
  <2>3. rep.rows = Compare(s.results, s.baseline, s.order)
    BY <1>3, <1>7
  <2>4. Filed(s, f)
    BY <2>1, <1>7, <1>12, SameFiled DEF SessionOK
  <2>5. Confined(s, f)
    BY <2>1, <1>7, <1>12, SameConfined DEF SessionOK
  <2> QED
    BY <2>1, <2>2, <2>3, <2>4, <2>5, <1>7, <1>12 DEF SessionOK
<1>16. WritesIn(c, s, f)
  BY <1>1, <1>5, <1>7, <1>8, <1>10, <1>13, <1>14, <1>15 DEF WritesIn
<1> QED
  BY <1>16, StepInPlace

\* Every step of every command keeps the invariant.
LEMMA BenchStep == BenchInv /\ [BenchNext]_benchVars => BenchInv'
<1> SUFFICES ASSUME BenchInv, [BenchNext]_benchVars PROVE BenchInv'
  OBVIOUS
<1>1. CASE UNCHANGED <<run, sessions>>
  BY <1>1 DEF BenchInv, Opened, OwnSession
<1>2. CASE UNCHANGED benchVars
  BY <1>1, <1>2 DEF benchVars
<1>3. CASE Tick
  BY <1>1, <1>3 DEF Tick
<1>4. ASSUME NEW c \in Commands, NEW suite \in Suites, NEW q \in Lineups, NEW m \in Machines, NEW f \in PinFlags, NEW allowed,
             ChooseArms(c, suite, q, m, f, allowed)
      PROVE  BenchInv'
  BY <1>4, ArmsAreChosen
<1>5. ASSUME NEW c \in Commands, OpenSession(c) PROVE BenchInv'
  BY <1>5, SessionIsOpened
<1>6. ASSUME NEW c \in Commands, NEW ok \in BOOLEAN, Prepare(c, ok) PROVE BenchInv'
  BY <1>6, ArmsArePrepared
<1>7. ASSUME NEW c \in Commands, NEW failed, Install(c, failed) PROVE BenchInv'
  BY <1>7, RequirementsAreInstalled
<1>8. ASSUME NEW c \in Commands, Account(c) PROVE BenchInv'
  BY <1>8, DropsAreAccounted
<1>9. ASSUME NEW c \in Commands, AccountMicro(c) PROVE BenchInv'
  BY <1>9, NothingIsDropped
<1>10. ASSUME NEW c \in Commands, NEW ok \in BOOLEAN, NEW file \in {<<>>} \cup {<<x>> : x \in PyperfFiles},
              Measure(c, ok, file)
       PROVE  BenchInv'
  BY <1>10, CellIsMeasured
<1>11. ASSUME NEW c \in Commands, NEW ok \in BOOLEAN, NEW t, MeasureMicro(c, ok, t) PROVE BenchInv'
  BY <1>11, MicroIsMeasured
<1>12. ASSUME NEW c \in Commands, Finish(c) PROVE BenchInv'
  BY <1>12, SessionIsReported
<1>13. ASSUME NEW c \in Commands, Killed(c) PROVE BenchInv'
  BY <1>13, RunIsKilled
<1> QED
  BY <1>2, <1>3, <1>4, <1>5, <1>6, <1>7, <1>8, <1>9, <1>10, <1>11, <1>12, <1>13 DEF BenchNext

--------------------------------------------------------------------------------
\* BenchTypeOK: a cell that waits was not measured yet.
LEMMA TypeHolds == ASSUME BenchInv PROVE BenchTypeOK
<1>1. \A s \in DOMAIN sessions : sessions[s].report # {} => sessions[s].accounting # {}
  BY DEF BenchInv
<1>2. ASSUME NEW c \in Commands, run[c].at = "measuring"
      PROVE  ToSet(run[c].cells) \cap (run[c].values \cup ToSet(run[c].failures)) = {}
  <2>1. CellsOK(run[c])
    BY <1>2 DEF BenchInv, RunOK, Measuring
  <2> QED
    BY <2>1 DEF CellsOK, Apart
<1> QED
  BY <1>1, <1>2 DEF BenchTypeOK

\* A mean is over what the session times, and it says what is missing.
LEMMA MeanHolds == ASSUME BenchInv PROVE MeanIsOverTheNamedSet
<1> SUFFICES ASSUME NEW c \in Commands, run[c].at = "done", OwnSession(c), NEW rep \in Files(c).report,
                    NEW arm \in ToSet(run[c].order)
             PROVE  /\ Behind(rep, arm) = Timed(c, arm) \cap Timed(c, run[c].baseline)
                    /\ \A case \in Suite(c) :
                         Gone(c, case, arm) <=> \E a \in {arm, run[c].baseline} : LeftBy(c, case, a).names = {}
  BY DEF MeanIsOverTheNamedSet
<1>1. PICK r : r = run[c]
  OBVIOUS
<1>2. PICK f : f = Files(c)
  OBVIOUS
<1>3. Reported(r)
  BY <1>1 DEF BenchInv, RunOK
<1>4. SessionOK(r, f)
  BY <1>1, <1>2, HasSession DEF Files
<1>5. rep.rows = Compare(r.results, r.baseline, r.order) /\ f.accounting = {r.missing} /\ Filed(r, f)
  BY <1>1, <1>2, <1>4 DEF SessionOK
<1>6. Listed(c) = r.missing
  BY <1>2, <1>5 DEF Listed
<1>7. Suite(c) = SuiteOf(r)
  BY <1>1 DEF Suite, SuiteOf
<1>8. \A case, a : LeftBy(c, case, a) = Left(r, f, <<case, a>>)
  <2>1. \A case, a : <<case, a>>[1] = case
    OBVIOUS
  <2> QED
    BY <2>1, <1>1, <1>2 DEF LeftBy, Left
<1>9. \A case : Gone(c, case, arm) <=> Missed(r, case, arm)
  BY <1>1, <1>6 DEF Gone, Missed
<1>10. \A a : Timed(c, a) = TimesOf(r, f, a)
  BY <1>7, <1>8 DEF Timed, TimesOf
<1>11. arm \in ToSet(r.order)
  BY <1>1
<1>12. Behind(rep, arm) = TimesOf(r, f, arm) \cap TimesOf(r, f, r.baseline)
  <2>1. {row.name : row \in {x \in Compare(r.results, r.baseline, r.order) : arm \in x.arms}}
          = TimesOf(r, f, arm) \cap TimesOf(r, f, r.baseline)
    BY ONLY <1>3, <1>5, <1>11, MeanOfDone
  <2> QED
    BY <2>1, <1>5 DEF Behind
<1>13. \A case \in SuiteOf(r) :
         Missed(r, case, arm) <=> \E a \in {arm, r.baseline} : Left(r, f, <<case, a>>).names = {}
  BY ONLY <1>3, <1>5, <1>11, MissedOfDone
<1>14. Behind(rep, arm) = Timed(c, arm) \cap Timed(c, r.baseline)
  BY <1>10, <1>12
<1>15. \A case \in Suite(c) : Gone(c, case, arm) <=> \E a \in {arm, r.baseline} : LeftBy(c, case, a).names = {}
  BY <1>7, <1>8, <1>9, <1>13
<1> QED
  BY <1>1, <1>14, <1>15, Zenon

\* A benchmark without a cell was dropped, and the accounting names it.
LEMMA AccountHolds == ASSUME BenchInv PROVE KilledRunIsAccounted
<1>1. ASSUME NEW c \in Commands, run[c].at \in {"measuring", "killed", "done"}, run[c].values # {}, OwnSession(c)
      PROVE  /\ Files(c).accounting # {}
             /\ \A case \in Suite(c) :
                  (\A a \in ToSet(run[c].order) : <<case, a>> \notin run[c].values \cup ToSet(run[c].failures) \cup ToSet(run[c].cells))
                    => \E e \in Listed(c) : e.bench = case
  <2>1. PICK r : r = run[c]
    OBVIOUS
  <2>2. RunOK(r)
    BY <2>1 DEF BenchInv
  <2>3. LinedUp(r) /\ CellsOK(r) /\ r.asked = {}
    BY <1>1, <2>1, <2>2 DEF RunOK, Measuring, Reported
  <2>4. Opened(c)
    BY <1>1, <2>1, <2>3 DEF Opened
  <2>5. SessionOK(r, Files(c))
    BY <1>1, <2>1, <2>4 DEF BenchInv, Files
  <2>6. Files(c).accounting = {r.missing}
    BY <1>1, <2>1, <2>5 DEF SessionOK
  <2>7. Listed(c) = r.missing
    BY <2>6 DEF Listed
  <2>8. ASSUME NEW case \in Suite(c),
               \A a \in ToSet(r.order) : <<case, a>> \notin r.values \cup ToSet(r.failures) \cup ToSet(r.cells)
        PROVE  \E e \in r.missing : e.bench = case
    <3>1. case \in SuiteOf(r)
      BY <2>1 DEF Suite, SuiteOf
    <3>2. r.baseline \in ToSet(r.order)
      BY <2>3 DEF LinedUp
    <3>3. ToSet(r.cells) \cup r.values \cup ToSet(r.failures) = (SuiteOf(r) \ Dropped(r)) \X ToSet(r.order)
      BY <2>3 DEF CellsOK
    <3>4. case \in Dropped(r)
      BY <2>8, <3>1, <3>2, <3>3
    <3> QED
      BY <3>4 DEF Dropped
  <2> QED
    BY <2>1, <2>6, <2>7, <2>8
<1> QED
  BY <1>1 DEF KilledRunIsAccounted

\* Every number was left by a cell that succeeded.
LEMMA GoodRunsHold == ASSUME BenchInv PROVE NumbersComeFromGoodRuns
<1>1. ASSUME NEW c \in Commands, Opened(c), OwnSession(c)
      PROVE  LET good == {e.cell : e \in {f \in Range(Files(c).timeline) : f.ok}}
             IN  /\ DOMAIN Files(c).raw \subseteq good
                 /\ \A rep \in Files(c).report : \A row \in rep.rows : \A a \in row.arms :
                      \E g \in good : g[2] = a /\ row.name \in LeftBy(c, g[1], a).timed
  <2>1. PICK r : r = run[c]
    OBVIOUS
  <2>2. PICK f : f = Files(c)
    OBVIOUS
  <2>3. SessionOK(r, f) /\ RunOK(r)
    BY <1>1, <2>1, <2>2 DEF BenchInv, Files
  <2>4. /\ r.values \subseteq GoodCells(f) /\ DOMAIN f.raw \subseteq GoodCells(f) /\ Filed(r, f)
        /\ r.at # "done" => f.report = {}
        /\ \A rep \in f.report : rep.rows = Compare(r.results, r.baseline, r.order)
    BY <2>3 DEF SessionOK
  <2>5. ASSUME NEW rep \in f.report, NEW row \in rep.rows, NEW a \in row.arms
        PROVE  \E g \in GoodCells(f) : g[2] = a /\ row.name \in LeftBy(c, g[1], a).timed
    <3>1. row \in Compare(r.results, r.baseline, r.order)
      BY <2>4
    <3>2. <<a, row.name>> \in r.results
      BY <3>1 DEF Compare
    <3>3. PICK v \in r.values : v[2] = a /\ row.name \in Left(r, f, v).timed
      BY <2>4, <3>2 DEF Filed
    <3>4. Reported(r)
      BY <2>3, <2>4, <2>5 DEF RunOK
    <3>5. v = <<v[1], v[2]>>
      BY <3>4, DoneIs
    <3>6. LeftBy(c, v[1], a) = Left(r, f, v)
      BY <2>1, <2>2, <3>3, <3>5 DEF LeftBy, Left
    <3> QED
      BY <2>4, <3>3, <3>6
  <2>6. GoodCells(f) = {e.cell : e \in {g \in Range(Files(c).timeline) : g.ok}}
    BY <2>2, Zenon DEF GoodCells
  <2>7. PICK good : good = {e.cell : e \in {g \in Range(Files(c).timeline) : g.ok}}
    OBVIOUS
  <2>8. /\ DOMAIN Files(c).raw \subseteq good
        /\ \A rep \in Files(c).report : \A row \in rep.rows : \A a \in row.arms :
             \E g \in good : g[2] = a /\ row.name \in LeftBy(c, g[1], a).timed
    <3>1. GoodCells(f) = good
      BY <2>6, <2>7, Zenon
    <3> QED
      BY <3>1, <2>2, <2>4, <2>5, Zenon
  <2> QED
    BY <2>7, <2>8, Zenon
<1> QED
  BY <1>1, Zenon DEF NumbersComeFromGoodRuns

\* What was chosen is what BaselineIsChosen asks.
LEMMA BaselineHolds == ASSUME BenchInv PROVE BaselineIsChosen
<1>1. ASSUME NEW c \in Commands, run[c].at = "chosen", NEW a \in run[c].asked
      PROVE  LinedUp(run[c]) /\ BaselineFits(run[c], a.q, a.paths)
  BY <1>1 DEF BenchInv, RunOK, ArmsOK
<1> QED
  BY <1>1, Zenon DEF BaselineIsChosen, LinedUp, BaselineFits, More

\* The core that was chosen is one that PinnedAsAsked allows.
LEMMA PinHolds == ASSUME BenchInv PROVE PinnedAsAsked
<1>1. ASSUME NEW c \in Commands, run[c].at = "chosen", NEW a \in run[c].asked PROVE PinFits(a)
  BY <1>1 DEF BenchInv, RunOK, ArmsOK
<1> QED
  BY <1>1, Zenon DEF PinnedAsAsked, PinFits

\* What pyperf measured was confined.
LEMMA ConfinementHolds == ASSUME BenchInv PROVE PyperfIsConfined
<1>1. ASSUME NEW c \in Commands, Opened(c), OwnSession(c) PROVE Confined(run[c], Files(c))
  BY <1>1 DEF BenchInv, SessionOK, Files
<1> QED
  BY <1>1, Zenon DEF PyperfIsConfined, Confined

\* So the invariant is strong enough.
LEMMA Accounted == BenchInv => NumbersAreAccounted
  BY TypeHolds, MeanHolds, AccountHolds, GoodRunsHold, BaselineHolds, PinHolds, ConfinementHolds
  DEF NumbersAreAccounted

\* Whatever is asked of how many commands, whichever cells fail and whenever one
\* is killed, a session's numbers are those of the interpreters, the core and
\* the benchmarks it names, as long as no other command shares its directory
\* (runBench, runPyperfSuite, choosePin).
THEOREM NumbersAreEarned == BenchSpec => []NumbersAreAccounted
<1>1. BenchSpec => []BenchInv
  BY BeganWell, BenchStep, PTL DEF BenchSpec
<1> QED
  BY <1>1, Accounted, PTL

--------------------------------------------------------------------------------
(* What is done stays done.                                                   *)

\* The session of a command that is done stays as it is.
KeepsSession(c) ==
  run[c].at = "done" /\ OwnSession(c)' => run'[c] = run[c] /\ sessions'[run[c].stamp] = sessions[run[c].stamp]
SessionsStay == \A c \in Commands : KeepsSession(c)

\* A step of a command that leaves every session but its own.
Leaves(c) ==
  /\ run[c].at # "done" /\ run' = [run EXCEPT ![c] = run'[c]]
  /\ \A u \in DOMAIN sessions : sessions'[u] # sessions[u] => run'[c].at # "idle" /\ run'[c].asked = {} /\ run'[c].stamp = u

\* Such a step keeps the session of whoever is done.
LEMMA LeavesThem == ASSUME BenchInv, NEW d \in Commands, Leaves(d) PROVE SessionsStay
<1>1. SUFFICES ASSUME NEW c \in Commands, run[c].at = "done", OwnSession(c)'
               PROVE  run'[c] = run[c] /\ sessions'[run[c].stamp] = sessions[run[c].stamp]
  BY DEF SessionsStay, KeepsSession
<1>2. c # d /\ run'[c] = run[c]
  BY <1>1 DEF Leaves, BenchInv
<1>3. run[c].stamp \in DOMAIN sessions
  BY <1>1, HasSession
<1>4. Opened(d)' => run'[d].stamp # run'[c].stamp
  BY <1>1, <1>2 DEF OwnSession
<1>5. sessions'[run[c].stamp] # sessions[run[c].stamp] => Opened(d)' /\ run'[d].stamp = run[c].stamp
  BY <1>3 DEF Leaves, Opened
<1> QED
  BY <1>2, <1>4, <1>5

\* What it takes to be one.
LEMMA LeavesOthers ==
  ASSUME BenchInv, NEW c \in Commands, NEW s, run' = [run EXCEPT ![c] = s], run[c].at # "done",
         \A u \in DOMAIN sessions : sessions'[u] # sessions[u] => s.at # "idle" /\ s.asked = {} /\ s.stamp = u
  PROVE  Leaves(c)
<1>1. DOMAIN run = Commands
  BY DEF BenchInv
<1>2. run'[c] = s
  BY <1>1
<1> QED
  BY <1>2 DEF Leaves

\* Before it is done a command writes where its stamp says.
LEMMA WriterLeaves ==
  ASSUME BenchInv, NEW c \in Commands, run[c].at \in {"preparing", "installing", "measuring"},
         NEW s, run' = [run EXCEPT ![c] = s], s.at # "idle", s.asked = run[c].asked, s.stamp = run[c].stamp,
         \A u \in DOMAIN sessions : u # run[c].stamp => sessions'[u] = sessions[u]
  PROVE  Leaves(c)
<1>1. run[c].asked = {}
  BY HasSession
<1> QED
  BY <1>1, LeavesOthers

\* The actions that write to a session.
LEMMA WritesElsewhere ==
  ASSUME BenchInv, NEW c \in Commands, NEW ok, NEW file, NEW t,
         OpenSession(c) \/ Account(c) \/ AccountMicro(c) \/ Measure(c, ok, file) \/ MeasureMicro(c, ok, t) \/ Finish(c)
  PROVE  Leaves(c)
<1>1. RunOK(run[c]) /\ DOMAIN run[c] = RunFields
  BY DEF BenchInv, RunOK
<1>2. CASE OpenSession(c)
  <2>1. PICK s : s = [run[c] EXCEPT !.at = "preparing", !.asked = {}, !.stamp = clock]
    OBVIOUS
  <2>2. s.at = "preparing" /\ s.asked = {} /\ s.stamp = clock
    BY <1>1, <2>1 DEF RunFields
  <2>3. run[c].at = "chosen" /\ run' = [run EXCEPT ![c] = s] /\ \A u \in DOMAIN sessions : u # clock => sessions'[u] = sessions[u]
    BY <1>2, <2>1 DEF OpenSession, Goes, With
  <2> QED
    BY <2>2, <2>3, LeavesOthers
<1>3. CASE Account(c)
  <2>1. CASE run[c].cells = <<>>
    <3>1. run[c].at # "done" /\ run' = [run EXCEPT ![c] = [run[c] EXCEPT !.at = "failed"]] /\ sessions' = sessions
      BY <1>3, <2>1 DEF Account, Goes
    <3> QED
      BY <3>1, LeavesOthers
  <2>2. CASE run[c].cells # <<>>
    <3>1. PICK s : s = [run[c] EXCEPT !.at = "measuring", !.cells = Queue(run[c].order, @)]
      OBVIOUS
    <3>2. run[c].at = "installing" /\ run' = [run EXCEPT ![c] = s] /\ WriteAccounting(c, run[c].missing)
      BY <1>3, <2>2, <3>1 DEF Account, Goes
    <3>3. s.at = "measuring" /\ s.asked = run[c].asked /\ s.stamp = run[c].stamp
      BY <1>1, <3>1 DEF RunFields
    <3>4. \A u \in DOMAIN sessions : u # run[c].stamp => sessions'[u] = sessions[u]
      BY <3>2 DEF WriteAccounting
    <3> QED
      BY <3>2, <3>3, <3>4, WriterLeaves
  <2> QED
    BY <2>1, <2>2
<1>4. CASE AccountMicro(c)
  <2>1. PICK s : s = [run[c] EXCEPT !.at = "measuring", !.cells = Queue(run[c].order, <<"micro">>)]
    OBVIOUS
  <2>2. run[c].at = "preparing" /\ run' = [run EXCEPT ![c] = s] /\ WriteAccounting(c, {})
    BY <1>4, <2>1 DEF AccountMicro, Goes
  <2>3. s.at = "measuring" /\ s.asked = run[c].asked /\ s.stamp = run[c].stamp
    BY <1>1, <2>1 DEF RunFields
  <2>4. \A u \in DOMAIN sessions : u # run[c].stamp => sessions'[u] = sessions[u]
    BY <2>2 DEF WriteAccounting
  <2> QED
    BY <2>2, <2>3, <2>4, WriterLeaves
<1>5. CASE Measure(c, ok, file)
  <2> DEFINE cell == Head(run[c].cells)
             raw == Kept(Files(c).raw, cell, ok, file)
             found == Found(raw, cell)
             good == Usable(ok, found)
             times == IF ok /\ ~good THEN 2 ELSE 1
  <2>1. PICK s : s = [run[c] EXCEPT !.cells = Rest(@, good), !.written = @ + times,
                                    !.values = IF good THEN @ \cup {cell} ELSE @,
                                    !.results = IF good THEN @ \cup {<<cell[2], n>> : n \in found.timed} ELSE @,
                                    !.failures = IF good THEN @ ELSE Append(@, cell)]
    OBVIOUS
  <2>2. run[c].at = "measuring" /\ run' = [run EXCEPT ![c] = s]
    BY <1>5, <2>1, Zenon DEF Measure, Goes
  <2>3. s.at = run[c].at /\ s.asked = run[c].asked /\ s.stamp = run[c].stamp
    BY <1>1, <2>1 DEF RunFields
  <2>4. \A u \in DOMAIN sessions : u # run[c].stamp => sessions'[u] = sessions[u]
    <3>2. PICK mid : mid = Record(c, Event(c, cell, ok, run[c].pinned), times)
      OBVIOUS
    <3>3. sessions' = [mid EXCEPT ![run[c].stamp].raw = raw]
      BY <1>5, <3>2, Zenon DEF Measure
    <3>4. DOMAIN mid = DOMAIN sessions /\ \A u \in DOMAIN sessions : u # run[c].stamp => mid[u] = sessions[u]
      BY <3>2 DEF Record
    <3> HIDE DEF raw
    <3> QED
      BY <3>3, <3>4
  <2> QED
    BY <2>2, <2>3, <2>4, WriterLeaves
<1>6. CASE MeasureMicro(c, ok, t)
  <2> DEFINE cell == Head(run[c].cells)
             event == Event(c, cell, ok, run[c].pinned /\ t)
  <2>1. PICK s : s = [run[c] EXCEPT !.at = IF ok THEN @ ELSE "failed", !.cells = Tail(@), !.written = @ + 1,
                        !.values = IF ok THEN @ \cup {cell} ELSE @,
                        !.results = IF ok THEN @ \cup {<<cell[2], n>> : n \in NamesIn["micro"]} ELSE @]
    OBVIOUS
  <2>2. run[c].at = "measuring" /\ run' = [run EXCEPT ![c] = s] /\ sessions' = Record(c, event, 1)
    BY <1>6, <2>1, Zenon DEF MeasureMicro, Goes
  <2>3. s.at # "idle" /\ s.asked = run[c].asked /\ s.stamp = run[c].stamp
    BY <1>1, <2>1, <2>2 DEF RunFields
  <2>4. \A u \in DOMAIN sessions : u # run[c].stamp => sessions'[u] = sessions[u]
    BY <2>2 DEF Record
  <2> QED
    BY <2>2, <2>3, <2>4, WriterLeaves
<1>7. CASE Finish(c)
  <2>1. PICK s : s = [run[c] EXCEPT !.at = "done", !.missing = run[c].missing \cup SummarizeFailures(run[c].failures)]
    OBVIOUS
  <2>2. run[c].at = "measuring" /\ run' = [run EXCEPT ![c] = s] /\ \A u \in DOMAIN sessions : u # run[c].stamp => sessions'[u] = sessions[u]
    BY <1>7, <2>1 DEF Finish, Goes
  <2>3. s.at = "done" /\ s.asked = run[c].asked /\ s.stamp = run[c].stamp
    BY <1>1, <2>1 DEF RunFields
  <2> QED
    BY <2>2, <2>3, WriterLeaves
<1> QED
  BY <1>2, <1>3, <1>4, <1>5, <1>6, <1>7

\* So no step touches the session of a command that is done.
LEMMA StepLeaves == ASSUME BenchInv, [BenchNext]_benchVars PROVE SessionsStay
<1>1. CASE UNCHANGED <<run, sessions>>
  BY <1>1 DEF SessionsStay, KeepsSession
<1>2. ASSUME NEW c \in Commands, run[c].at # "done", NEW s, Goes(c, s), sessions' = sessions PROVE SessionsStay
  BY <1>2, LeavesOthers, LeavesThem DEF Goes
<1>3. ASSUME NEW c \in Commands, NEW suite, NEW q, NEW m, NEW f, NEW p, ChooseArms(c, suite, q, m, f, p) PROVE SessionsStay
  BY <1>2, <1>3 DEF ChooseArms
<1>4. ASSUME NEW c \in Commands, NEW ok, Prepare(c, ok) PROVE SessionsStay
  BY <1>2, <1>4 DEF Prepare
<1>5. ASSUME NEW c \in Commands, NEW failed, Install(c, failed) PROVE SessionsStay
  BY <1>2, <1>5 DEF Install
<1>6. ASSUME NEW c \in Commands, Killed(c) PROVE SessionsStay
  BY <1>2, <1>6 DEF Killed
<1>7. ASSUME NEW c \in Commands, NEW ok, NEW file, NEW t,
             OpenSession(c) \/ Account(c) \/ AccountMicro(c) \/ Measure(c, ok, file) \/ MeasureMicro(c, ok, t) \/ Finish(c)
      PROVE  SessionsStay
  BY <1>7, WritesElsewhere, LeavesThem
<1>8. CASE UNCHANGED benchVars \/ Tick
  BY <1>1, <1>8 DEF benchVars, Tick
<1>9. CASE BenchNext
  BY <1>3, <1>4, <1>5, <1>6, <1>7, <1>8, <1>9 DEF BenchNext
<1> QED
  BY <1>8, <1>9

\* "Never overwritten" (cli/bench.go) is true of every session that its command
\* shares with no other: once a command is done, nothing changes what it left.
\* So what the run bench_sessions shows is all that can happen to a report.
THEOREM OwnSessionsStay == BenchSpec => [][SessionsStay]_benchVars
<1>1. BenchSpec => []BenchInv
  BY BeganWell, BenchStep, PTL DEF BenchSpec
<1>2. BenchInv /\ [BenchNext]_benchVars => SessionsStay
  BY StepLeaves
<1> QED
  BY <1>1, <1>2, PTL DEF BenchSpec
================================================================================
