------------------------------- MODULE FetchCache ------------------------------
(***************************************************************************)
(* The download cache of internal/sources: processes that fetch one pinned *)
(* source into dist/src. A .done marker is trusted without hashing; behind *)
(* it, everything happens under a flock that is waited for off-thread, the *)
(* mirrors are tried in order, and a download reaches its final name only  *)
(* after its checksum matched the pin.                                     *)
(*                                                                         *)
(* Lock, marker and file are named after the sha256 of the source, so      *)
(* sources do not interact and one is enough.                              *)
(***************************************************************************)
EXTENDS Naturals, FiniteSets

CONSTANTS
  Proc,          \* processes sharing dist/src
  Offline,       \* SUBSET Proc: those started with --offline
  Mirrors,       \* number of s.URLs
  Answer,        \* [1..Mirrors -> Answers]: how each mirror behaves
  MaxLaunches,   \* bound: processes started
  MaxCrashes,    \* bound: processes killed
  MaxSignals,    \* bound: processes interrupted
  MaxFaults,     \* bound: transfers from good mirrors that break off
  MaxDisk,       \* bound: file system errors
  MaxMeddling    \* bound: markers and tarballs deleted by hand

Answers == {"good", "corrupt", "gone", "flaky", "mute"}

ASSUME MirrorAssumption ==
  Mirrors \in Nat /\ Answer \in [1..Mirrors -> Answers] /\ Offline \subseteq Proc

ASSUME CapsAssumption ==
  /\ MaxLaunches \in Nat /\ MaxCrashes \in Nat /\ MaxSignals \in Nat
  /\ MaxFaults \in Nat /\ MaxDisk \in Nat /\ MaxMeddling \in Nat

VARIABLES
  \* dist/src
  file,       \* "none", "good" (matches the pin) or "bad", under its final name
  marker,     \* the .done file exists
  \* per process
  pc,         \* where its Fetch is, or how it ended
  flock,      \* its lock fd: "none", "waiting" in the kernel, or "held"
  cancelled,  \* ctx is done
  url, try,   \* the mirror and the attempt at it
  part,       \* what its temporary file holds
  \* counters behind the bounds
  launches, crashes, signals, faults, disk, meddling

shared == <<file, marker>>
progress == <<url, try, part>>
counters == <<launches, crashes, signals, faults, disk, meddling>>
vars == <<shared, pc, flock, cancelled, progress, counters>>

AttemptsPerURL == 3

\* Stages under the lock, and the ways a process is not inside Fetch.
Locked == {"reMarker", "reFile", "hash", "remove", "download", "body",
           "rename", "mark", "backoff"}
Ended == {"ok", "failed", "canceled"}
Away == {"idle"} \cup Ended
Asking == {"download", "body", "rename", "backoff"}
Stages == {"seeMarker", "seeFile", "lock"} \cup Locked \cup Away

GoTo(p, s) == pc' = [pc EXCEPT ![p] = s]

\* Fetch returns; under the lock, the deferred unlock runs.
End(p, how) ==
  /\ GoTo(p, how)
  /\ flock' = [flock EXCEPT ![p] = IF pc[p] \in Locked THEN "none" ELSE @]
  /\ part' = [part EXCEPT ![p] = "none"]

DiskFault == disk < MaxDisk /\ disk' = disk + 1

Init ==
  /\ file \in {"none", "good", "bad"}
  /\ marker \in {FALSE, file = "good"}
  /\ pc = [p \in Proc |-> "idle"]
  /\ flock = [p \in Proc |-> "none"]
  /\ cancelled = [p \in Proc |-> FALSE]
  /\ url = [p \in Proc |-> 1]
  /\ try = [p \in Proc |-> 0]
  /\ part = [p \in Proc |-> "none"]
  /\ launches = 0 /\ crashes = 0 /\ signals = 0
  /\ faults = 0 /\ disk = 0 /\ meddling = 0

--------------------------------------------------------------------------------
(* Processes *)

\* A new process starts a Fetch; whatever fd the old one had died with it.
Launch(p) ==
  /\ pc[p] \in Away /\ launches < MaxLaunches
  /\ launches' = launches + 1
  /\ GoTo(p, "seeMarker")
  /\ flock' = [flock EXCEPT ![p] = "none"]
  /\ cancelled' = [cancelled EXCEPT ![p] = FALSE]
  /\ url' = [url EXCEPT ![p] = 1]
  /\ try' = [try EXCEPT ![p] = 0]
  /\ UNCHANGED <<shared, part, crashes, signals, faults, disk, meddling>>

Interrupt(p) ==
  /\ pc[p] \notin Away /\ ~cancelled[p] /\ signals < MaxSignals
  /\ signals' = signals + 1
  /\ cancelled' = [cancelled EXCEPT ![p] = TRUE]
  /\ UNCHANGED <<shared, pc, flock, progress, launches, crashes, faults, disk, meddling>>

\* Killed: the kernel closes its fds. The temporary file stays behind under a
\* name nobody else uses.
Crash(p) ==
  /\ pc[p] \notin Away /\ crashes < MaxCrashes
  /\ crashes' = crashes + 1
  /\ GoTo(p, "idle")
  /\ flock' = [flock EXCEPT ![p] = "none"]
  /\ part' = [part EXCEPT ![p] = "none"]
  /\ UNCHANGED <<shared, cancelled, url, try, launches, signals, faults, disk, meddling>>

\* "A marker someone deleted", or the tarball beside it.
DeleteByHand ==
  /\ meddling < MaxMeddling
  /\ meddling' = meddling + 1
  /\ \/ marker /\ marker' = FALSE /\ UNCHANGED file
     \/ file # "none" /\ file' = "none" /\ UNCHANGED marker
  /\ UNCHANGED <<pc, flock, cancelled, progress, launches, crashes, signals, faults, disk>>

--------------------------------------------------------------------------------
(* Fetch: the marker, before and under the lock *)

SeeMarker(p) ==
  /\ pc[p] \in {"seeMarker", "reMarker"}
  /\ GoTo(p, IF pc[p] = "seeMarker" THEN IF marker THEN "seeFile" ELSE "lock"
                                    ELSE IF marker THEN "reFile" ELSE "hash")
  /\ UNCHANGED <<shared, flock, cancelled, progress, counters>>

\* The marker was there and a regular file is: trusted without hashing.
TrustFile(p) ==
  /\ pc[p] \in {"seeFile", "reFile"} /\ file # "none"
  /\ End(p, "ok")
  /\ UNCHANGED <<shared, cancelled, url, try, counters>>

MissFile(p) ==
  /\ pc[p] \in {"seeFile", "reFile"} /\ file = "none"
  /\ GoTo(p, IF pc[p] = "seeFile" THEN "lock" ELSE "hash")
  /\ UNCHANGED <<shared, flock, cancelled, progress, counters>>

--------------------------------------------------------------------------------
(* Fetch: the lock, waited for by a goroutine of its own *)

\* lockExclusive opens the lock file and starts the goroutine that blocks.
CallFlock(p) ==
  /\ pc[p] = "lock" /\ flock[p] = "none"
  /\ flock' = [flock EXCEPT ![p] = "waiting"]
  /\ UNCHANGED <<shared, pc, cancelled, progress, counters>>

\* The kernel grants a waiting fd, abandoned or not. Slip: LOCK_SH is asked for.
AskedShared(p) == p \in Proc
NobodyHolds(p) == \A q \in Proc : flock[q] # "held"

Granted(p) ==
  /\ flock[p] = "waiting" /\ NobodyHolds(p)
  /\ flock' = [flock EXCEPT ![p] = "held"]
  /\ UNCHANGED <<shared, pc, cancelled, progress, counters>>

Proceed(p) ==
  /\ pc[p] = "lock" /\ flock[p] = "held"
  /\ GoTo(p, "reMarker")
  /\ UNCHANGED <<shared, flock, cancelled, progress, counters>>

\* ctx is done first, or the select prefers it: the fd is left to the goroutine.
AbandonLock(p) ==
  /\ pc[p] = "lock" /\ flock[p] # "none" /\ cancelled[p]
  /\ GoTo(p, "canceled")
  /\ UNCHANGED <<shared, flock, cancelled, progress, counters>>

\* The goroutine gets the abandoned lock and closes the fd. Slip: it only drains
\* the channel.
NotClosed(p) == "held"
AfterClose(p) == "none"

CloseOrphan(p) ==
  /\ pc[p] = "canceled" /\ flock[p] = "held"
  /\ flock' = [flock EXCEPT ![p] = AfterClose(p)]
  /\ UNCHANGED <<shared, pc, cancelled, progress, counters>>

\* The process whose Fetch is over exits, some time.
Exit(p) ==
  /\ pc[p] \in Ended
  /\ GoTo(p, "idle")
  /\ flock' = [flock EXCEPT ![p] = "none"]
  /\ UNCHANGED <<shared, cancelled, progress, counters>>

--------------------------------------------------------------------------------
(* Fetch: a file without a marker *)

\* Slips: any leftover file is taken for the source; none is, and all are removed.
AnyFileMatches == file # "none"
NoFileMatches == FALSE
SumMatches == file = "good"

HashFile(p) ==
  /\ pc[p] = "hash"
  /\ \/ SumMatches /\ GoTo(p, "mark") /\ UNCHANGED <<flock, part>>
     \/ ~SumMatches /\ file # "none" /\ GoTo(p, "remove") /\ UNCHANGED <<flock, part>>
     \/ file = "none" /\ (p \in Offline \/ Mirrors = 0) /\ End(p, "failed")
     \/ /\ file = "none" /\ p \notin Offline /\ Mirrors > 0
        /\ GoTo(p, "download") /\ UNCHANGED <<flock, part>>
  /\ UNCHANGED <<shared, cancelled, url, try, counters>>

RemoveCorrupt(p) ==
  /\ pc[p] = "remove"
  /\ file' = "none"
  /\ IF file = "none" \/ p \in Offline \/ Mirrors = 0
       THEN End(p, "failed") ELSE GoTo(p, "download") /\ UNCHANGED <<flock, part>>
  /\ UNCHANGED <<marker, cancelled, url, try, counters>>

--------------------------------------------------------------------------------
(* Fetch: the mirrors *)

\* The loops over s.URLs and attempts after a failed download. Slip: the errors
\* that no retry can fix are retried like the others.
RetryAll(a) == a \in Answers
Retryable(a) == a \in {"good", "flaky", "mute"}

\* The attempts at a mirror are its own. Slip: the count is not reset.
TriesSoFar(p) == try[p]
NoTries(p) == 0

MirrorsLeft(p) == url[p] < Mirrors

AttemptFailed(p, retryable) ==
  /\ part' = [part EXCEPT ![p] = "none"]
  /\ IF retryable /\ try[p] + 1 < AttemptsPerURL
       THEN /\ try' = [try EXCEPT ![p] = @ + 1]
            /\ GoTo(p, "backoff")
            /\ UNCHANGED <<url, flock>>
       ELSE IF MirrorsLeft(p)
       THEN /\ url' = [url EXCEPT ![p] = @ + 1]
            /\ try' = [try EXCEPT ![p] = NoTries(p)]
            /\ GoTo(p, "download")
            /\ UNCHANGED flock
       ELSE /\ GoTo(p, "failed")
            /\ flock' = [flock EXCEPT ![p] = "none"]
            /\ UNCHANGED <<url, try>>

NextAttempt(p) == AttemptFailed(p, Retryable(Answer[url[p]]))

BackoffOver(p) ==
  /\ pc[p] = "backoff"
  /\ GoTo(p, "download")
  /\ UNCHANGED <<shared, flock, cancelled, progress, counters>>

\* The mirror answers 200: the temporary file is created and fills.
StartBody(p) ==
  /\ pc[p] = "download" /\ Answer[url[p]] \in {"good", "corrupt", "mute"}
  /\ part' = [part EXCEPT ![p] = "partial"]
  /\ GoTo(p, "body")
  /\ UNCHANGED <<shared, flock, cancelled, url, try, counters>>

\* A 4xx, a 5xx or a refused connection.
Refused(p) ==
  /\ pc[p] = "download" /\ Answer[url[p]] \in {"gone", "flaky"} /\ ~cancelled[p]
  /\ NextAttempt(p)
  /\ UNCHANGED <<shared, cancelled, counters>>

\* The body ended, was synced and closed. Slip: its checksum is not compared.
SumUnchecked(p) == part[p] # "none"
Verified(p) == Answer[url[p]] = "good"

BodyEnds(p) ==
  /\ pc[p] = "body" /\ Answer[url[p]] # "mute"
  /\ \/ /\ Verified(p)
        /\ part' = [part EXCEPT ![p] = Answer[url[p]]]
        /\ GoTo(p, "rename")
        /\ UNCHANGED <<flock, url, try>>
     \/ ~Verified(p) /\ ~cancelled[p] /\ NextAttempt(p)
  /\ UNCHANGED <<shared, cancelled, counters>>

\* No byte for stallTimeout.
Stalled(p) ==
  /\ pc[p] = "body" /\ Answer[url[p]] = "mute" /\ ~cancelled[p]
  /\ NextAttempt(p)
  /\ UNCHANGED <<shared, cancelled, counters>>

\* A good mirror breaks off, before or during the body.
BreaksOff(p) ==
  /\ pc[p] \in {"download", "body"} /\ Answer[url[p]] = "good" /\ ~cancelled[p]
  /\ faults < MaxFaults /\ faults' = faults + 1
  /\ NextAttempt(p)
  /\ UNCHANGED <<shared, cancelled, launches, crashes, signals, disk, meddling>>

\* A failed download, or the backoff, with ctx done.
FetchCanceled(p) ==
  /\ pc[p] \in {"download", "body", "backoff"} /\ cancelled[p]
  /\ End(p, "canceled")
  /\ UNCHANGED <<shared, cancelled, url, try, counters>>

Rename(p) ==
  /\ pc[p] = "rename"
  /\ file' = IF part[p] = "good" THEN "good" ELSE "bad"
  /\ part' = [part EXCEPT ![p] = "none"]
  /\ GoTo(p, "mark")
  /\ UNCHANGED <<marker, flock, cancelled, url, try, counters>>

Mark(p) ==
  /\ pc[p] = "mark"
  /\ marker' = TRUE
  /\ End(p, "ok")
  /\ UNCHANGED <<file, cancelled, url, try, counters>>

\* Opening the lock file, flock, hashing, removing or writing the marker fails; a
\* marker that could be created but not written exists all the same.
FetchFails(p) ==
  /\ \/ pc[p] \in {"hash", "remove", "mark"}
     \/ pc[p] = "lock" /\ flock[p] # "held"
  /\ DiskFault
  /\ marker' \in (IF pc[p] = "mark" THEN {marker, TRUE} ELSE {marker})
  /\ GoTo(p, "failed")
  /\ flock' = [flock EXCEPT ![p] = "none"]
  /\ UNCHANGED <<file, cancelled, progress, launches, crashes, signals, faults, meddling>>

\* Creating, writing or renaming the temporary file fails: one failed attempt,
\* which may be repeated whatever the mirror sends.
PartFails(p) ==
  /\ pc[p] \in {"body", "rename"} /\ DiskFault
  /\ IF cancelled[p] THEN End(p, "canceled") /\ UNCHANGED <<url, try>>
                     ELSE AttemptFailed(p, TRUE)
  /\ UNCHANGED <<shared, cancelled, launches, crashes, signals, faults, meddling>>

--------------------------------------------------------------------------------
(* Specification *)

FetchStep(p) ==
  \/ SeeMarker(p) \/ TrustFile(p) \/ MissFile(p)
  \/ CallFlock(p) \/ Proceed(p) \/ AbandonLock(p)
  \/ HashFile(p) \/ RemoveCorrupt(p)
  \/ BackoffOver(p) \/ StartBody(p) \/ Refused(p) \/ BodyEnds(p) \/ Stalled(p)
  \/ FetchCanceled(p) \/ Rename(p) \/ Mark(p)

Environment(p) ==
  \/ Launch(p) \/ Interrupt(p) \/ Crash(p) \/ Exit(p)
  \/ BreaksOff(p) \/ FetchFails(p) \/ PartFails(p)

Quiet == (\A p \in Proc : pc[p] \in Away) /\ UNCHANGED vars

Next ==
  \/ \E p \in Proc : FetchStep(p) \/ Granted(p) \/ CloseOrphan(p) \/ Environment(p)
  \/ DeleteByHand
  \/ Quiet

Spec == Init /\ [][Next]_vars

(***************************************************************************)
(* Fairness: goroutines run, timers fire, mirrors that talk finish, and    *)
(* flock queues are served in some order that starves nobody. Exit is not  *)
(* fair: the process that abandoned a lock may live on for ever.           *)
(***************************************************************************)
FairSpec ==
  /\ Spec
  /\ \A p \in Proc :
       WF_vars(FetchStep(p)) /\ SF_vars(Granted(p)) /\ WF_vars(CloseOrphan(p))

--------------------------------------------------------------------------------
(* Properties *)

\* A tarball with a marker matches its pin, whatever an older run left in its
\* place, whichever mirrors lied, and wherever a process was killed or a marker
\* deleted; and so does the tarball of a Fetch that returned without error.
TrustedMeansVerified ==
  marker \/ (\E p \in Proc : pc[p] = "ok") => file # "bad"

\* Two processes never check, remove or download the source at the same time,
\* although a cancelled one leaves its place in the lock queue to a goroutine.
OneFetcher ==
  \A p, q \in Proc : pc[p] \in Locked /\ flock[q] = "held" => p = q

\* No Fetch removes or spoils a tarball that matches its pin, whichever other
\* Fetch put it there after this one had decided what to do.
GoodFileStays ==
  [][file = "good" /\ file' # "good" => meddling' # meddling]_vars

\* A Fetch with one good mirror fails only for that mirror's own failures: the
\* mirrors before it cost attempts, never the result.
MirrorsDoNotInterfere ==
  \A p \in Proc : pc[p] = "failed" /\ p \notin Offline /\ disk + meddling = 0 =>
    faults >= AttemptsPerURL * Cardinality({u \in 1..Mirrors : Answer[u] = "good"})

\* A mirror that answered 4xx or sent other bytes is not asked again: only a disk
\* error has a Fetch back off before a mirror that no retry can mend.
NoHopelessRetry ==
  \A p \in Proc : pc[p] = "backoff" /\ disk = 0 =>
    Answer[url[p]] \notin {"gone", "corrupt"}

\* Every Fetch ends, whatever mute mirrors, cancelled waiters and kills it has
\* to wait for.
EveryFetchEnds == \A p \in Proc : pc[p] \notin Away ~> pc[p] \in Away

================================================================================
