---------------------------- MODULE FetchCacheProofs ---------------------------
(***************************************************************************)
(* Theorems about FetchCache for every set of processes, every list of     *)
(* mirrors and every bound.                                                *)
(***************************************************************************)
EXTENDS FetchCache, FiniteSetTheorems, TLAPS

(***************************************************************************)
(* The inductive invariant. Trust: every stage that leads to a returned    *)
(* path has seen a marker or a checksum since the last bad file went away, *)
(* and bad files do not come back, because only verified parts are         *)
(* renamed. Exclusion: the stages under the lock hold it, an fd that holds *)
(* it belongs to such a stage, to one about to enter, or to the goroutine  *)
(* of a cancelled waiter. A file to be removed was bad when it was hashed, *)
(* and nobody else can have replaced it since.                             *)
(***************************************************************************)
TypeInv ==
  /\ pc \in [Proc -> Stages]
  /\ flock \in [Proc -> {"none", "waiting", "held"}]
  /\ part \in [Proc -> {"none", "partial"} \cup Answers]
  /\ file \in {"none", "good", "bad"} /\ marker \in BOOLEAN

Trusting == {"seeFile", "reFile", "mark", "ok"}

Trust ==
  /\ marker \/ (\E p \in Proc : pc[p] \in Trusting) => file # "bad"
  /\ \A p \in Proc : pc[p] = "rename" => part[p] = "good"

Exclusion ==
  /\ \A p \in Proc : pc[p] \in Locked => flock[p] = "held"
  /\ \A p, q \in Proc : flock[p] = "held" /\ flock[q] = "held" => p = q

RemovesBad == \A p \in Proc : pc[p] = "remove" => file # "good"

IInv == TypeInv /\ Trust /\ Exclusion /\ RemovesBad

--------------------------------------------------------------------------------
(* The invariant is inductive *)

\* Every step keeps the shape of the state.
LEMMA TypeInvStep ==
  ASSUME TypeInv, [Next]_vars
  PROVE  TypeInv'
<1> USE DEF TypeInv, Stages, Locked, Away, Ended, Answers, GoTo, shared, progress
<1>1. ASSUME NEW p \in Proc, FetchStep(p) \/ Granted(p) \/ CloseOrphan(p) \/ Environment(p)
      PROVE  TypeInv'
  <2>1. CASE SeeMarker(p)  BY <2>1 DEF SeeMarker
  <2>2. CASE TrustFile(p)  BY <2>2 DEF TrustFile, End
  <2>3. CASE MissFile(p)  BY <2>3 DEF MissFile
  <2>4. CASE CallFlock(p)  BY <2>4 DEF CallFlock
  <2>5. CASE Proceed(p)  BY <2>5 DEF Proceed
  <2>6. CASE AbandonLock(p)  BY <2>6 DEF AbandonLock
  <2>7. CASE HashFile(p)  BY <2>7 DEF HashFile, End, SumMatches
  <2>8. CASE RemoveCorrupt(p)  BY <2>8 DEF RemoveCorrupt, End
  <2>9. CASE BackoffOver(p)  BY <2>9 DEF BackoffOver
  <2>10. CASE StartBody(p)  BY <2>10 DEF StartBody
  <2>11. CASE Refused(p)  BY <2>11 DEF Refused, NextAttempt, AttemptFailed
  <2>12. CASE BodyEnds(p)  BY <2>12 DEF BodyEnds, NextAttempt, AttemptFailed, Verified
  <2>13. CASE Stalled(p)  BY <2>13 DEF Stalled, NextAttempt, AttemptFailed
  <2>14. CASE FetchCanceled(p)  BY <2>14 DEF FetchCanceled, End
  <2>15. CASE Rename(p)  BY <2>15 DEF Rename
  <2>16. CASE Mark(p)  BY <2>16 DEF Mark, End
  <2>17. CASE Granted(p)  BY <2>17 DEF Granted, NobodyHolds
  <2>18. CASE CloseOrphan(p)  BY <2>18 DEF CloseOrphan, AfterClose
  <2>19. CASE Launch(p)  BY <2>19 DEF Launch
  <2>20. CASE Interrupt(p)  BY <2>20 DEF Interrupt
  <2>21. CASE Crash(p)  BY <2>21 DEF Crash
  <2>22. CASE Exit(p)  BY <2>22 DEF Exit
  <2>23. CASE BreaksOff(p)  BY <2>23 DEF BreaksOff, NextAttempt, AttemptFailed
  <2>24. CASE FetchFails(p)  BY <2>24 DEF FetchFails
  <2>25. CASE PartFails(p)  BY <2>25 DEF PartFails, AttemptFailed, End
  <2>26. QED
    BY <1>1, <2>1, <2>2, <2>3, <2>4, <2>5, <2>6, <2>7, <2>8, <2>9, <2>10,
       <2>11, <2>12, <2>13, <2>14, <2>15, <2>16, <2>17, <2>18, <2>19, <2>20,
       <2>21, <2>22, <2>23, <2>24, <2>25
    DEF FetchStep, Environment
<1>2. CASE DeleteByHand  BY <1>2 DEF DeleteByHand
<1>3. CASE Quiet \/ UNCHANGED vars  BY <1>3 DEF Quiet, vars
<1>4. QED  BY <1>1, <1>2, <1>3 DEF Next

\* Every step keeps what a marker or a trusting stage vouches for.
LEMMA TrustStep ==
  ASSUME TypeInv, Trust, [Next]_vars
  PROVE  Trust'
<1> USE DEF TypeInv, Trust, Trusting, Locked, Away, Ended, GoTo, shared, progress
<1>1. ASSUME NEW p \in Proc, FetchStep(p) \/ Granted(p) \/ CloseOrphan(p) \/ Environment(p)
      PROVE  Trust'
  <2>1. CASE SeeMarker(p)  BY <2>1 DEF SeeMarker
  <2>2. CASE TrustFile(p)  BY <2>2 DEF TrustFile, End
  <2>3. CASE MissFile(p)  BY <2>3 DEF MissFile
  <2>4. CASE CallFlock(p)  BY <2>4 DEF CallFlock
  <2>5. CASE Proceed(p)  BY <2>5 DEF Proceed
  <2>6. CASE AbandonLock(p)  BY <2>6 DEF AbandonLock
  <2>7. CASE HashFile(p)  BY <2>7 DEF HashFile, End, SumMatches
  <2>8. CASE RemoveCorrupt(p)  BY <2>8 DEF RemoveCorrupt, End
  <2>9. CASE BackoffOver(p)  BY <2>9 DEF BackoffOver
  <2>10. CASE StartBody(p)  BY <2>10 DEF StartBody
  <2>11. CASE Refused(p)  BY <2>11 DEF Refused, NextAttempt, AttemptFailed
  <2>12. CASE BodyEnds(p)  BY <2>12 DEF BodyEnds, NextAttempt, AttemptFailed, Verified
  <2>13. CASE Stalled(p)  BY <2>13 DEF Stalled, NextAttempt, AttemptFailed
  <2>14. CASE FetchCanceled(p)  BY <2>14 DEF FetchCanceled, End
  <2>15. CASE Rename(p)  BY <2>15 DEF Rename
  <2>16. CASE Mark(p)  BY <2>16 DEF Mark, End
  <2>17. CASE Granted(p)  BY <2>17 DEF Granted, NobodyHolds
  <2>18. CASE CloseOrphan(p)  BY <2>18 DEF CloseOrphan, AfterClose
  <2>19. CASE Launch(p)  BY <2>19 DEF Launch
  <2>20. CASE Interrupt(p)  BY <2>20 DEF Interrupt
  <2>21. CASE Crash(p)  BY <2>21 DEF Crash
  <2>22. CASE Exit(p)  BY <2>22 DEF Exit
  <2>23. CASE BreaksOff(p)  BY <2>23 DEF BreaksOff, NextAttempt, AttemptFailed
  <2>24. CASE FetchFails(p)  BY <2>24 DEF FetchFails
  <2>25. CASE PartFails(p)  BY <2>25 DEF PartFails, AttemptFailed, End
  <2>26. QED
    BY <1>1, <2>1, <2>2, <2>3, <2>4, <2>5, <2>6, <2>7, <2>8, <2>9, <2>10,
       <2>11, <2>12, <2>13, <2>14, <2>15, <2>16, <2>17, <2>18, <2>19, <2>20,
       <2>21, <2>22, <2>23, <2>24, <2>25
    DEF FetchStep, Environment
<1>2. CASE DeleteByHand  BY <1>2 DEF DeleteByHand
<1>3. CASE Quiet \/ UNCHANGED vars  BY <1>3 DEF Quiet, vars
<1>4. QED  BY <1>1, <1>2, <1>3 DEF Next

\* Every step keeps the stages under the lock to its one holder.
LEMMA ExclusionStep ==
  ASSUME TypeInv, Exclusion, [Next]_vars
  PROVE  Exclusion'
<1> USE DEF TypeInv, Exclusion, Locked, Away, Ended, GoTo, shared, progress
<1>1. ASSUME NEW p \in Proc, FetchStep(p) \/ Granted(p) \/ CloseOrphan(p) \/ Environment(p)
      PROVE  Exclusion'
  <2>1. CASE SeeMarker(p)  BY <2>1 DEF SeeMarker
  <2>2. CASE TrustFile(p)  BY <2>2 DEF TrustFile, End
  <2>3. CASE MissFile(p)  BY <2>3 DEF MissFile
  <2>4. CASE CallFlock(p)  BY <2>4 DEF CallFlock
  <2>5. CASE Proceed(p)  BY <2>5 DEF Proceed
  <2>6. CASE AbandonLock(p)  BY <2>6 DEF AbandonLock
  <2>7. CASE HashFile(p)  BY <2>7 DEF HashFile, End, SumMatches
  <2>8. CASE RemoveCorrupt(p)  BY <2>8 DEF RemoveCorrupt, End
  <2>9. CASE BackoffOver(p)  BY <2>9 DEF BackoffOver
  <2>10. CASE StartBody(p)  BY <2>10 DEF StartBody
  <2>11. CASE Refused(p)  BY <2>11 DEF Refused, NextAttempt, AttemptFailed
  <2>12. CASE BodyEnds(p)  BY <2>12 DEF BodyEnds, NextAttempt, AttemptFailed, Verified
  <2>13. CASE Stalled(p)  BY <2>13 DEF Stalled, NextAttempt, AttemptFailed
  <2>14. CASE FetchCanceled(p)  BY <2>14 DEF FetchCanceled, End
  <2>15. CASE Rename(p)  BY <2>15 DEF Rename
  <2>16. CASE Mark(p)  BY <2>16 DEF Mark, End
  <2>17. CASE Granted(p)  BY <2>17 DEF Granted, NobodyHolds
  <2>18. CASE CloseOrphan(p)  BY <2>18 DEF CloseOrphan, AfterClose
  <2>19. CASE Launch(p)  BY <2>19 DEF Launch
  <2>20. CASE Interrupt(p)  BY <2>20 DEF Interrupt
  <2>21. CASE Crash(p)  BY <2>21 DEF Crash
  <2>22. CASE Exit(p)  BY <2>22 DEF Exit
  <2>23. CASE BreaksOff(p)  BY <2>23 DEF BreaksOff, NextAttempt, AttemptFailed
  <2>24. CASE FetchFails(p)  BY <2>24 DEF FetchFails
  <2>25. CASE PartFails(p)  BY <2>25 DEF PartFails, AttemptFailed, End
  <2>26. QED
    BY <1>1, <2>1, <2>2, <2>3, <2>4, <2>5, <2>6, <2>7, <2>8, <2>9, <2>10,
       <2>11, <2>12, <2>13, <2>14, <2>15, <2>16, <2>17, <2>18, <2>19, <2>20,
       <2>21, <2>22, <2>23, <2>24, <2>25
    DEF FetchStep, Environment
<1>2. CASE DeleteByHand  BY <1>2 DEF DeleteByHand
<1>3. CASE Quiet \/ UNCHANGED vars  BY <1>3 DEF Quiet, vars
<1>4. QED  BY <1>1, <1>2, <1>3 DEF Next

\* No step puts a good tarball where a Fetch is about to remove a bad one.
LEMMA RemovesBadStep ==
  ASSUME TypeInv, Trust, Exclusion, RemovesBad, [Next]_vars
  PROVE  RemovesBad'
<1> USE DEF TypeInv, Trust, Exclusion, RemovesBad, Locked, Away, Ended, GoTo, shared, progress
<1>1. ASSUME NEW p \in Proc, FetchStep(p) \/ Granted(p) \/ CloseOrphan(p) \/ Environment(p)
      PROVE  RemovesBad'
  <2>1. CASE SeeMarker(p)  BY <2>1 DEF SeeMarker
  <2>2. CASE TrustFile(p)  BY <2>2 DEF TrustFile, End
  <2>3. CASE MissFile(p)  BY <2>3 DEF MissFile
  <2>4. CASE CallFlock(p)  BY <2>4 DEF CallFlock
  <2>5. CASE Proceed(p)  BY <2>5 DEF Proceed
  <2>6. CASE AbandonLock(p)  BY <2>6 DEF AbandonLock
  <2>7. CASE HashFile(p)  BY <2>7 DEF HashFile, End, SumMatches
  <2>8. CASE RemoveCorrupt(p)  BY <2>8 DEF RemoveCorrupt, End
  <2>9. CASE BackoffOver(p)  BY <2>9 DEF BackoffOver
  <2>10. CASE StartBody(p)  BY <2>10 DEF StartBody
  <2>11. CASE Refused(p)  BY <2>11 DEF Refused, NextAttempt, AttemptFailed
  <2>12. CASE BodyEnds(p)  BY <2>12 DEF BodyEnds, NextAttempt, AttemptFailed, Verified
  <2>13. CASE Stalled(p)  BY <2>13 DEF Stalled, NextAttempt, AttemptFailed
  <2>14. CASE FetchCanceled(p)  BY <2>14 DEF FetchCanceled, End
  <2>15. CASE Rename(p)  BY <2>15 DEF Rename
  <2>16. CASE Mark(p)  BY <2>16 DEF Mark, End
  <2>17. CASE Granted(p)  BY <2>17 DEF Granted, NobodyHolds
  <2>18. CASE CloseOrphan(p)  BY <2>18 DEF CloseOrphan, AfterClose
  <2>19. CASE Launch(p)  BY <2>19 DEF Launch
  <2>20. CASE Interrupt(p)  BY <2>20 DEF Interrupt
  <2>21. CASE Crash(p)  BY <2>21 DEF Crash
  <2>22. CASE Exit(p)  BY <2>22 DEF Exit
  <2>23. CASE BreaksOff(p)  BY <2>23 DEF BreaksOff, NextAttempt, AttemptFailed
  <2>24. CASE FetchFails(p)  BY <2>24 DEF FetchFails
  <2>25. CASE PartFails(p)  BY <2>25 DEF PartFails, AttemptFailed, End
  <2>26. QED
    BY <1>1, <2>1, <2>2, <2>3, <2>4, <2>5, <2>6, <2>7, <2>8, <2>9, <2>10,
       <2>11, <2>12, <2>13, <2>14, <2>15, <2>16, <2>17, <2>18, <2>19, <2>20,
       <2>21, <2>22, <2>23, <2>24, <2>25
    DEF FetchStep, Environment
<1>2. CASE DeleteByHand  BY <1>2 DEF DeleteByHand
<1>3. CASE Quiet \/ UNCHANGED vars  BY <1>3 DEF Quiet, vars
<1>4. QED  BY <1>1, <1>2, <1>3 DEF Next

\* The four parts together hold in every reachable state.
THEOREM InductiveInvariant == Spec => []IInv
<1>1. Init => IInv
  BY DEF Init, IInv, TypeInv, Trust, Trusting, Exclusion, RemovesBad, Stages, Locked,
         Away, Ended
<1>2. IInv /\ [Next]_vars => IInv'
  BY TypeInvStep, TrustStep, ExclusionStep, RemovesBadStep DEF IInv
<1>3. QED  BY <1>1, <1>2, PTL DEF Spec

--------------------------------------------------------------------------------
(* Theorems *)

\* A marker, or a Fetch that returned a path, vouches only for bytes that matched
\* the pin.
THEOREM OnlyVerifiedIsTrusted == Spec => []TrustedMeansVerified
<1>1. IInv => TrustedMeansVerified
  BY DEF IInv, Trust, Trusting, TrustedMeansVerified
<1>2. QED  BY <1>1, InductiveInvariant, PTL

\* No two Fetches are past the lock together, abandoned waiters included.
THEOREM FetchersExclude == Spec => []OneFetcher
<1>1. IInv => OneFetcher
  BY DEF IInv, Exclusion, OneFetcher
<1>2. QED  BY <1>1, InductiveInvariant, PTL

\* Only a deletion by hand takes a good tarball away.
LEMMA OnlyHandsTakeIt ==
  ASSUME IInv, [Next]_vars, file = "good", file' # "good"
  PROVE  meddling' # meddling
<1>1. ASSUME NEW p \in Proc, FetchStep(p) \/ Granted(p) \/ CloseOrphan(p) \/ Environment(p)
      PROVE  FALSE
  <2>1. CASE RemoveCorrupt(p)
    BY <2>1 DEF RemoveCorrupt, IInv, RemovesBad
  <2>2. CASE Rename(p)
    BY <2>2 DEF Rename, IInv, Trust
  <2>3. ASSUME ~RemoveCorrupt(p), ~Rename(p)
        PROVE  file' = file
    BY <1>1, <2>3
    DEF FetchStep, Environment, shared, SeeMarker, TrustFile, MissFile, CallFlock, Proceed, AbandonLock, HashFile, BackoffOver, StartBody, Refused, BodyEnds, Stalled, FetchCanceled, Mark, Granted, CloseOrphan, Launch, Interrupt, Crash, Exit, BreaksOff, FetchFails, PartFails
  <2>4. QED  BY <2>1, <2>2, <2>3
<1>2. CASE DeleteByHand
  BY <1>2 DEF DeleteByHand, IInv
<1>3. CASE Quiet \/ UNCHANGED vars
  BY <1>3 DEF Quiet, vars, shared
<1>4. QED  BY <1>1, <1>2, <1>3 DEF Next

\* No step of a Fetch takes away a tarball that matches its pin, whatever it had
\* decided before another Fetch put the tarball there.
THEOREM GoodTarballSurvives == Spec => GoodFileStays
<1>1. IInv /\ [Next]_vars => [file = "good" /\ file' # "good" => meddling' # meddling]_vars
  BY OnlyHandsTakeIt
<1>2. QED  BY <1>1, InductiveInvariant, PTL DEF Spec, GoodFileStays

--------------------------------------------------------------------------------
(* What a failed attempt costs. The transfers that broke off pay for the      *)
(* attempts at the good mirrors that are behind a Fetch, and for those at the *)
(* one it is at; without disk errors and meddling nothing else fails there.   *)

Counts ==
  /\ disk \in Nat /\ meddling \in Nat /\ faults \in Nat
  /\ url \in [Proc -> Nat \ {0}]
  /\ try \in [Proc -> 0..(AttemptsPerURL - 1)]

GoodMirrors == {u \in 1..Mirrors : Answer[u] = "good"}
GoodBefore(n) == {u \in GoodMirrors : u < n}
Clean == disk = 0 /\ meddling = 0
Owed(p) == AttemptsPerURL * Cardinality(GoodBefore(url[p]))
             + (IF url[p] \in GoodMirrors THEN try[p] ELSE 0)

Tally(p) ==
  /\ url[p] = 1 \/ url[p] <= Mirrors
  /\ pc[p] \in Asking => Mirrors > 0
  /\ pc[p] = "remove" /\ meddling = 0 => file = "bad"
  /\ pc[p] = "backoff" /\ disk = 0 => Retryable(Answer[url[p]])
  /\ Clean => faults >= Owed(p)
  /\ Clean /\ pc[p] = "failed" /\ p \notin Offline =>
       faults >= AttemptsPerURL * Cardinality(GoodMirrors)

Paid == IInv /\ Counts /\ \A p \in Proc : Tally(p)

\* The good mirrors before the next one, and all of them, are finitely many.
LEMMA MirrorsCount ==
  ASSUME NEW n \in Nat
  PROVE  /\ Cardinality(GoodBefore(n)) \in Nat /\ Cardinality(GoodMirrors) \in Nat
         /\ n = 1 => Cardinality(GoodBefore(n)) = 0
         /\ n \in GoodMirrors => Cardinality(GoodBefore(n + 1)) = Cardinality(GoodBefore(n)) + 1
         /\ n \notin GoodMirrors => Cardinality(GoodBefore(n + 1)) = Cardinality(GoodBefore(n))
         /\ n >= Mirrors => GoodBefore(n + 1) = GoodMirrors
<1>1. IsFiniteSet(1..Mirrors)  BY FS_Interval, MirrorAssumption
<1>2. GoodMirrors \subseteq 1..Mirrors /\ GoodMirrors \subseteq Nat
  BY MirrorAssumption DEF GoodMirrors
<1>3. IsFiniteSet(GoodMirrors) /\ IsFiniteSet(GoodBefore(n))
  BY <1>1, <1>2, FS_Subset DEF GoodBefore
<1>4. Cardinality(GoodBefore(n)) \in Nat /\ Cardinality(GoodMirrors) \in Nat
  BY <1>3, FS_CardinalityType
<1>5. n = 1 => Cardinality(GoodBefore(n)) = 0
  <2>1. n = 1 => GoodBefore(n) = {}  BY DEF GoodBefore, GoodMirrors
  <2>2. QED  BY <2>1, FS_EmptySet
<1>n. \A u \in Nat : u < n + 1 <=> u < n \/ u = n  OBVIOUS
<1>6. n \in GoodMirrors => Cardinality(GoodBefore(n + 1)) = Cardinality(GoodBefore(n)) + 1
  <2>1. n \in GoodMirrors => GoodBefore(n + 1) = GoodBefore(n) \cup {n}
    BY <1>2, <1>n DEF GoodBefore
  <2>2. n \notin GoodBefore(n)  BY DEF GoodBefore
  <2>3. QED  BY <1>3, <2>1, <2>2, FS_AddElement
<1>7. n \notin GoodMirrors => GoodBefore(n + 1) = GoodBefore(n)
  BY <1>2, <1>n DEF GoodBefore
<1>8. n >= Mirrors => GoodBefore(n + 1) = GoodMirrors
  BY <1>2, MirrorAssumption DEF GoodBefore, GoodMirrors
<1>9. QED  BY <1>4, <1>5, <1>6, <1>7, <1>8

\* The loops after a failed attempt: back off, go on to the next mirror, or fail.
LEMMA AttemptOutcome ==
  ASSUME TypeInv, Counts, NEW p \in Proc, NEW r, AttemptFailed(p, r)
  PROVE  \/ /\ r /\ pc'[p] = "backoff" /\ url' = url
            /\ try[p] + 1 < AttemptsPerURL /\ try' = [try EXCEPT ![p] = try[p] + 1]
         \/ /\ ~(r /\ try[p] + 1 < AttemptsPerURL)
            /\ url[p] < Mirrors /\ pc'[p] = "download"
            /\ url' = [url EXCEPT ![p] = url[p] + 1] /\ try' = [try EXCEPT ![p] = 0]
         \/ /\ ~(r /\ try[p] + 1 < AttemptsPerURL)
            /\ ~(url[p] < Mirrors) /\ pc'[p] = "failed" /\ url' = url /\ try' = try
<1>1. pc \in [Proc -> Stages]  BY DEF TypeInv
<1>2. CASE r /\ try[p] + 1 < AttemptsPerURL
  BY <1>1, <1>2 DEF AttemptFailed, GoTo
<1>3. CASE ~(r /\ try[p] + 1 < AttemptsPerURL) /\ MirrorsLeft(p)
  BY <1>1, <1>3 DEF AttemptFailed, GoTo, MirrorsLeft, NoTries
<1>4. CASE ~(r /\ try[p] + 1 < AttemptsPerURL) /\ ~MirrorsLeft(p)
  BY <1>1, <1>4 DEF AttemptFailed, GoTo, MirrorsLeft
<1>5. QED  BY <1>2, <1>3, <1>4

\* A failed attempt is paid for when it was at no good mirror, when a transfer
\* broke off, or when the disk is to blame.
LEMMA AttemptIsPaid ==
  ASSUME IInv, Counts, NEW p \in Proc, Tally(p), pc[p] \in Asking, NEW r,
         AttemptFailed(p, r), Counts', disk' >= disk, meddling' >= meddling, faults' >= faults,
         \/ disk' > 0
         \/ /\ r = Retryable(Answer[url[p]])
            /\ url[p] \in GoodMirrors => faults' = faults + 1
  PROVE  Tally(p)'
<1> DEFINE u == url[p]
           t == try[p]
           c == Cardinality(GoodBefore(u))
<1>1. u \in 1..Mirrors /\ u \in Nat /\ t \in 0..2 /\ Mirrors \in Nat /\ AttemptsPerURL = 3
  BY MirrorAssumption DEF Tally, Counts, AttemptsPerURL
<1>2. /\ disk \in Nat /\ disk' \in Nat /\ meddling \in Nat /\ meddling' \in Nat
      /\ faults \in Nat /\ faults' \in Nat /\ url \in [Proc -> Nat \ {0}]
      /\ try \in [Proc -> 0..(AttemptsPerURL - 1)]
  BY DEF Counts
<1>3. Clean' => Clean /\ disk' = 0  BY <1>2 DEF Clean
<1>4. u \in GoodMirrors => Retryable(Answer[u])  BY DEF GoodMirrors, Retryable
<1>5. /\ c \in Nat /\ Cardinality(GoodBefore(u + 1)) \in Nat /\ Cardinality(GoodMirrors) \in Nat
      /\ u \in GoodMirrors => Cardinality(GoodBefore(u + 1)) = c + 1
      /\ u \notin GoodMirrors => Cardinality(GoodBefore(u + 1)) = c
      /\ u >= Mirrors => GoodBefore(u + 1) = GoodMirrors
  BY <1>1, MirrorsCount
<1>6. Clean' => /\ r = Retryable(Answer[u])
                /\ u \in GoodMirrors => faults' >= 3 * c + t + 1
                /\ u \notin GoodMirrors => faults' >= 3 * c
  BY <1>1, <1>2, <1>3, <1>5 DEF Tally, Owed
<1> HIDE DEF c
<1>7. CASE /\ r /\ pc'[p] = "backoff" /\ url' = url
           /\ t + 1 < AttemptsPerURL /\ try' = [try EXCEPT ![p] = t + 1]
  <2>1. try'[p] = t + 1 /\ url'[p] = u  BY <1>2, <1>7
  <2>2. Clean' => faults' >= Owed(p)'
    <3>1. Owed(p)' = AttemptsPerURL * c + (IF u \in GoodMirrors THEN t + 1 ELSE 0)
      BY <2>1 DEF Owed, c
    <3>2. QED  BY <1>1, <1>2, <1>5, <1>6, <3>1
  <2>3. disk' = 0 => Retryable(Answer[url'[p]])
    <3>1. disk' = 0 => r = Retryable(Answer[u])  BY <1>2
    <3>2. QED  BY <1>7, <2>1, <3>1
  <2>4. QED  BY <1>1, <1>7, <2>1, <2>2, <2>3 DEF Tally
<1>8. CASE /\ ~(r /\ t + 1 < AttemptsPerURL)
           /\ u < Mirrors /\ pc'[p] = "download"
           /\ url' = [url EXCEPT ![p] = u + 1] /\ try' = [try EXCEPT ![p] = 0]
  <2>1. try'[p] = 0 /\ url'[p] = u + 1 /\ u + 1 \in 1..Mirrors  BY <1>1, <1>2, <1>8
  <2>2. Owed(p)' = 3 * Cardinality(GoodBefore(u + 1))
    BY <1>1, <1>5, <2>1 DEF Owed
  <2>3. Clean' => faults' >= Owed(p)'
    BY <1>1, <1>2, <1>4, <1>5, <1>6, <1>8, <2>2
  <2>4. QED  BY <1>8, <2>1, <2>3 DEF Tally
<1>9. CASE /\ ~(r /\ t + 1 < AttemptsPerURL)
           /\ ~(u < Mirrors) /\ pc'[p] = "failed" /\ url' = url /\ try' = try
  <2>1. try'[p] = t /\ url'[p] = u  BY <1>9
  <2>2. Clean' => faults' >= Owed(p)'
    BY <1>1, <1>2, <1>5, <1>6, <2>1 DEF Owed, c
  <2>3. Clean' => faults' >= 3 * Cardinality(GoodMirrors)
    BY <1>1, <1>2, <1>4, <1>5, <1>6, <1>9
  <2>4. QED  BY <1>1, <1>9, <2>1, <2>2, <2>3 DEF Tally, Asking
<1>10. QED  BY <1>7, <1>8, <1>9, AttemptOutcome DEF IInv

\* The counters only grow, and the loop variables keep their range.
LEMMA CountsStep ==
  ASSUME TypeInv, Counts, [Next]_vars
  PROVE  Counts' /\ disk' >= disk /\ meddling' >= meddling /\ faults' >= faults
<1> DEFINE Grow == Counts' /\ disk' >= disk /\ meddling' >= meddling /\ faults' >= faults
<1>c. /\ disk \in Nat /\ meddling \in Nat /\ faults \in Nat
      /\ url \in [Proc -> Nat \ {0}] /\ try \in [Proc -> 0..(AttemptsPerURL - 1)]
      /\ AttemptsPerURL = 3
  BY DEF Counts, AttemptsPerURL
\* A step that leaves the loop variables alone.
<1>s. ASSUME url' = url, try' = try, disk' \in {disk, disk + 1},
             meddling' \in {meddling, meddling + 1}, faults' \in {faults, faults + 1}
      PROVE  Grow
  BY <1>c, <1>s DEF Counts
<1>f. ASSUME NEW p \in Proc, NEW r, AttemptFailed(p, r), disk' \in {disk, disk + 1},
             meddling' = meddling, faults' \in {faults, faults + 1}
      PROVE  Grow
  <2>1. url' \in [Proc -> Nat \ {0}] /\ try' \in [Proc -> 0..(AttemptsPerURL - 1)]
    BY <1>c, <1>f, AttemptOutcome
  <2>2. QED  BY <1>c, <1>f, <2>1 DEF Counts
<1>1. ASSUME NEW p \in Proc, FetchStep(p) \/ Granted(p) \/ CloseOrphan(p) \/ Environment(p)
      PROVE  Grow
  <2>1. CASE Launch(p)
    <3>1. url' \in [Proc -> Nat \ {0}] /\ try' \in [Proc -> 0..(AttemptsPerURL - 1)]
      BY <1>c, <2>1 DEF Launch
    <3>2. QED  BY <1>c, <2>1, <3>1 DEF Launch, Counts
  <2>2. CASE Refused(p)  BY <1>f, <2>2 DEF Refused, NextAttempt, counters
  <2>3. CASE Stalled(p)  BY <1>f, <2>3 DEF Stalled, NextAttempt, counters
  <2>4. CASE BodyEnds(p)
    BY <1>f, <1>s, <2>4 DEF BodyEnds, NextAttempt, counters
  <2>5. CASE BreaksOff(p)  BY <1>f, <2>5 DEF BreaksOff, NextAttempt
  <2>6. CASE PartFails(p)
    <3>1. /\ disk' = disk + 1 /\ meddling' = meddling /\ faults' = faults
          /\ (url' = url /\ try' = try) \/ AttemptFailed(p, TRUE)
      BY <2>6 DEF PartFails, DiskFault
    <3>2. QED  BY <1>f, <1>s, <3>1
  <2>7. CASE ~(Launch(p) \/ Refused(p) \/ Stalled(p) \/ BodyEnds(p) \/ BreaksOff(p)
                 \/ PartFails(p))
    <3>1. /\ url' = url /\ try' = try /\ meddling' = meddling /\ faults' = faults
          /\ disk' \in {disk, disk + 1}
      BY <1>1, <2>7 DEF FetchStep, Environment, SeeMarker, TrustFile, MissFile, CallFlock,
         Proceed, AbandonLock, HashFile, RemoveCorrupt, BackoffOver, StartBody,
         FetchCanceled, Rename, Mark, Granted, CloseOrphan, Interrupt, Crash, Exit,
         FetchFails, DiskFault, counters, progress
    <3>2. QED  BY <1>s, <3>1
  <2>8. QED  BY <2>1, <2>2, <2>3, <2>4, <2>5, <2>6, <2>7
<1>2. CASE DeleteByHand  BY <1>s, <1>2 DEF DeleteByHand, progress
<1>3. CASE Quiet \/ UNCHANGED vars  BY <1>s, <1>3 DEF Quiet, vars, progress, counters
<1>4. QED  BY <1>1, <1>2, <1>3 DEF Next

\* A Fetch whose own loops did not move owes what it owed.
LEMMA TallyKept ==
  ASSUME Counts, NEW q \in Proc, Tally(q), Counts',
         disk' >= disk, meddling' >= meddling, faults' >= faults,
         url'[q] = url[q], try'[q] = try[q],
         pc'[q] \in Asking => pc[q] \in Asking \/ Mirrors > 0,
         pc'[q] = "remove" /\ meddling' = 0 => file' = "bad",
         pc'[q] = "backoff" /\ disk' = 0 => pc[q] = "backoff",
         pc'[q] = "failed" /\ q \notin Offline /\ Clean' =>
           pc[q] = "failed" \/ Mirrors = 0
  PROVE  Tally(q)'
<1>1. /\ disk \in Nat /\ disk' \in Nat /\ meddling \in Nat /\ meddling' \in Nat
      /\ faults \in Nat /\ faults' \in Nat /\ url[q] \in Nat /\ try[q] \in Nat
  BY DEF Counts, AttemptsPerURL
<1>2. Clean' => Clean  BY <1>1 DEF Clean
<1>3. Owed(q)' = Owed(q) /\ Owed(q) \in Nat
  <2>1. Cardinality(GoodBefore(url[q])) \in Nat  BY <1>1, MirrorsCount
  <2>2. QED  BY <1>1, <2>1 DEF Owed, AttemptsPerURL
<1>4. /\ Cardinality(GoodMirrors) \in Nat
      /\ Mirrors = 0 => Cardinality(GoodMirrors) = 0
  <2>1. Cardinality(GoodMirrors) \in Nat  BY MirrorsCount
  <2>2. Mirrors = 0 => GoodMirrors = {}  BY DEF GoodMirrors
  <2>3. QED  BY <2>1, <2>2, FS_EmptySet
<1>5. Clean' => faults' >= Owed(q)'  BY <1>1, <1>2, <1>3 DEF Tally
<1>6. Clean' /\ pc'[q] = "failed" /\ q \notin Offline =>
        faults' >= AttemptsPerURL * Cardinality(GoodMirrors)
  BY <1>1, <1>2, <1>4 DEF Tally, AttemptsPerURL
<1>7. disk' = 0 => disk = 0  BY <1>1
<1>8. QED  BY <1>5, <1>6, <1>7 DEF Tally

\* Only the holder of the lock changes the file, unless somebody deletes it.
LEMMA FileKept ==
  ASSUME IInv, Counts, NEW p \in Proc, NEW q \in Proc, p # q,
         FetchStep(p) \/ Granted(p) \/ CloseOrphan(p) \/ Environment(p)
  PROVE  /\ pc'[q] = pc[q] /\ url'[q] = url[q] /\ try'[q] = try[q]
         /\ meddling' = meddling
         /\ pc[q] = "remove" => file' = file
<1> DEFINE Kept == pc'[q] = pc[q] /\ url'[q] = url[q] /\ try'[q] = try[q] /\ meddling' = meddling
<1>1. pc \in [Proc -> Stages] /\ url \in [Proc -> Nat \ {0}]
      /\ try \in [Proc -> 0..(AttemptsPerURL - 1)]
  BY DEF IInv, TypeInv, Counts
<1>2. Kept
  <2> USE <1>1 DEF GoTo, progress, counters
  <2>1. ASSUME NEW r, AttemptFailed(p, r)
        PROVE  pc'[q] = pc[q] /\ url'[q] = url[q] /\ try'[q] = try[q]
    BY <2>1 DEF AttemptFailed
  <2>2. CASE Launch(p)  BY <2>2 DEF Launch
  <2>3. CASE Refused(p)  BY <2>1, <2>3 DEF Refused, NextAttempt
  <2>4. CASE Stalled(p)  BY <2>1, <2>4 DEF Stalled, NextAttempt
  <2>5. CASE BodyEnds(p)  BY <2>1, <2>5 DEF BodyEnds, NextAttempt
  <2>6. CASE BreaksOff(p)  BY <2>1, <2>6 DEF BreaksOff, NextAttempt
  <2>7. CASE PartFails(p)  BY <2>1, <2>7 DEF PartFails, End
  <2>8. CASE HashFile(p)  BY <2>8 DEF HashFile, End
  <2>9. CASE RemoveCorrupt(p)  BY <2>9 DEF RemoveCorrupt, End
  <2>10. CASE ~(Launch(p) \/ Refused(p) \/ Stalled(p) \/ BodyEnds(p) \/ BreaksOff(p)
                 \/ PartFails(p) \/ HashFile(p) \/ RemoveCorrupt(p))
    BY <2>10 DEF FetchStep, Environment, SeeMarker, TrustFile, MissFile, CallFlock, Proceed,
       AbandonLock, BackoffOver, StartBody, FetchCanceled, Rename, Mark, Granted,
       CloseOrphan, Interrupt, Crash, Exit, FetchFails, End
  <2>11. QED  BY <2>2, <2>3, <2>4, <2>5, <2>6, <2>7, <2>8, <2>9, <2>10
<1>3. ASSUME pc[q] = "remove"  PROVE file' = file
  <2>1. pc[p] \notin Locked
    <3>1. pc[q] \in Locked  BY <1>3 DEF Locked
    <3>2. QED  BY <3>1 DEF IInv, Exclusion
  <2>2. ~RemoveCorrupt(p) /\ ~Rename(p)  BY <2>1 DEF RemoveCorrupt, Rename, Locked
  <2>3. QED
    BY <2>2 DEF FetchStep, Environment, shared, SeeMarker, TrustFile, MissFile, CallFlock,
       Proceed, AbandonLock, HashFile, BackoffOver, StartBody, Refused, BodyEnds,
       Stalled, FetchCanceled, Mark, Granted, CloseOrphan, Launch, Interrupt, Crash, Exit,
       BreaksOff, FetchFails, PartFails
<1>4. QED  BY <1>2, <1>3

\* A step of a Fetch keeps its own account.
LEMMA TallyOwn ==
  ASSUME IInv, Counts, NEW p \in Proc, Tally(p), Counts',
         disk' >= disk, meddling' >= meddling, faults' >= faults,
         FetchStep(p) \/ Granted(p) \/ CloseOrphan(p) \/ Environment(p)
  PROVE  Tally(p)'
<1>1. /\ pc \in [Proc -> Stages] /\ url \in [Proc -> Nat \ {0}]
      /\ try \in [Proc -> 0..(AttemptsPerURL - 1)] /\ file \in {"none", "good", "bad"}
      /\ disk \in Nat /\ disk' \in Nat /\ meddling \in Nat /\ Mirrors \in Nat
  BY MirrorAssumption DEF IInv, TypeInv, Counts
\* A step after which neither the loops nor the stages of the account are at hand.
<1>k. ASSUME url' = url, try' = try, pc'[p] \notin {"remove", "backoff", "failed"},
             pc'[p] \in Asking => pc[p] \in Asking
      PROVE  Tally(p)'
  BY <1>k, TallyKept
<1>e. ASSUME NEW s, End(p, s), s \notin {"remove", "backoff", "failed"} \cup Asking,
             url' = url, try' = try
      PROVE  Tally(p)'
  <2>1. pc'[p] = s  BY <1>1, <1>e DEF End, GoTo
  <2>2. QED  BY <1>e, <1>k, <2>1
<1> USE <1>1 DEF GoTo, Asking
<1>2. CASE SeeMarker(p)  BY <1>k, <1>2 DEF SeeMarker, progress
<1>3. CASE TrustFile(p)  BY <1>e, <1>3 DEF TrustFile
<1>4. CASE MissFile(p)  BY <1>k, <1>4 DEF MissFile, progress
<1>5. CASE CallFlock(p) \/ Granted(p) \/ CloseOrphan(p) \/ Interrupt(p)
  <2>1. /\ pc' = pc /\ url' = url /\ try' = try /\ file' = file /\ meddling' = meddling
        /\ disk' = disk
    BY <1>5 DEF CallFlock, Granted, CloseOrphan, Interrupt, progress, shared, counters
  <2>2. QED  BY <2>1, TallyKept DEF Tally
<1>6. CASE Proceed(p)  BY <1>k, <1>6 DEF Proceed, progress
<1>7. CASE AbandonLock(p)  BY <1>k, <1>7 DEF AbandonLock, progress
<1>8. CASE BackoffOver(p)  BY <1>k, <1>8 DEF BackoffOver, progress
<1>9. CASE StartBody(p)  BY <1>k, <1>9 DEF StartBody
<1>10. CASE FetchCanceled(p)  BY <1>e, <1>10 DEF FetchCanceled
<1>11. CASE Rename(p)  BY <1>k, <1>11 DEF Rename
<1>12. CASE Mark(p)  BY <1>e, <1>12 DEF Mark
<1>13. CASE Crash(p)  BY <1>k, <1>13 DEF Crash
<1>14. CASE Exit(p)  BY <1>k, <1>14 DEF Exit, progress
<1>15. CASE Launch(p)
  <2>1. pc'[p] = "seeMarker" /\ url'[p] = 1 /\ try'[p] = 0  BY <1>15 DEF Launch
  <2>2. Owed(p)' = AttemptsPerURL * Cardinality(GoodBefore(1)) + 0
    BY <2>1 DEF Owed
  <2>3. Owed(p)' = 0 /\ faults' \in Nat
    <3>1. Cardinality(GoodBefore(1)) = 0  BY MirrorsCount
    <3>2. QED  BY <2>2, <3>1 DEF AttemptsPerURL, Counts
  <2>4. QED  BY <2>1, <2>3 DEF Tally
<1>16. CASE HashFile(p)
  <2>1. UNCHANGED <<file, url, try, disk, meddling>> /\ pc[p] = "hash"
    BY <1>16 DEF HashFile, shared, counters
  <2>2. \/ pc'[p] = "mark"
        \/ pc'[p] = "remove" /\ file = "bad"
        \/ pc'[p] = "failed" /\ (p \in Offline \/ Mirrors = 0)
        \/ pc'[p] = "download" /\ Mirrors > 0
    BY <1>16 DEF HashFile, End, SumMatches
  <2>3. QED
    <3>1. CASE pc'[p] = "mark"  BY <1>k, <2>1, <3>1
    <3>2. CASE pc'[p] = "remove" /\ file = "bad"  BY <2>1, <3>2, TallyKept
    <3>3. CASE pc'[p] = "failed" /\ (p \in Offline \/ Mirrors = 0)
      BY <2>1, <3>3, TallyKept
    <3>4. CASE pc'[p] = "download" /\ Mirrors > 0
      BY <2>1, <3>4, TallyKept
    <3>5. QED  BY <2>2, <3>1, <3>2, <3>3, <3>4
<1>17. CASE RemoveCorrupt(p)
  <2>1. UNCHANGED <<url, try, disk, meddling>> /\ pc[p] = "remove"
    BY <1>17 DEF RemoveCorrupt, counters
  <2>2. \/ pc'[p] = "failed" /\ (file = "none" \/ p \in Offline \/ Mirrors = 0)
        \/ pc'[p] = "download" /\ Mirrors > 0
    BY <1>17 DEF RemoveCorrupt, End
  <2>3. CASE pc'[p] = "failed" /\ (file = "none" \/ p \in Offline \/ Mirrors = 0)
    <3>1. Clean' => file # "none"  BY <2>1 DEF Tally, Clean
    <3>2. QED  BY <2>1, <2>3, <3>1, TallyKept
  <2>4. CASE pc'[p] = "download" /\ Mirrors > 0
    BY <2>1, <2>4, TallyKept
  <2>5. QED  BY <2>2, <2>3, <2>4
\* The ways an attempt fails.
<1>n. ASSUME NextAttempt(p), pc[p] \in Asking,
             Answer[url[p]] = "good" => faults' = faults + 1
      PROVE  Tally(p)'
  BY <1>n, AttemptIsPaid DEF NextAttempt, GoodMirrors
<1>18. CASE Refused(p)  BY <1>n, <1>18 DEF Refused
<1>19. CASE Stalled(p)  BY <1>n, <1>19 DEF Stalled
<1>20. CASE BodyEnds(p)
  <2>1. CASE pc'[p] = "rename" /\ url' = url /\ try' = try /\ pc[p] = "body"
    BY <1>k, <2>1
  <2>2. CASE ~Verified(p) /\ NextAttempt(p) /\ pc[p] = "body"
    BY <1>n, <2>2 DEF Verified
  <2>3. QED  BY <1>20, <2>1, <2>2 DEF BodyEnds
<1>21. CASE BreaksOff(p)  BY <1>n, <1>21 DEF BreaksOff
<1>22. CASE PartFails(p)
  <2>1. pc[p] \in {"body", "rename"} /\ disk' = disk + 1  BY <1>22 DEF PartFails, DiskFault
  <2>2. CASE End(p, "canceled") /\ url' = url /\ try' = try  BY <1>e, <2>2
  <2>3. CASE AttemptFailed(p, TRUE)
    <3>1. disk' > 0 /\ pc[p] \in Asking  BY <2>1
    <3>2. QED  BY <2>3, <3>1, AttemptIsPaid
  <2>4. QED  BY <1>22, <2>2, <2>3 DEF PartFails
<1>23. CASE FetchFails(p)
  <2>1. pc'[p] = "failed" /\ url' = url /\ try' = try /\ disk' = disk + 1
    BY <1>23 DEF FetchFails, DiskFault, progress
  <2>2. ~Clean'  BY <2>1 DEF Clean
  <2>3. QED  BY <2>1, <2>2, TallyKept
<1>24. QED
  BY <1>2, <1>3, <1>4, <1>5, <1>6, <1>7, <1>8, <1>9, <1>10, <1>11, <1>12, <1>13, <1>14,
     <1>15, <1>16, <1>17, <1>18, <1>19, <1>20, <1>21, <1>22, <1>23
     DEF FetchStep, Environment

LEMMA PaidStep == Paid /\ [Next]_vars => Paid'
<1> SUFFICES ASSUME Paid, [Next]_vars  PROVE Paid'
  OBVIOUS
<1>1. IInv' /\ Counts' /\ disk' >= disk /\ meddling' >= meddling /\ faults' >= faults
  BY TypeInvStep, TrustStep, ExclusionStep, RemovesBadStep, CountsStep DEF Paid, IInv
<1>2. ASSUME NEW q \in Proc  PROVE Tally(q)'
  <2>0. Tally(q) /\ Counts /\ IInv  BY DEF Paid
  <2>1. ASSUME NEW p \in Proc, FetchStep(p) \/ Granted(p) \/ CloseOrphan(p) \/ Environment(p)
        PROVE  Tally(q)'
    <3>1. CASE p = q  BY <1>1, <2>0, <2>1, <3>1, TallyOwn
    <3>2. CASE p # q
      <4>1. /\ pc'[q] = pc[q] /\ url'[q] = url[q] /\ try'[q] = try[q] /\ meddling' = meddling
            /\ pc[q] = "remove" => file' = file
        BY <2>0, <2>1, <3>2, FileKept
      <4>2. QED  BY <1>1, <2>0, <4>1, TallyKept DEF Tally
    <3>3. QED  BY <3>1, <3>2
  <2>2. CASE DeleteByHand
    <3>1. /\ meddling \in Nat /\ meddling' = meddling + 1 /\ pc' = pc
          /\ url' = url /\ try' = try
      BY <2>0, <2>2 DEF DeleteByHand, progress, Counts
    <3>2. meddling' # 0 /\ ~Clean'  BY <3>1 DEF Clean
    <3>3. QED  BY <1>1, <2>0, <3>1, <3>2, TallyKept
  <2>3. CASE Quiet \/ UNCHANGED vars
    <3>1. pc' = pc /\ url' = url /\ try' = try /\ file' = file /\ meddling' = meddling
      BY <2>3 DEF Quiet, vars, progress, shared, counters
    <3>2. QED  BY <1>1, <2>0, <3>1, TallyKept DEF Tally
  <2>4. QED  BY <2>1, <2>2, <2>3 DEF Next
<1>3. QED  BY <1>1, <1>2 DEF Paid

LEMMA AlwaysPaid == Spec => []Paid
<1>1. Init => IInv
  BY DEF Init, IInv, TypeInv, Trust, Trusting, Exclusion, RemovesBad, Stages, Locked,
         Away, Ended
<1>2. Init => Counts  BY DEF Init, Counts, AttemptsPerURL
<1>3. ASSUME Init, NEW p \in Proc  PROVE Tally(p)
  <2>1. pc[p] = "idle" /\ url[p] = 1 /\ try[p] = 0 /\ faults = 0  BY <1>3 DEF Init
  <2>2. Owed(p) = 0
    <3>1. Cardinality(GoodBefore(1)) = 0  BY MirrorsCount
    <3>2. QED  BY <2>1, <3>1 DEF Owed, AttemptsPerURL
  <2>3. QED  BY <2>1, <2>2 DEF Tally, Asking
<1>4. Init => Paid  BY <1>1, <1>2, <1>3 DEF Paid
<1>5. QED  BY <1>4, PaidStep, PTL DEF Spec

\* Whatever the other mirrors send, however they fail and in whatever order they are
\* listed, a Fetch fails only when every attempt at every good mirror broke off.
THEOREM BadMirrorsDoNoHarm == Spec => []MirrorsDoNotInterfere
<1>1. Paid => MirrorsDoNotInterfere
  <2> SUFFICES ASSUME Paid, NEW p \in Proc, pc[p] = "failed", p \notin Offline,
                      disk + meddling = 0
               PROVE  faults >= AttemptsPerURL * Cardinality(GoodMirrors)
    BY DEF MirrorsDoNotInterfere, GoodMirrors
  <2>1. Clean  BY DEF Clean, Paid, Counts
  <2>2. QED  BY <2>1 DEF Paid, Tally
<1>2. QED  BY <1>1, AlwaysPaid, PTL

\* Without a disk error no Fetch backs off before a mirror that no retry can mend.
THEOREM OnlyHopefulRetries == Spec => []NoHopelessRetry
<1>1. Paid => NoHopelessRetry
  BY DEF Paid, Tally, Retryable, NoHopelessRetry
<1>2. QED  BY <1>1, AlwaysPaid, PTL
================================================================================
