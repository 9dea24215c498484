------------------------------ MODULE MCFetchCache -----------------------------
(***************************************************************************)
(* Instances of FetchCache for TLC.                                        *)
(***************************************************************************)
EXTENDS FetchCache

CONSTANTS p1, p2, p3

\* Before the good mirror, one that lies, one that is down, one that goes silent
\* and one that has moved.
GoodLast == <<"corrupt", "flaky", "mute", "gone", "good">>
================================================================================
