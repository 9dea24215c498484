------------------------------- MODULE MCScratchGC -----------------------------
(***************************************************************************)
(* Instances of ScratchGC for TLC.                                         *)
(***************************************************************************)
EXTENDS ScratchGC

CONSTANTS p1, p2, p3

\* Two containers that share dist/: two processes in the first, one in the
\* second, whose pid the second process of the first one has too.
TwoContainers == [p \in Proc |-> IF p = p2 THEN "b" ELSE "a"]
CommonPid == [p \in Proc |-> IF p = p1 THEN 1 ELSE 2]
================================================================================
