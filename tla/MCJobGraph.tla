------------------------------- MODULE MCJobGraph ------------------------------
(***************************************************************************)
(* Instances of JobGraph for TLC: every graph of three objects up to a     *)
(* bound on the lists of dependencies.                                     *)
(***************************************************************************)
EXTENDS JobGraph

Objects == {"a", "b", "c"}
AnyJob == Objects \cup {Nil}
Short == {<<>>} \cup {<<x>> : x \in Objects}
Long == Short \cup {<<Nil>>} \cup {<<x, y>> : x, y \in AnyJob}

\* The first object may list two dependencies, also one twice; a slug may be
\* claimed by several objects.
SmallGraphs ==
  {[slug |-> s, own |-> o, deps |-> [a |-> da, b |-> db, c |-> dc]] :
     s \in {t \in [Objects -> Slug] : t["a"] = "s"},
     o \in {p \in [Objects -> Own] : p["a"] = 1},
     da \in Long, db \in Short, dc \in Short \cup {<<Nil>>}}

\* A call of the first object and a call of the two others, in any order: what they
\* have in common goes by slug alone.
SomeRoots == {<<"a">>, <<"b", "c">>}
================================================================================
