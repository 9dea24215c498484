------------------------------ MODULE MCSysrootTree ----------------------------
(***************************************************************************)
(* Instances of SysrootTree for TLC: three libraries whose files agree and  *)
(* disagree in every way.                                                  *)
(***************************************************************************)
EXTENDS SysrootTree, SequencesExt, TLC

Node(k, b, ps) == [kind |-> k, body |-> b, prefixes |-> ps, to |-> ""]
SomeNodes ==
  {Node("text", "one", {}), Node("text", "two", {}), Node("text", "one", {"ssl"}),
   Node("text", "one", {"xz"}), Node("text", "one", {"xz", "foreign"}), Node("text", "one", {"foreign"}),
   Node("binary", "elf", {}), Node("binary", "elf", {"xz"})}
Link(to) == [Node("link", "", {}) EXCEPT !.to = to]

\* ssl and xz may both install a header or a program; zlib's link leads to one.
SomeTrees ==
  {[ssl |-> ("h" :> a), xz |-> ("h" :> b) @@ ("l" :> c), zlib |-> ("l" :> Link("t")) @@ ("t" :> d)] :
     a \in SomeNodes, b \in SomeNodes, c \in {Node("text", "one", {}), Link("h")}, d \in {Node("text", "one", {}), Node("text", "two", {})}}
  \cup
  {[ssl |-> ("bin/p" :> a), xz |-> ("bin/p" :> b) @@ ("bin/q" :> Link("bin/p")), zlib |-> ("bin/q" :> c)] :
     a \in SomeNodes, b \in SomeNodes, c \in {Node("text", "one", {}), Node("binary", "elf", {"xz"})}}
AllOrders == SetToSeqs({"ssl", "xz", "zlib"})
Programs == {"bin/p", "bin/q"}
================================================================================
