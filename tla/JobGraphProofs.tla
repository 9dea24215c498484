----------------------------- MODULE JobGraphProofs ----------------------------
(***************************************************************************)
(* What resolve guarantees for every graph of objects. The argument is     *)
(* about the stack: the children a frame has behind it all have nodes they *)
(* agree with, each frame is the child its predecessor is at, and no slug  *)
(* on the stack has a node or occurs on it twice.                          *)
(***************************************************************************)
EXTENDS JobGraph, FiniteSetTheorems, SequenceTheorems, TLAPS

Frames == [job : Obj \cup {Nil}, next : Nat \ {0}, deps : SUBSET Slug]
ListOf(st, i) == IF i = 1 THEN roots ELSE graph.deps[st[i].job]

\* The object agrees with the node of its slug.
Agrees(o, ns) == /\ o \in Obj /\ SlugOf(o) \in DOMAIN ns
                 /\ SameJob(ns[SlugOf(o)].job, o)

\* The children a frame has behind it.
Behind(st, i) == {ListOf(st, i)[k] : k \in 1..(st[i].next - 1)}

FrameOK(st, i, ns) ==
  /\ i > 1 => st[i].job \in Obj
  /\ st[i].next \in 1..(Len(ListOf(st, i)) + 1)
  /\ \A o \in Behind(st, i) : Agrees(o, ns)
  /\ st[i].deps = {SlugOf(o) : o \in Behind(st, i)}

Linked(st, i) ==
  /\ st[i - 1].next <= Len(ListOf(st, i - 1))
  /\ st[i].job = ListOf(st, i - 1)[st[i - 1].next]

Path(st, ns) ==
  /\ st \in Seq(Frames) /\ st # <<>>
  /\ \A i \in 1..Len(st) : FrameOK(st, i, ns)
  /\ \A i \in 2..Len(st) : Linked(st, i)

Unfinished(st, ns) ==
  \A i \in 2..Len(st) :
    /\ SlugOf(st[i].job) \notin DOMAIN ns
    /\ \A k \in 2..(i - 1) : SlugOf(st[k].job) # SlugOf(st[i].job)

NodeOK(s, ns) ==
  /\ ns[s].job \in Obj /\ SlugOf(ns[s].job) = s
  /\ ns[s].deps = DepSlugs(ns[s].job)
  /\ \A d \in DepsOf(ns[s].job) : Agrees(d, ns)
Nodes(ns) == DOMAIN ns \subseteq Slug /\ \A s \in DOMAIN ns : NodeOK(s, ns)

Outcomes == {"running", "ok", "nil", "conflict", "panic", "cycle", "slug"}

Shape ==
  /\ graph \in Graphs /\ roots \in Roots /\ outcome \in Outcomes /\ calls \in Nat
  /\ order \in Seq(Slug)
  /\ DOMAIN keyCache \subseteq Slug /\ made \subseteq Obj
  /\ \A s \in DOMAIN nodes : DOMAIN nodes[s] = {"job", "key", "deps"}

\* An accepted call has every root behind it.
RootsDone == outcome = "ok" => \A o \in Elems(roots) : Agrees(o, nodes)

Walk ==
  /\ Shape /\ Path(stack, nodes) /\ Unfinished(stack, nodes) /\ Nodes(nodes)
  /\ DependencyFirst /\ RootsDone

--------------------------------------------------------------------------------
(* Lemmas about the stack *)

\* What the assumption on Graphs says of the graph at hand.
LEMMA GraphTypes ==
  ASSUME graph \in Graphs, roots \in Roots
  PROVE  /\ graph.slug \in [Obj -> Slug] /\ graph.own \in [Obj -> Own]
         /\ graph.deps \in [Obj -> Seq(Obj \cup {Nil})]
         /\ roots \in Seq(Obj \cup {Nil})
BY GraphAssumption

\* The list a frame walks holds jobs and nils.
LEMMA ListType ==
  ASSUME graph \in Graphs, roots \in Roots, NEW ns, NEW st,
         NEW i \in 1..Len(st), FrameOK(st, i, ns)
  PROVE  ListOf(st, i) \in Seq(Obj \cup {Nil})
BY GraphTypes DEF FrameOK, ListOf

\* The loop of the top frame takes its next turn.
LEMMA AdvancePath ==
  ASSUME graph \in Graphs, roots \in Roots, NEW ns, NEW st, Path(st, ns), Unfinished(st, ns),
         st[Len(st)].next <= Len(ListOf(st, Len(st))),
         Agrees(ListOf(st, Len(st))[st[Len(st)].next], ns)
  PROVE  LET d  == ListOf(st, Len(st))[st[Len(st)].next]
             ad == Advance(st, SlugOf(d))
         IN  Path(ad, ns) /\ Unfinished(ad, ns)
<1> DEFINE n == Len(st)
           d == ListOf(st, n)[st[n].next]
           ad == Advance(st, SlugOf(d))
<1>1. n \in Nat \ {0} /\ st \in Seq(Frames)  BY DEF Path
<1>2. SlugOf(d) \in Slug  BY GraphTypes DEF Agrees, SlugOf
<1>3. ad \in Seq(Frames) /\ Len(ad) = n /\ ad # <<>>
  <2>1. st[n] \in Frames  BY <1>1
  <2>2. [job |-> st[n].job, next |-> st[n].next + 1, deps |-> st[n].deps \cup {SlugOf(d)}]
          \in Frames
    BY <2>1, <1>2 DEF Frames
  <2>3. st \in [1..n -> Frames]  BY <1>1
  <2>4. ad \in [1..n -> Frames]  BY <2>2, <2>3, <1>1 DEF Advance
  <2>5. QED  BY <2>4, <1>1
<1>4. /\ \A i \in 1..n : ad[i].job = st[i].job
      /\ \A i \in 1..(n - 1) : ad[i] = st[i]
      /\ ad[n].next = st[n].next + 1
      /\ ad[n].deps = st[n].deps \cup {SlugOf(d)}
  BY <1>1 DEF Advance, Frames
<1>5. \A i \in 1..n : ListOf(ad, i) = ListOf(st, i)  BY <1>4 DEF ListOf
<1>6. Agrees(d, ns)  OBVIOUS
<1>7. ASSUME NEW i \in 1..n  PROVE FrameOK(ad, i, ns)
  <2>1. FrameOK(st, i, ns)  BY DEF Path
  <2>2. CASE i < n
    <3>1. ad[i] = st[i]  BY <2>2, <1>1, <1>4
    <3>2. ListOf(ad, i) = ListOf(st, i)  BY <1>5
    <3>3. QED  BY <2>1, <3>1, <3>2 DEF FrameOK, Behind
  <2>3. CASE i = n
    <3> DEFINE l == ListOf(st, n)
    <3>1. l \in Seq(Obj \cup {Nil}) /\ Len(l) \in Nat  BY <2>1, <2>3, <1>1, ListType
    <3>2. st[n].next \in 1..Len(l)  BY <2>1, <2>3, <3>1, <1>1 DEF FrameOK
    <3>3. ad[n].next \in 1..(Len(l) + 1)  BY <3>1, <3>2, <1>4
    <3>4. \A k : k \in 1..(ad[n].next - 1) <=> k \in 1..(st[n].next - 1) \/ k = st[n].next
      BY <3>1, <3>2, <1>4
    <3>5. Behind(ad, n) = Behind(st, n) \cup {d}
      <4>1. ListOf(ad, n) = l  BY <1>1, <1>5
      <4> HIDE DEF ad, l
      <4>2. QED  BY <3>4, <4>1 DEF Behind, l
    <3>6. /\ \A o \in Behind(ad, n) : Agrees(o, ns)
          /\ ad[n].deps = {SlugOf(o) : o \in Behind(ad, n)}
      <4> HIDE DEF ad, d
      <4>1. QED  BY <3>5, <2>1, <2>3, <1>4, <1>6 DEF FrameOK
    <3>7. n > 1 => ad[n].job \in Obj  BY <2>1, <2>3, <1>1, <1>4 DEF FrameOK
    <3>8. ListOf(ad, n) = l  BY <1>1, <1>5
    <3>9. QED  BY <2>3, <3>3, <3>6, <3>7, <3>8 DEF FrameOK, Behind
  <2>4. QED  BY <2>2, <2>3, <1>1
<1>8. ASSUME NEW i \in 2..n  PROVE Linked(ad, i)
  <2>1. Linked(st, i)  BY DEF Path
  <2>2. i - 1 \in 1..(n - 1) /\ i \in 1..n  BY <1>1
  <2>3. ad[i - 1] = st[i - 1] /\ ad[i].job = st[i].job  BY <2>2, <1>4
  <2>4. ListOf(ad, i - 1) = ListOf(st, i - 1)  BY <2>2, <1>1, <1>5
  <2>5. QED  BY <2>1, <2>3, <2>4 DEF Linked
<1>9. Unfinished(ad, ns)
  BY <1>1, <1>3, <1>4 DEF Unfinished
<1>10. QED  BY <1>3, <1>7, <1>8, <1>9 DEF Path

\* The walk descends into a dependency.
LEMMA DescendPath ==
  ASSUME graph \in Graphs, roots \in Roots, NEW ns, NEW st, Path(st, ns), Unfinished(st, ns),
         st[Len(st)].next <= Len(ListOf(st, Len(st))),
         NEW d \in Obj, d = ListOf(st, Len(st))[st[Len(st)].next],
         SlugOf(d) \notin DOMAIN ns,
         \A k \in 2..Len(st) : SlugOf(st[k].job) # SlugOf(d)
  PROVE  Path(Append(st, Frame(d)), ns) /\ Unfinished(Append(st, Frame(d)), ns)
<1> DEFINE n == Len(st)
           dt == Append(st, Frame(d))
<1>1. n \in Nat \ {0} /\ st \in Seq(Frames)  BY DEF Path
<1>2. Frame(d) \in Frames  BY DEF Frame, Frames
<1>3. dt \in Seq(Frames) /\ Len(dt) = n + 1 /\ dt # <<>>  BY <1>1, <1>2
<1>4. /\ \A i \in 1..n : dt[i] = st[i]
      /\ dt[n + 1] = Frame(d)
  BY <1>1, <1>2
<1>5. \A i \in 1..n : ListOf(dt, i) = ListOf(st, i)  BY <1>4 DEF ListOf
<1>6. ASSUME NEW i \in 1..(n + 1)  PROVE FrameOK(dt, i, ns)
  <2>1. CASE i \in 1..n
    <3>1. FrameOK(st, i, ns)  BY <2>1 DEF Path
    <3>2. dt[i] = st[i] /\ ListOf(dt, i) = ListOf(st, i)  BY <2>1, <1>4, <1>5
    <3>3. QED  BY <3>1, <3>2 DEF FrameOK, Behind
  <2>2. CASE i = n + 1
    <3>1. dt[i].job = d /\ dt[i].next = 1 /\ dt[i].deps = {}
      BY <2>2, <1>4 DEF Frame
    <3>2. ListOf(dt, i) = graph.deps[d]
      <4>1. i # 1  BY <2>2, <1>1
      <4> HIDE DEF dt
      <4>2. QED  BY <4>1, <3>1 DEF ListOf
    <3>3. Len(ListOf(dt, i)) \in Nat  BY <3>2, GraphTypes
    <3>4. dt[i].next \in 1..(Len(ListOf(dt, i)) + 1)  BY <3>1, <3>3
    <3>5. 1..(dt[i].next - 1) = {}  BY <3>1
    <3>6. QED  BY <3>1, <3>4, <3>5 DEF FrameOK, Behind
  <2>3. QED  BY <2>1, <2>2, <1>1
<1>7. ASSUME NEW i \in 2..(n + 1)  PROVE Linked(dt, i)
  <2>1. i - 1 \in 1..n  BY <1>1
  <2>2. dt[i - 1] = st[i - 1] /\ ListOf(dt, i - 1) = ListOf(st, i - 1)
    BY <2>1, <1>4, <1>5
  <2>3. CASE i \in 2..n
    <3>1. Linked(st, i)  BY <2>3 DEF Path
    <3>2. dt[i] = st[i]  BY <2>3, <1>1, <1>4
    <3>3. QED  BY <2>2, <3>1, <3>2 DEF Linked
  <2>4. CASE i = n + 1
    <3>1. i - 1 = n /\ dt[i].job = d  BY <2>4, <1>1, <1>4 DEF Frame
    <3>2. QED  BY <2>2, <3>1 DEF Linked
  <2>5. QED  BY <2>3, <2>4, <1>1
<1>8. Unfinished(dt, ns)
  <2>1. ASSUME NEW i \in 2..(n + 1)
        PROVE  /\ SlugOf(dt[i].job) \notin DOMAIN ns
               /\ \A k \in 2..(i - 1) : SlugOf(dt[k].job) # SlugOf(dt[i].job)
    <3>1. CASE i \in 2..n
      BY <3>1, <1>1, <1>4 DEF Unfinished
    <3>2. CASE i = n + 1
      <4>1. dt[i].job = d  BY <3>2, <1>4 DEF Frame
      <4>2. \A k \in 2..(i - 1) : dt[k] = st[k] /\ k \in 2..n  BY <3>2, <1>1, <1>4
      <4>3. QED  BY <4>1, <4>2
    <3>3. QED  BY <3>1, <3>2, <1>1
  <2>2. QED  BY <2>1, <1>3 DEF Unfinished
<1>9. QED  BY <1>3, <1>6, <1>7, <1>8 DEF Path

\* What is below the top frame, once there are more nodes.
LEMMA PopPath ==
  ASSUME graph \in Graphs, roots \in Roots, NEW ns, NEW ms, NEW st, Path(st, ns),
         Unfinished(st, ns),
         Len(st) > 1,
         \A o : Agrees(o, ns) => Agrees(o, ms),
         DOMAIN ms = DOMAIN ns \cup {SlugOf(st[Len(st)].job)}
  PROVE  LET pt == SubSeq(st, 1, Len(st) - 1)
         IN  /\ Path(pt, ms) /\ Unfinished(pt, ms) /\ Len(pt) = Len(st) - 1
             /\ pt[Len(pt)].next <= Len(ListOf(pt, Len(pt)))
             /\ ListOf(pt, Len(pt))[pt[Len(pt)].next] = st[Len(st)].job
<1> DEFINE n == Len(st)
           pt == SubSeq(st, 1, n - 1)
<1>1. n \in Nat /\ n - 1 \in Nat \ {0} /\ st \in Seq(Frames)  BY DEF Path
<1>2. pt \in Seq(Frames) /\ Len(pt) = n - 1 /\ pt # <<>>
  <2>1. 1 \in Int /\ n - 1 \in Int /\ \A i \in 1..(n - 1) : st[i] \in Frames  BY <1>1
  <2>2. pt \in Seq(Frames) /\ Len(pt) = n - 1
    <3> HIDE DEF n
    <3>1. pt \in Seq(Frames) /\ Len(pt) = IF 1 <= n - 1 THEN (n - 1) - 1 + 1 ELSE 0
      BY <2>1, SubSeqProperties
    <3>2. QED  BY <3>1, <1>1
  <2> HIDE DEF pt
  <2>3. QED  BY <2>2, <1>1
<1>3. \A i \in 1..(n - 1) : pt[i] = st[i]  BY <1>1
<1>4. \A i \in 1..(n - 1) : ListOf(pt, i) = ListOf(st, i)  BY <1>3 DEF ListOf
<1>5. ASSUME NEW i \in 1..(n - 1)  PROVE FrameOK(pt, i, ms)
  <2>1. FrameOK(st, i, ns)  BY <1>1 DEF Path
  <2>2. pt[i] = st[i] /\ ListOf(pt, i) = ListOf(st, i)  BY <1>3, <1>4
  <2>3. QED  BY <2>1, <2>2 DEF FrameOK, Behind
<1>6. ASSUME NEW i \in 2..(n - 1)  PROVE Linked(pt, i)
  <2>1. Linked(st, i) /\ i \in 1..(n - 1) /\ i - 1 \in 1..(n - 1)  BY <1>1 DEF Path
  <2>2. /\ pt[i] = st[i] /\ pt[i - 1] = st[i - 1]
        /\ ListOf(pt, i - 1) = ListOf(st, i - 1)
    BY <2>1, <1>3, <1>4
  <2>3. QED  BY <2>1, <2>2 DEF Linked
<1>7. Unfinished(pt, ms)
  <2>1. \A i \in 2..(n - 1) : SlugOf(st[i].job) # SlugOf(st[n].job)
    BY <1>1 DEF Unfinished
  <2>2. QED  BY <2>1, <1>1, <1>2, <1>3 DEF Unfinished
<1>8. /\ pt[n - 1].next <= Len(ListOf(pt, n - 1))
      /\ ListOf(pt, n - 1)[pt[n - 1].next] = st[n].job
  <2>1. Linked(st, n)  BY <1>1 DEF Path
  <2>2. n - 1 \in 1..(n - 1)  BY <1>1
  <2>3. QED  BY <2>1, <2>2, <1>3, <1>4 DEF Linked
<1>9. QED  BY <1>2, <1>5, <1>6, <1>7, <1>8 DEF Path

\* The graph never changes, so what holds of the next stack and nodes holds next.
LEMMA Frozen ==
  ASSUME graph' = graph, roots' = roots
  PROVE  /\ Path(stack', nodes') => Path(stack, nodes)'
         /\ Unfinished(stack', nodes') => Unfinished(stack, nodes)'
         /\ Nodes(nodes') => Nodes(nodes)'
         /\ \A o : Agrees(o, nodes') => Agrees(o, nodes)'
<1>1. Unfinished(stack', nodes') => Unfinished(stack, nodes)'
  BY DEF Unfinished, SlugOf
<1>2. Nodes(nodes') => Nodes(nodes)'
  BY DEF Nodes, NodeOK, Agrees, SlugOf, DepSlugs, DepsOf, SameJob, Times
<1>3. \A o : Agrees(o, nodes') => Agrees(o, nodes)'
  BY DEF Agrees, SlugOf, SameJob, Times
<1>4. ASSUME NEW i, FrameOK(stack', i, nodes')
      PROVE  FrameOK(stack, i, nodes)'
  <2>1. ListOf(stack, i)' = ListOf(stack', i)  BY DEF ListOf
  <2>2. Behind(stack, i)' = Behind(stack', i)  BY <2>1 DEF Behind
  <2>4. \A o \in Behind(stack, i)' : Agrees(o, nodes)'  BY <1>4, <1>3, <2>2 DEF FrameOK
  <2>5. {SlugOf(o) : o \in Behind(stack, i)}' = {SlugOf(o) : o \in Behind(stack', i)}
    BY <2>2 DEF SlugOf
  <2>6. QED  BY <1>4, <2>1, <2>4, <2>5 DEF FrameOK
<1>5. \A i : Linked(stack', i) => Linked(stack, i)'  BY DEF Linked, ListOf
<1>6. Path(stack', nodes') => Path(stack, nodes)'
  BY <1>4, <1>5 DEF Path
<1>7. QED  BY <1>1, <1>2, <1>6, <1>3

\* A call starts with the loop over the roots.
LEMMA FirstFrame ==
  ASSUME graph \in Graphs, roots \in Roots, NEW ns
  PROVE  Path(<<Frame(Nil)>>, ns) /\ Unfinished(<<Frame(Nil)>>, ns)
<1> DEFINE st == <<Frame(Nil)>>
<1>1. /\ st \in Seq(Frames) /\ st # <<>> /\ Len(st) = 1
      /\ st[1].next = 1 /\ st[1].deps = {}
  BY DEF Frame, Frames
<1>2. ListOf(st, 1) = roots /\ Len(roots) \in Nat  BY GraphTypes DEF ListOf
<1> HIDE DEF st
<1>3. Behind(st, 1) = {}  BY <1>1 DEF Behind
<1>4. FrameOK(st, 1, ns)  BY <1>1, <1>2, <1>3 DEF FrameOK
<1>5. Path(st, ns)  BY <1>1, <1>4 DEF Path
<1>6. Unfinished(st, ns)  BY <1>1 DEF Unfinished
<1>7. QED  BY <1>5, <1>6 DEF st

\* What the actions call Children and Due, in the terms of the invariant.
LEMMA TopFrame ==
  ASSUME Walk
  PROVE  /\ Len(stack) \in Nat \ {0} /\ Top \in Frames
         /\ Children = ListOf(stack, Len(stack))
         /\ Children \in Seq(Obj \cup {Nil}) /\ Len(Children) \in Nat
         /\ FrameOK(stack, Len(stack), nodes)
         /\ MoreToVisit => Due \in Obj \cup {Nil}
         /\ AllVisited => /\ Behind(stack, Len(stack)) = Elems(Children)
                          /\ \A o \in Elems(Children) : Agrees(o, nodes)
<1>1. Len(stack) \in Nat \ {0} /\ Top \in Frames  BY DEF Walk, Path, Top
<1>2. FrameOK(stack, Len(stack), nodes)  BY <1>1 DEF Walk, Path
<1>3. Children = ListOf(stack, Len(stack))  BY DEF Children, ListOf, Top
<1>4. Children \in Seq(Obj \cup {Nil}) /\ Len(Children) \in Nat
  BY <1>1, <1>2, <1>3, ListType DEF Walk, Shape
<1>5. Top.next \in Nat \ {0} /\ Top.next <= Len(Children) + 1
  BY <1>2, <1>3, <1>4 DEF FrameOK, Top
<1>6. MoreToVisit => Due \in Obj \cup {Nil}  BY <1>4, <1>5 DEF MoreToVisit, Due
<1>7. ASSUME AllVisited
      PROVE  /\ Behind(stack, Len(stack)) = Elems(Children)
             /\ \A o \in Elems(Children) : Agrees(o, nodes)
  <2>1. Top.next - 1 = Len(Children)  BY <1>4, <1>5, <1>7 DEF AllVisited
  <2>2. DOMAIN Children = 1..(Top.next - 1)  BY <1>4, <2>1
  <2>3. Behind(stack, Len(stack)) = Elems(Children)
    BY <1>3, <2>2 DEF Behind, Elems, Top
  <2>4. QED  BY <1>2, <2>3 DEF FrameOK
<1>8. QED  BY <1>1, <1>2, <1>3, <1>4, <1>6, <1>7

--------------------------------------------------------------------------------
(* Finish *)

\* Everything below the top frame is done: it becomes a node, and its parent's loop
\* goes on.
LEMMA FinishWalk ==
  ASSUME Walk, Finish
  PROVE  Walk'
<1> DEFINE n == Len(stack)
           j == Top.job
           s == SlugOf(j)
           v == [job |-> j, key |-> KeyOf(j), deps |-> Top.deps]
           pt == SubSeq(stack, 1, n - 1)
<1>1. /\ AllVisited /\ n > 1 /\ n \in Nat
      /\ nodes' = With(nodes, s, v) /\ order' = Append(order, s)
      /\ stack' = Advance(pt, s) /\ graph' = graph /\ roots' = roots
      /\ keyCache' = With(keyCache, s, KeyOf(j))
      /\ outcome' = outcome /\ calls' = calls /\ outcome = "running"
      /\ made' = made \cup {j}
  BY TopFrame DEF Finish, AllVisited
<1>2. /\ graph \in Graphs /\ roots \in Roots /\ Path(stack, nodes)
      /\ Unfinished(stack, nodes) /\ Nodes(nodes)
  BY DEF Walk, Shape
<1>3. j \in Obj /\ j = stack[n].job /\ s \notin DOMAIN nodes /\ s \in Slug
  BY <1>1, <1>2, TopFrame, GraphTypes DEF Top, FrameOK, Unfinished, SlugOf
<1>4. /\ DOMAIN nodes' = DOMAIN nodes \cup {s}
      /\ nodes'[s] = v
      /\ \A t \in DOMAIN nodes : nodes'[t] = nodes[t]
  BY <1>1, <1>3 DEF With
<1>5. \A o : Agrees(o, nodes) => Agrees(o, nodes')  BY <1>4 DEF Agrees
<1>6. Agrees(j, nodes')  BY <1>3, <1>4 DEF Agrees, SameJob
<1>7. Path(stack', nodes') /\ Unfinished(stack', nodes')
  <2>1. /\ Path(pt, nodes') /\ Unfinished(pt, nodes')
        /\ pt[Len(pt)].next <= Len(ListOf(pt, Len(pt)))
        /\ ListOf(pt, Len(pt))[pt[Len(pt)].next] = j
    BY <1>1, <1>2, <1>3, <1>4, <1>5, PopPath
  <2> HIDE DEF pt, j
  <2>2. QED  BY <1>1, <1>2, <1>6, <2>1, AdvancePath
<1>8. v.deps = DepSlugs(j) /\ \A d \in DepsOf(j) : Agrees(d, nodes)
  <2>1. Children = graph.deps[j]
    <3>1. n \in Nat /\ n > 1  BY <1>1
    <3>2. \A m \in Nat : m > 1 => m # 1  OBVIOUS
    <3>3. QED  BY <3>1, <3>2 DEF Children
  <2>2. Behind(stack, n) = DepsOf(j) /\ \A d \in DepsOf(j) : Agrees(d, nodes)
    BY <1>1, <2>1, TopFrame DEF DepsOf
  <2>3. Top.deps = {SlugOf(o) : o \in Behind(stack, n)}  BY TopFrame DEF FrameOK, Top
  <2>4. v.deps = Top.deps  OBVIOUS
  <2> HIDE DEF v, j, n
  <2>5. QED  BY <2>2, <2>3, <2>4 DEF DepSlugs
<1>9. Nodes(nodes')
  <2>1. NodeOK(s, nodes')  BY <1>3, <1>4, <1>5, <1>8 DEF NodeOK
  <2>2. ASSUME NEW t \in DOMAIN nodes  PROVE NodeOK(t, nodes')
    BY <1>2, <1>4, <1>5 DEF Nodes, NodeOK
  <2>3. QED  BY <1>2, <1>3, <1>4, <2>1, <2>2 DEF Nodes
<1>10. DependencyFirst'
  <2>1. order \in Seq(Slug) /\ DependencyFirst  BY DEF Walk, Shape
  <2>2. /\ order' \in Seq(Slug) /\ Len(order') = Len(order) + 1
        /\ \A i \in 1..Len(order) : order'[i] = order[i]
        /\ order'[Len(order) + 1] = s
        /\ DOMAIN order = 1..Len(order) /\ DOMAIN order' = 1..(Len(order) + 1)
        /\ Len(order) \in Nat
    BY <1>1, <1>3, <2>1
  <2>3. Elems(order)' = Elems(order) \cup {s}  BY <2>2 DEF Elems
  <2>4. \A i \in 1..Len(order) : Before(i)' = Before(i)  BY <2>2 DEF Before
  <2>5. \A i : i = Len(order) + 1 => Before(i)' = Elems(order)
    <3> SUFFICES ASSUME NEW i, i = Len(order) + 1  PROVE Before(i)' = Elems(order)
      OBVIOUS
    <3>1. 1..(i - 1) = DOMAIN order  BY <2>2
    <3>2. QED  BY <2>2, <3>1 DEF Before, Elems
  <2>6. \A o : DepSlugs(o)' = DepSlugs(o)  BY <1>1 DEF DepSlugs, DepsOf, SlugOf, Elems
  <2>7. ASSUME NEW i \in DOMAIN order'
        PROVE  /\ order'[i] \notin Before(i)'
               /\ nodes'[order'[i]].deps \subseteq Before(i)'
               /\ nodes'[order'[i]].deps = DepSlugs(nodes'[order'[i]].job)
    <3>1. CASE i \in 1..Len(order)
      <4>1. order'[i] = order[i] /\ order[i] \in DOMAIN nodes /\ i \in DOMAIN order
        BY <2>1, <2>2, <3>1 DEF DependencyFirst, Elems
      <4>2. nodes'[order'[i]] = nodes[order[i]]  BY <1>4, <4>1
      <4>3. QED  BY <2>1, <2>4, <3>1, <4>1, <4>2 DEF DependencyFirst
    <3>2. CASE i = Len(order) + 1
      <4>1. order'[i] = s /\ nodes'[order'[i]] = v  BY <1>4, <2>2, <3>2
      <4>2. Before(i)' = DOMAIN nodes  BY <2>1, <2>5, <3>2 DEF DependencyFirst
      <4>3. v.deps \subseteq DOMAIN nodes  BY <1>8 DEF DepSlugs, Agrees
      <4>4. QED  BY <1>3, <1>8, <4>1, <4>2, <4>3
    <3>3. QED  BY <2>2, <3>1, <3>2
  <2>8. Elems(order)' = DOMAIN nodes'  BY <1>4, <2>1, <2>3 DEF DependencyFirst
  <2>9. QED  BY <2>6, <2>7, <2>8 DEF DependencyFirst
<1>11. Shape'
  <2>1. order' \in Seq(Slug)  BY <1>1, <1>3 DEF Walk, Shape
  <2>2. DOMAIN keyCache' \subseteq Slug  BY <1>1, <1>3 DEF Walk, Shape, With
  <2>3. \A t \in DOMAIN nodes' : DOMAIN nodes'[t] = {"job", "key", "deps"}
    BY <1>4 DEF Walk, Shape
  <2>4. QED  BY <1>1, <1>3, <2>1, <2>2, <2>3 DEF Walk, Shape
<1>12. RootsDone'  BY <1>1 DEF RootsDone
<1>13. QED  BY <1>1, <1>7, <1>9, <1>10, <1>11, <1>12, Frozen DEF Walk

--------------------------------------------------------------------------------
(* The walk *)

\* The first call starts with nothing behind it.
LEMMA InitWalk == Init => Walk
<1> SUFFICES ASSUME Init  PROVE Walk
  OBVIOUS
<1>1. /\ graph \in Graphs /\ stack = <<Frame(Nil)>> /\ DOMAIN nodes = {}
      /\ order = <<>> /\ DOMAIN keyCache = {} /\ outcome = "running" /\ calls = 1
      /\ roots \in Roots /\ made = {}
  BY DEF Init
<1>2. Shape  BY <1>1 DEF Shape, Outcomes
<1>3. Path(stack, nodes) /\ Unfinished(stack, nodes)  BY <1>1, FirstFrame
<1>4. Nodes(nodes)  BY <1>1 DEF Nodes
<1>5. DependencyFirst  BY <1>1 DEF DependencyFirst, Elems
<1>6. QED  BY <1>1, <1>2, <1>3, <1>4, <1>5 DEF Walk, RootsDone

\* Nothing but the outcome and the stack changes in most steps.
LEMMA SameNodes ==
  ASSUME Walk, graph' = graph, roots' = roots, nodes' = nodes, order' = order
  PROVE  /\ Nodes(nodes') /\ DependencyFirst'
         /\ (\A o \in Elems(roots) : Agrees(o, nodes)) => RootsDone'
<1>1. Nodes(nodes')  BY DEF Walk
<1>2. DependencyFirst'
  BY DEF Walk, DependencyFirst, Elems, Before, DepSlugs, DepsOf, SlugOf
<1>3. ASSUME \A o \in Elems(roots) : Agrees(o, nodes)  PROVE RootsDone'
  <2>1. \A o : Agrees(o, nodes) => Agrees(o, nodes')  OBVIOUS
  <2>2. \A o : Agrees(o, nodes') => Agrees(o, nodes)'  BY Frozen
  <2>3. Elems(roots)' = Elems(roots)  BY DEF Elems
  <2>4. QED  BY <1>3, <2>1, <2>2, <2>3 DEF RootsDone
<1>4. QED  BY <1>1, <1>2, <1>3

\* A failure changes the outcome alone.
LEMMA FailWalk ==
  ASSUME Walk, NEW why \in Outcomes \ {"ok"}, Fail(why)
  PROVE  Walk'
<1>1. /\ graph' = graph /\ roots' = roots /\ stack' = stack /\ nodes' = nodes /\ order' = order
      /\ keyCache' = keyCache /\ made' = made /\ calls' = calls /\ outcome' = why
  BY DEF Fail, walk
<1>2. Path(stack', nodes') /\ Unfinished(stack', nodes')  BY <1>1 DEF Walk
<1>3. Shape'  BY <1>1 DEF Walk, Shape
<1>4. RootsDone'  BY <1>1 DEF RootsDone
<1>5. QED  BY <1>1, <1>2, <1>3, <1>4, SameNodes, Frozen DEF Walk

\* A new call starts like the first, over the list it is given.
LEMMA CallAgainWalk == Walk /\ CallAgain => Walk'
<1> SUFFICES ASSUME Walk, CallAgain  PROVE Walk'
  OBVIOUS
<1>1. /\ calls' = calls + 1 /\ outcome' = "running" /\ stack' = <<Frame(Nil)>>
      /\ DOMAIN nodes' = {} /\ order' = <<>> /\ graph' = graph /\ keyCache' = keyCache
      /\ roots' \in Roots /\ made' = made
  BY DEF CallAgain
<1>2. /\ stack' \in Seq(Frames) /\ stack' # <<>> /\ Len(stack') = 1
      /\ stack'[1].next = 1 /\ stack'[1].deps = {}
  BY <1>1 DEF Frame, Frames
<1>3. FrameOK(stack, 1, nodes)'
  <2>1. ListOf(stack, 1)' = roots' /\ Len(roots') \in Nat
    BY <1>1, GraphAssumption DEF ListOf
  <2>2. Behind(stack, 1)' = {}  BY <1>2 DEF Behind
  <2>3. QED  BY <1>2, <2>1, <2>2 DEF FrameOK
<1>4. Path(stack, nodes)'  BY <1>2, <1>3 DEF Path
<1>5. Unfinished(stack, nodes)'  BY <1>2 DEF Unfinished
<1>6. Nodes(nodes)'  BY <1>1 DEF Nodes
<1>7. DependencyFirst'  BY <1>1 DEF DependencyFirst, Elems
<1>8. Shape'  BY <1>1 DEF Walk, Shape, Outcomes
<1>9. RootsDone'  BY <1>1 DEF RootsDone
<1>10. QED  BY <1>4, <1>5, <1>6, <1>7, <1>8, <1>9 DEF Walk

\* Every step of resolve preserves the walk's invariant.
LEMMA NextWalk == Walk /\ [Next]_vars => Walk'
<1> SUFFICES ASSUME Walk, [Next]_vars  PROVE Walk'
  OBVIOUS
<1>1. CASE NilJob    BY <1>1, FailWalk DEF NilJob, Outcomes
<1>2. CASE Conflict  BY <1>2, FailWalk DEF Conflict, Outcomes
<1>3. CASE Panic     BY <1>3, FailWalk DEF Panic, Outcomes
<1>4. CASE Cycle     BY <1>4, FailWalk DEF Cycle, Outcomes
<1>5. CASE BadName   BY <1>5, FailWalk DEF BadName, Outcomes
<1>6. CASE Finish    BY <1>6, FinishWalk
<1>7. CASE Revisit
  <2> DEFINE n == Len(stack)
  <2>1. /\ MoreToVisit /\ Due \in Obj /\ Agrees(Due, nodes)
        /\ stack' = Advance(stack, SlugOf(Due))
        /\ graph' = graph /\ roots' = roots /\ nodes' = nodes /\ order' = order
        /\ keyCache' = keyCache /\ made' = made /\ calls' = calls /\ outcome' = "running"
    BY <1>7, TopFrame DEF Revisit, Agrees, MoreToVisit
  <2>2. stack[n].next <= Len(ListOf(stack, n)) /\ Due = ListOf(stack, n)[stack[n].next]
    BY <2>1, TopFrame DEF MoreToVisit, Due, Top
  <2>3. Path(stack', nodes') /\ Unfinished(stack', nodes')
    BY <2>1, <2>2, AdvancePath DEF Walk, Shape
  <2>4. Shape'  BY <2>1 DEF Walk, Shape, Outcomes
  <2>5. RootsDone'  BY <2>1 DEF RootsDone
  <2>6. QED  BY <2>1, <2>3, <2>4, <2>5, SameNodes, Frozen DEF Walk
<1>8. CASE Descend
  <2> DEFINE n == Len(stack)
  <2>1. /\ MoreToVisit /\ Due \in Obj
        /\ SlugOf(Due) \notin DOMAIN nodes
        /\ \A k \in 2..n : SlugOf(stack[k].job) # SlugOf(Due)
        /\ stack' = Append(stack, Frame(Due))
        /\ graph' = graph /\ roots' = roots /\ nodes' = nodes /\ order' = order
        /\ keyCache' = keyCache /\ made' = made /\ calls' = calls /\ outcome' = "running"
    BY <1>8, TopFrame DEF Descend, OnStack, MoreToVisit
  <2>2. stack[n].next <= Len(ListOf(stack, n)) /\ Due = ListOf(stack, n)[stack[n].next]
    BY <2>1, TopFrame DEF MoreToVisit, Due, Top
  <2>3. Path(stack', nodes') /\ Unfinished(stack', nodes')
    BY <2>1, <2>2, DescendPath DEF Walk, Shape
  <2>4. Shape'  BY <2>1 DEF Walk, Shape, Outcomes
  <2>5. RootsDone'  BY <2>1 DEF RootsDone
  <2>6. QED  BY <2>1, <2>3, <2>4, <2>5, SameNodes, Frozen DEF Walk
<1>9. CASE Return
  <2>1. /\ AllVisited /\ Len(stack) = 1 /\ outcome' = "ok"
        /\ graph' = graph /\ roots' = roots /\ stack' = stack /\ nodes' = nodes /\ order' = order
        /\ keyCache' = keyCache /\ made' = made /\ calls' = calls
    BY <1>9 DEF Return, walk
  <2>2. \A o \in Elems(roots) : Agrees(o, nodes)
    BY <2>1, TopFrame DEF Children
  <2>3. Path(stack', nodes') /\ Unfinished(stack', nodes')  BY <2>1 DEF Walk
  <2>4. Shape'  BY <2>1 DEF Walk, Shape, Outcomes
  <2>5. QED  BY <2>1, <2>2, <2>3, <2>4, SameNodes, Frozen DEF Walk
<1>10. CASE CallAgain  BY <1>10, CallAgainWalk
<1>11. CASE UNCHANGED vars
  <2>1. /\ graph' = graph /\ roots' = roots /\ stack' = stack /\ nodes' = nodes /\ order' = order
        /\ keyCache' = keyCache /\ made' = made /\ calls' = calls /\ outcome' = outcome
    BY <1>11 DEF vars, walk
  <2>2. Path(stack', nodes') /\ Unfinished(stack', nodes')  BY <2>1 DEF Walk
  <2>3. Shape'  BY <2>1 DEF Walk, Shape
  <2>4. RootsDone'
    <3>1. CASE outcome = "ok"  BY <2>1, <3>1, SameNodes DEF Walk, RootsDone
    <3>2. CASE outcome # "ok"  BY <2>1, <3>2 DEF RootsDone
    <3>3. QED  BY <3>1, <3>2
  <2>5. QED  BY <2>1, <2>2, <2>3, <2>4, SameNodes, Frozen DEF Walk
<1>12. QED
  BY <1>1, <1>2, <1>3, <1>4, <1>5, <1>6, <1>7, <1>8, <1>9, <1>10, <1>11
  DEF Next, Resolve

\* The walk's invariant, from which the theorems follow.
THEOREM WalkInvariant == Spec => []Walk
<1>1. Init => Walk  BY InitWalk
<1>2. Walk /\ [Next]_vars => Walk'  BY NextWalk
<1>3. QED  BY <1>1, <1>2, PTL DEF Spec

\* Type correctness.
THEOREM TypeCorrect == Spec => []TypeOK
<1>1. Walk => TypeOK
  <2> SUFFICES ASSUME Walk  PROVE TypeOK
    OBVIOUS
  <2>1. /\ graph.slug \in [Obj -> Slug] /\ graph.own \in [Obj -> Own]
        /\ graph.deps \in [Obj -> Seq(Obj \cup {Nil})]
        /\ roots \in Seq(Obj \cup {Nil})
    BY GraphTypes DEF Walk, Shape
  <2>2. stack \in Seq([job : Obj \cup {Nil}, next : Nat \ {0}, deps : SUBSET Slug])
        /\ stack # <<>>
    BY DEF Walk, Path, Frames
  <2>3. \A i \in 2..Len(stack) : stack[i].job \in Obj
    BY <2>2 DEF Walk, Path, FrameOK
  <2>4. \A s \in DOMAIN nodes : nodes[s].job \in Obj /\ nodes[s].deps \subseteq Slug
    BY <2>1 DEF Walk, Nodes, NodeOK, DepSlugs, SlugOf, Agrees
  <2>5. QED  BY <2>1, <2>2, <2>3, <2>4 DEF TypeOK, Walk, Shape, Outcomes, Nodes
<1>2. QED  BY <1>1, WalkInvariant, PTL

\* The order is a topological one, with every node once, and each node waits for
\* exactly what its job lists: Run's waiting for dependencies cannot deadlock.
THEOREM OrderIsTopological == Spec => []DependencyFirst
<1>1. Walk => DependencyFirst  BY DEF Walk
<1>2. QED  BY <1>1, WalkInvariant, PTL

\* An accepted call builds something that answers the same for every job asked for.
THEOREM AcceptedCallsAreCompared == Spec => []ClaimsAreCompared
<1>1. Walk => ClaimsAreCompared
  BY DEF Walk, RootsDone, Nodes, NodeOK, Agrees, ClaimsAreCompared
<1>2. QED  BY <1>1, WalkInvariant, PTL

--------------------------------------------------------------------------------
(* Keys. keyCache outlives a call, and a call's nodes may come from other      *)
(* objects than those the cached keys were computed from: what makes them agree *)
(* is the rule of job.go:31 that a slug determines a job's content.             *)

KeyDoc(o, kc) == [slug |-> SlugOf(o), own |-> graph.own[o],
                  deps |-> [t \in DepSlugs(o) |-> kc[t]]]

\* The entry of a slug is the Merkle key of an object that was built under it.
Stands(s, kc, m) == \E o \in m : /\ SlugOf(o) = s /\ Nil \notin DepsOf(o)
                                 /\ DepSlugs(o) \subseteq DOMAIN kc
                                 /\ kc[s] = KeyDoc(o, kc)

Cached ==
  /\ \A s \in DOMAIN keyCache : Stands(s, keyCache, made)
  /\ \A s \in DOMAIN nodes : /\ s \in DOMAIN keyCache /\ nodes[s].key = keyCache[s]
                             /\ nodes[s].job \in made

Keyed == Walk /\ Cached

\* Objects with the same answers list the same slugs.
LEMMA SameJobSameDeps ==
  ASSUME graph \in Graphs, roots \in Roots, NEW a \in Obj, NEW b \in Obj, SameJob(a, b),
         Nil \notin DepsOf(a), Nil \notin DepsOf(b)
  PROVE  graph.own[a] = graph.own[b] /\ DepSlugs(a) = DepSlugs(b)
<1> DEFINE At(o, s) == {i \in DOMAIN graph.deps[o] : SlugOf(graph.deps[o][i]) = s}
<1>1. ASSUME NEW o \in Obj, NEW s
      PROVE  /\ Times(o, s) = 0 <=> At(o, s) = {}
             /\ s \in DepSlugs(o) <=> At(o, s) # {}
  <2>1. graph.deps[o] \in Seq(Obj \cup {Nil})  BY GraphTypes
  <2>2. IsFiniteSet(DOMAIN graph.deps[o])
    <3>1. DOMAIN graph.deps[o] = 1..Len(graph.deps[o]) /\ Len(graph.deps[o]) \in Nat  BY <2>1
    <3>2. QED  BY <3>1, FS_Interval
  <2>3. IsFiniteSet(At(o, s))  BY <2>2, FS_Subset
  <2>4. Times(o, s) = 0 <=> At(o, s) = {}  BY <2>3, FS_EmptySet DEF Times
  <2>5. s \in DepSlugs(o) <=> At(o, s) # {}  BY DEF DepSlugs, DepsOf, Elems
  <2>6. QED  BY <2>4, <2>5
<1>2. \A o \in Obj : Nil \notin DepsOf(o) => DepSlugs(o) \subseteq Slug
  <2> SUFFICES ASSUME NEW o \in Obj, Nil \notin DepsOf(o), NEW d \in DepsOf(o)
               PROVE  SlugOf(d) \in Slug
    BY DEF DepSlugs
  <2>1. graph.deps[o] \in Seq(Obj \cup {Nil})  BY GraphTypes
  <2>2. d \in Obj  BY <2>1 DEF DepsOf, Elems
  <2>3. QED  BY <2>2, GraphTypes DEF SlugOf
<1> HIDE DEF At
<1>3. CASE a = b  BY <1>3
<1>4. CASE a # b
  <2>1. graph.own[a] = graph.own[b] /\ \A s \in Slug : Times(a, s) = Times(b, s)
    BY <1>4 DEF SameJob
  <2>2. \A s \in Slug : s \in DepSlugs(a) <=> s \in DepSlugs(b)  BY <1>1, <2>1
  <2>3. DepSlugs(a) \subseteq Slug /\ DepSlugs(b) \subseteq Slug  BY <1>2
  <2>4. QED  BY <2>1, <2>2, <2>3
<1>5. QED  BY <1>3, <1>4

\* An entry keeps standing while the cache and the objects only grow.
LEMMA StandsOn ==
  ASSUME NEW s, NEW kc, NEW kd, NEW m, NEW n, Stands(s, kc, m), m \subseteq n,
         s \in DOMAIN kc, DOMAIN kc \subseteq DOMAIN kd,
         \A t \in DOMAIN kc : kd[t] = kc[t]
  PROVE  Stands(s, kd, n)
<1>1. PICK o \in m : /\ SlugOf(o) = s /\ Nil \notin DepsOf(o)
                     /\ DepSlugs(o) \subseteq DOMAIN kc /\ kc[s] = KeyDoc(o, kc)
  BY DEF Stands
<1>2. KeyDoc(o, kc) = KeyDoc(o, kd)  BY <1>1 DEF KeyDoc
<1>3. QED  BY <1>1, <1>2 DEF Stands

\* Every step preserves what keyCache holds.
LEMMA NextKeyed == Keyed /\ [Next]_vars => Keyed'
<1> SUFFICES ASSUME Keyed, [Next]_vars  PROVE Keyed'
  OBVIOUS
<1>1. Walk'  BY NextWalk DEF Keyed
<1>2. graph' = graph
  BY DEF Next, Resolve, NilJob, Revisit, Conflict, Panic, Cycle, Descend, BadName, Finish,
         Return, CallAgain, Fail, vars
<1>3. ASSUME NEW s, Stands(s, keyCache', made')  PROVE Stands(s, keyCache, made)'
  <2>1. ASSUME NEW o  PROVE /\ DepSlugs(o)' = DepSlugs(o) /\ SlugOf(o)' = SlugOf(o)
                            /\ DepsOf(o)' = DepsOf(o)
    BY <1>2 DEF DepSlugs, DepsOf, SlugOf, Elems
  <2>2. ASSUME NEW o  PROVE KeyDoc(o, keyCache)' = KeyDoc(o, keyCache')
    BY <1>2, <2>1 DEF KeyDoc
  <2>3. PICK o \in made' : /\ SlugOf(o) = s /\ Nil \notin DepsOf(o)
                           /\ DepSlugs(o) \subseteq DOMAIN keyCache'
                           /\ keyCache'[s] = KeyDoc(o, keyCache')
    BY <1>3 DEF Stands
  <2>4. QED  BY <2>1, <2>2, <2>3 DEF Stands
<1>4. CASE Finish
  <2> DEFINE j == Top.job
             s == SlugOf(j)
             v == [job |-> j, key |-> KeyOf(j), deps |-> Top.deps]
  <2>1. /\ AllVisited /\ Len(stack) \in Nat /\ Len(stack) > 1
        /\ nodes' = With(nodes, s, v) /\ keyCache' = With(keyCache, s, KeyOf(j))
        /\ made' = made \cup {j}
    BY <1>4, TopFrame DEF Finish, Keyed
  <2>3. DepSlugs(j) \subseteq DOMAIN keyCache /\ Nil \notin DepsOf(j)
    <3>1. \A m \in Nat : m > 1 => m # 1  OBVIOUS
    <3>2. Children = graph.deps[j]  BY <2>1, <3>1 DEF Children
    <3>3. \A d \in DepsOf(j) : Agrees(d, nodes)  BY <2>1, <3>2, TopFrame DEF DepsOf, Keyed
    <3>4. QED  BY <3>3, GraphAssumption DEF DepSlugs, Agrees, Keyed, Cached
  <2> HIDE DEF j, v
  <2>4. /\ DOMAIN keyCache' = DOMAIN keyCache \cup {s}
        /\ \A t \in DOMAIN keyCache : keyCache'[t] = keyCache[t]
        /\ keyCache'[s] = KeyOf(j)
    BY <2>1 DEF With, KeyOf
  <2>5. /\ DOMAIN nodes' = DOMAIN nodes \cup {s}
        /\ \A t \in DOMAIN nodes : t # s => nodes'[t] = nodes[t]
        /\ nodes'[s].key = KeyOf(j) /\ nodes'[s].job = j
    BY <2>1 DEF With, v
  <2>6. ASSUME NEW t \in DOMAIN keyCache'  PROVE Stands(t, keyCache', made')
    <3>1. CASE t \in DOMAIN keyCache
      <4>1. Stands(t, keyCache, made)  BY <3>1 DEF Keyed, Cached
      <4>2. made \subseteq made' /\ DOMAIN keyCache \subseteq DOMAIN keyCache'
        BY <2>1, <2>4
      <4>3. QED  BY <2>4, <3>1, <4>1, <4>2, StandsOn
    <3>2. CASE t \notin DOMAIN keyCache
      <4>1. t = s /\ keyCache'[s] = KeyDoc(j, keyCache)
        BY <2>4, <3>2 DEF KeyOf, NewKey, KeyDoc
      <4>2. KeyDoc(j, keyCache) = KeyDoc(j, keyCache')  BY <2>3, <2>4 DEF KeyDoc
      <4>3. j \in made' /\ DepSlugs(j) \subseteq DOMAIN keyCache'  BY <2>1, <2>3, <2>4
      <4>4. Nil \notin DepsOf(j)  BY <2>3
      <4>5. QED  BY <4>1, <4>2, <4>3, <4>4 DEF Stands
    <3>3. QED  BY <3>1, <3>2
  <2>7. \A t \in DOMAIN nodes' : /\ t \in DOMAIN keyCache' /\ nodes'[t].key = keyCache'[t]
                                 /\ nodes'[t].job \in made'
    BY <2>1, <2>4, <2>5 DEF Keyed, Cached
  <2>8. Cached'  BY <1>3, <2>6, <2>7 DEF Cached
  <2>9. QED  BY <1>1, <2>8 DEF Keyed
<1>5. CASE ~Finish
  <2>1. keyCache' = keyCache /\ made' = made /\ (nodes' = nodes \/ DOMAIN nodes' = {})
    BY <1>5 DEF Next, Resolve, NilJob, Revisit, Conflict, Panic, Cycle, Descend, BadName,
                Return, CallAgain, Fail, walk, vars
  <2>2. \A t \in DOMAIN keyCache' : Stands(t, keyCache', made')
    BY <2>1 DEF Keyed, Cached
  <2>3. \A t \in DOMAIN nodes' : /\ t \in DOMAIN keyCache' /\ nodes'[t].key = keyCache'[t]
                                 /\ nodes'[t].job \in made'
    BY <2>1 DEF Keyed, Cached
  <2>4. Cached'  BY <1>3, <2>2, <2>3 DEF Cached
  <2>5. QED  BY <1>1, <2>4 DEF Keyed
<1>6. QED  BY <1>4, <1>5

\* Whatever objects the calls of a process bring, a node's key is the Merkle key of an
\* object that was built under its slug; and where a slug determines what its jobs
\* answer, it covers the answers of the object this call will build.
THEOREM KeysCoverWhatIsBuilt == Spec => []KeysAreMerkle
<1>1. Init => Keyed
  <2> SUFFICES ASSUME Init  PROVE Keyed
    OBVIOUS
  <2>1. DOMAIN keyCache = {} /\ DOMAIN nodes = {}  BY DEF Init
  <2>2. QED  BY <2>1, InitWalk DEF Keyed, Cached
<1>2. Keyed /\ [Next]_vars => Keyed'  BY NextKeyed
<1>3. Keyed => KeysAreMerkle
  <2> SUFFICES ASSUME Keyed, NEW s \in DOMAIN nodes
               PROVE  /\ \E o \in made : SlugOf(o) = s /\ nodes[s].key = KeyDoc(o, keyCache)
                      /\ SlugsDetermineJobs =>
                           nodes[s].key = [slug |-> s, own |-> graph.own[nodes[s].job],
                                           deps |-> [t \in nodes[s].deps |-> nodes[t].key]]
    BY DEF KeysAreMerkle, KeyDoc
  <2> DEFINE j == nodes[s].job
  <2>1. NodeOK(s, nodes)  BY DEF Keyed, Walk, Nodes
  <2>2. PICK o \in made : /\ SlugOf(o) = s /\ nodes[s].key = KeyDoc(o, keyCache)
                          /\ DepSlugs(o) \subseteq DOMAIN keyCache /\ Nil \notin DepsOf(o)
    BY DEF Keyed, Cached, Stands
  <2>3. ASSUME SlugsDetermineJobs
        PROVE  nodes[s].key = [slug |-> s, own |-> graph.own[j],
                               deps |-> [t \in nodes[s].deps |-> nodes[t].key]]
    <3>1. j \in made /\ SlugOf(j) = s  BY <2>1 DEF Keyed, Cached, NodeOK
    <3>2. SameJob(o, j)  BY <2>2, <2>3, <3>1 DEF SlugsDetermineJobs
    <3>3. graph \in Graphs /\ roots \in Roots /\ o \in Obj /\ j \in Obj
      BY <2>2, <3>1 DEF Keyed, Walk, Shape
    <3>4. graph.own[o] = graph.own[j] /\ DepSlugs(o) = DepSlugs(j)
      <4>1. Nil \notin DepsOf(j)  BY <2>1, GraphAssumption DEF NodeOK, Agrees
      <4>2. QED  BY <2>2, <3>2, <3>3, <4>1, SameJobSameDeps
    <3>5. \A t \in nodes[s].deps : t \in DOMAIN nodes
      BY <2>1 DEF NodeOK, DepSlugs, Agrees
    <3>6. \A t \in nodes[s].deps : nodes[t].key = keyCache[t]
      BY <3>5 DEF Keyed, Cached
    <3>7. nodes[s].deps = DepSlugs(o)  BY <2>1, <3>4 DEF NodeOK
    <3>8. QED  BY <2>2, <3>4, <3>6, <3>7 DEF KeyDoc
  <2>4. QED  BY <2>2, <2>3
<1>4. QED  BY <1>1, <1>2, <1>3, PTL DEF Spec

--------------------------------------------------------------------------------
(* Failures. The walk never leaves the jobs a caller asked for, so whatever it *)
(* trips over is among them; a cycle is the part of the stack from the slug    *)
(* that came back.                                                             *)

\* Everything that was visited lies in S.
Within(S) ==
  /\ \A i \in 2..Len(stack) : stack[i].job \in S
  /\ \A s \in DOMAIN nodes : nodes[s].job \in S

Reasoned ==
  /\ Walk
  /\ \A S \in SUBSET Obj : Asked(S) => Within(S)
  /\ FailuresHaveCause

\* The child that is due is one of those asked for.
LEMMA DueIsAsked ==
  ASSUME Walk, NEW S \in SUBSET Obj, Asked(S), Within(S), MoreToVisit
  PROVE  /\ Due \in S \cup {Nil}
         /\ Due \in IF Len(stack) = 1 THEN Elems(roots) ELSE DepsOf(Top.job)
         /\ Len(stack) # 1 => Top.job \in S
<1>1. /\ Len(stack) \in Nat \ {0} /\ Top.next \in Nat \ {0} /\ Top.next <= Len(Children)
      /\ Children \in Seq(Obj \cup {Nil})
  BY TopFrame DEF MoreToVisit, Frames
<1>2. Due \in Elems(Children)  BY <1>1 DEF Due, Elems
<1>3. CASE Len(stack) = 1
  BY <1>2, <1>3 DEF Children, Asked
<1>4. CASE Len(stack) # 1
  <2>1. Top.job \in S
    <3>1. \A n \in Nat \ {0} : n # 1 => n \in 2..n  OBVIOUS
    <3>2. Len(stack) \in 2..Len(stack)  BY <1>1, <1>4, <3>1
    <3>3. QED  BY <3>2 DEF Within, Top
  <2>2. Due \in DepsOf(Top.job)  BY <1>2, <1>4 DEF Children, DepsOf
  <2>3. QED  BY <1>4, <2>1, <2>2 DEF Asked
<1>5. QED  BY <1>3, <1>4

\* What is asked for contains the reason of each failure.
LEMMA FailureIsReasoned ==
  ASSUME Walk, NEW S \in SUBSET Obj, Asked(S), Within(S),
         NilJob \/ Conflict \/ Panic \/ Cycle \/ BadName
  PROVE  ~Sound(S)
<1>1. CASE NilJob
  <2>1. Due = Nil /\ MoreToVisit  BY <1>1 DEF NilJob
  <2>2. Nil \in Elems(roots) \cup UNION {DepsOf(o) : o \in S}
    BY <2>1, DueIsAsked
  <2>3. QED  BY <2>2 DEF Sound
<1>2. CASE Conflict
  <2>1. /\ Due \in S /\ SlugOf(Due) \in DOMAIN nodes
        /\ ~SameJob(nodes[SlugOf(Due)].job, Due)
    BY <1>2, DueIsAsked DEF Conflict
  <2>2. /\ nodes[SlugOf(Due)].job \in S
        /\ SlugOf(nodes[SlugOf(Due)].job) = SlugOf(Due)
    BY <2>1 DEF Within, Walk, Nodes, NodeOK
  <2>3. QED  BY <2>1, <2>2 DEF Sound
<1>3. CASE Panic
  <2>1. Due \in S /\ Nil \in DepsOf(Due)  BY <1>3, DueIsAsked DEF Panic
  <2>2. QED  BY <2>1 DEF Sound
<1>4. CASE Cycle
  <2> DEFINE n == Len(stack)
  <2>1. /\ MoreToVisit /\ SlugOf(Due) \in OnStack /\ n \in Nat \ {0}
        /\ stack \in Seq(Frames)
    BY <1>4, TopFrame DEF Cycle, Walk, Path
  <2>2. PICK k \in 2..n : SlugOf(stack[k].job) = SlugOf(Due)
    BY <2>1 DEF OnStack
  <2> DEFINE C == {stack[i].job : i \in k..n}
  <2>3. C \in SUBSET S /\ C # {}
    BY <2>1, <2>2 DEF Within
  <2>4. ASSUME NEW i \in k..n
        PROVE  \E b \in C : SlugOf(b) \in DepSlugs(stack[i].job)
    <3>1. CASE i = n
      <4>1. Due \in DepsOf(stack[i].job)  BY <2>1, <2>2, <3>1, DueIsAsked DEF Top
      <4>2. stack[k].job \in C  BY <2>1, <2>2
      <4>3. QED  BY <2>2, <4>1, <4>2 DEF DepSlugs
    <3>2. CASE i # n
      <4>1. i + 1 \in k..n /\ i + 1 \in 2..n /\ i # 1 /\ i \in 1..n
        BY <2>1, <2>2, <3>2
      <4>2. /\ stack[i].next <= Len(ListOf(stack, i))
            /\ stack[i + 1].job = ListOf(stack, i)[stack[i].next]
        BY <4>1 DEF Walk, Path, Linked
      <4>3. FrameOK(stack, i, nodes)  BY <4>1 DEF Walk, Path
      <4>4. ListOf(stack, i) \in Seq(Obj \cup {Nil})
        BY <4>1, <4>3, ListType DEF Walk, Shape
      <4>5. stack[i].next \in Nat \ {0}
        <5>1. stack[i] \in Frames  BY <2>1, <4>1
        <5>2. QED  BY <5>1 DEF Frames
      <4>6. stack[i + 1].job \in DepsOf(stack[i].job)
        BY <4>1, <4>2, <4>4, <4>5 DEF ListOf, DepsOf, Elems
      <4>7. stack[i + 1].job \in C  BY <4>1
      <4>8. QED  BY <4>6, <4>7 DEF DepSlugs
    <3>3. QED  BY <3>1, <3>2
  <2>5. \A a \in C : \E b \in C : SlugOf(b) \in DepSlugs(a)  BY <2>4
  <2>6. QED  BY <2>3, <2>5 DEF Sound
<1>5. CASE BadName
  <2>1. Len(stack) \in Nat /\ Len(stack) > 1  BY <1>5, TopFrame DEF BadName
  <2>2. Top.job \in S /\ SlugOf(Top.job) \in BadSlug
    BY <1>5, <2>1 DEF BadName, Within, Top
  <2>3. QED  BY <2>2 DEF Sound
<1>6. QED  BY <1>1, <1>2, <1>3, <1>4, <1>5

\* What was visited stays within what was asked for.
LEMMA StaysWithin ==
  ASSUME Walk, [Next]_vars, NEW S \in SUBSET Obj, Asked(S), Within(S)
  PROVE  Within(S)'
<1>1. CASE UNCHANGED <<stack, nodes>>  BY <1>1 DEF Within
<1>2. Len(stack) \in Nat \ {0} /\ stack \in Seq(Frames)
  BY TopFrame DEF Walk, Path
<1>3. ASSUME NEW st, NEW s, st \in Seq(Frames), Len(st) \in Nat \ {0},
             \A i \in 2..Len(st) : st[i].job \in S, stack' = Advance(st, s)
      PROVE  \A i \in 2..Len(stack') : stack'[i].job \in S
  <2>1. Len(stack') = Len(st) /\ \A i \in 1..Len(st) : stack'[i].job = st[i].job
    BY <1>3 DEF Advance, Frames
  <2>2. QED  BY <1>3, <2>1
<1>4. CASE Revisit
  <2>1. stack' = Advance(stack, SlugOf(Due)) /\ nodes' = nodes  BY <1>4 DEF Revisit
  <2>2. \A i \in 2..Len(stack') : stack'[i].job \in S  BY <1>2, <1>3, <2>1 DEF Within
  <2>3. QED  BY <2>1, <2>2 DEF Within
<1>5. CASE Descend
  <2>1. stack' = Append(stack, Frame(Due)) /\ nodes' = nodes /\ Due \in S
    BY <1>5, DueIsAsked DEF Descend
  <2>2. \A i \in 2..Len(stack') : stack'[i].job \in S
    BY <1>2, <2>1 DEF Within, Frame
  <2>3. QED  BY <2>1, <2>2 DEF Within
<1>6. CASE Finish
  <2> DEFINE n == Len(stack)
             st == SubSeq(stack, 1, n - 1)
  <2>1. n > 1 /\ stack' = Advance(st, SlugOf(Top.job))
    BY <1>6 DEF Finish
  <2>2. st \in Seq(Frames) /\ Len(st) = n - 1 /\ \A i \in 1..(n - 1) : st[i] = stack[i]
    BY <1>2, <2>1
  <2>3. \A i \in 2..Len(stack') : stack'[i].job \in S
    <3>1. Len(st) \in Nat \ {0} /\ \A i \in 2..Len(st) : st[i].job \in S
      BY <1>2, <2>1, <2>2 DEF Within
    <3> HIDE DEF st
    <3>2. QED  BY <1>3, <2>1, <2>2, <3>1
  <2>4. Top.job \in S  BY <1>2, <2>1 DEF Within, Top
  <2>5. ASSUME NEW t \in DOMAIN nodes'  PROVE nodes'[t].job \in S
    <3> DEFINE v == [job |-> Top.job, key |-> KeyOf(Top.job), deps |-> Top.deps]
    <3>1. nodes' = With(nodes, SlugOf(Top.job), v)  BY <1>6 DEF Finish
    <3>2. v.job \in S  BY <2>4
    <3> HIDE DEF v
    <3>3. nodes'[t] = v \/ (t \in DOMAIN nodes /\ nodes'[t] = nodes[t])
      BY <2>5, <3>1 DEF With
    <3>4. QED  BY <3>2, <3>3 DEF Within
  <2>6. QED  BY <2>3, <2>5 DEF Within
<1>7. CASE CallAgain  BY <1>7 DEF CallAgain, Within
<1>8. QED
  BY <1>1, <1>4, <1>5, <1>6, <1>7 DEF Next, Resolve, NilJob, Conflict, Panic, Cycle,
     BadName, Return, Fail, walk, vars

LEMMA NextReasoned == Reasoned /\ [Next]_vars => Reasoned'
<1> SUFFICES ASSUME Reasoned, [Next]_vars  PROVE Reasoned'
  OBVIOUS
<1>1. Walk /\ Walk'  BY NextWalk DEF Reasoned
<1>2. CASE CallAgain
  <2>1. Len(stack') = 1 /\ DOMAIN nodes' = {} /\ outcome' = "running"
    BY <1>2 DEF CallAgain
  <2>2. QED  BY <1>1, <2>1 DEF Reasoned, Within, FailuresHaveCause
<1>3. CASE ~CallAgain
  <2>1. graph' = graph /\ roots' = roots
    BY <1>3 DEF Next, Resolve, NilJob, Revisit, Conflict, Panic, Cycle, Descend, BadName,
                Finish, Return, Fail, vars
  <2>2. ASSUME NEW S \in SUBSET Obj
        PROVE  (Asked(S)' <=> Asked(S)) /\ (Sound(S)' <=> Sound(S))
    <3>1. ASSUME NEW o  PROVE SlugOf(o)' = SlugOf(o) /\ DepsOf(o)' = DepsOf(o)
                              /\ DepSlugs(o)' = DepSlugs(o)
      BY <2>1 DEF SlugOf, DepsOf, DepSlugs, Elems
    <3>2. ASSUME NEW a, NEW b  PROVE SameJob(a, b)' <=> SameJob(a, b)
      BY <2>1 DEF SameJob, Times, SlugOf
    <3>3. Elems(roots)' = Elems(roots)  BY <2>1 DEF Elems
    <3>4. Asked(S)' <=> Asked(S)  BY <3>1, <3>3 DEF Asked
    <3>5. Sound(S)' <=> Sound(S)
      <4>1. UNION {DepsOf(o)' : o \in S} = UNION {DepsOf(o) : o \in S}  BY <3>1
      <4>2. QED  BY <3>1, <3>2, <3>3, <4>1 DEF Sound
    <3>6. QED  BY <3>4, <3>5
  <2>3. \A S \in SUBSET Obj : Asked(S)' => Within(S)'
    BY <1>1, <2>2, StaysWithin DEF Reasoned
  <2>4. FailuresHaveCause'
    <3> SUFFICES ASSUME outcome' \notin {"running", "ok"},
                        NEW S \in SUBSET Obj, Asked(S)', Sound(S)'
                 PROVE  FALSE
      BY DEF FailuresHaveCause
    <3>1. Asked(S) /\ Sound(S) /\ Within(S)  BY <2>2 DEF Reasoned
    <3>2. outcome \in {"running", "ok"}  BY <3>1 DEF Reasoned, FailuresHaveCause
    <3>3. NilJob \/ Conflict \/ Panic \/ Cycle \/ BadName
      BY <1>3, <3>2 DEF Next, Resolve, Revisit, Descend, Finish, Return, vars, MoreToVisit,
         AllVisited
    <3>4. QED  BY <1>1, <3>1, <3>3, FailureIsReasoned
  <2>5. QED  BY <1>1, <2>3, <2>4 DEF Reasoned
<1>4. QED  BY <1>2, <1>3

\* A call fails only for a reason in what it was asked to resolve: nil jobs, a slug
\* that is no file name, two jobs under one slug, or a cycle of slugs. A graph with
\* none of these, of any size and shape, is never refused.
THEOREM FailuresAreReasoned == Spec => []FailuresHaveCause
<1>1. Init => Reasoned
  <2> SUFFICES ASSUME Init  PROVE Reasoned
    OBVIOUS
  <2>1. Len(stack) = 1 /\ DOMAIN nodes = {} /\ outcome = "running"  BY DEF Init
  <2>2. QED  BY <2>1, InitWalk DEF Reasoned, Within, FailuresHaveCause
<1>2. Reasoned /\ [Next]_vars => Reasoned'  BY NextReasoned
<1>3. QED  BY <1>1, <1>2, PTL DEF Spec, Reasoned

================================================================================
