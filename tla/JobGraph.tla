-------------------------------- MODULE JobGraph -------------------------------
(***************************************************************************)
(* resolve of core/job.go: from the jobs a caller passes to Plan or Run to *)
(* the nodes the engine schedules. A caller hands over objects; two        *)
(* objects may claim one slug, and everything below goes by slug. resolve  *)
(* walks the objects depth first, turns the first object of each slug into *)
(* a node, compares every later one with it, and gives each node its       *)
(* Merkle key. BuildEngine assumes of its Deps and Key what is shown here. *)
(*                                                                         *)
(* The closures of the source are explicit: a stack of the visits in       *)
(* progress, whose bottom frame is the loop over the roots.                *)
(***************************************************************************)
EXTENDS Integers, Sequences, FiniteSets

CONSTANTS
  Obj,      \* job objects
  Nil,      \* a nil job
  Slug,     \* what Job.Slug may answer
  BadSlug,  \* SUBSET Slug: empty, or with a character no file name may have
  Own,      \* what Job.Name and Job.KeyInputs may answer
  Graphs,   \* the graphs those objects may form
  Roots,    \* the lists of objects a caller may pass
  MaxCalls  \* bound: calls of resolve in one process, which share keyCache

ASSUME GraphAssumption ==
  /\ Nil \notin Obj /\ BadSlug \subseteq Slug
  /\ Graphs \subseteq [slug : [Obj -> Slug], own : [Obj -> Own],
                       deps : [Obj -> Seq(Obj \cup {Nil})]]
  /\ Roots \subseteq Seq(Obj \cup {Nil})
  /\ MaxCalls \in Nat

VARIABLES
  graph,     \* the objects and what they answer; never changes
  roots,     \* what this call was asked to resolve
  stack,     \* visits in progress: the object, its next dependency, n.deps so far
  nodes,     \* byslug: the node of each slug that is done
  order,     \* the slugs in the order their nodes were finished
  keyCache,  \* the keys computed by this process so far
  outcome,   \* what resolve returned, or "running"
  calls,     \* calls so far
  made       \* history: the objects that became a node, in any call

walk == <<stack, nodes, order, keyCache, made>>
vars == <<graph, roots, walk, outcome, calls>>

Elems(s) == {s[i] : i \in DOMAIN s}

SlugOf(o) == graph.slug[o]
DepsOf(o) == Elems(graph.deps[o])
DepSlugs(o) == {SlugOf(d) : d \in DepsOf(o)}

--------------------------------------------------------------------------------
(* The walk *)

Frame(o) == [job |-> o, next |-> 1, deps |-> {}]
Top == stack[Len(stack)]
Children == IF Len(stack) = 1 THEN roots ELSE graph.deps[Top.job]
MoreToVisit == outcome = "running" /\ Top.next <= Len(Children)
NoneLeft == outcome = "running" /\ Top.next > Len(Children) + 1  \* slip: off by one
AllVisited == outcome = "running" /\ Top.next > Len(Children)
Due == Children[Top.next]
OnStack == {SlugOf(stack[i].job) : i \in 2..Len(stack)}

\* Slip: the node being built, n, is appended instead of dn.
AdvanceWithSelf(st, s) ==
  [st EXCEPT ![Len(st)] = [job |-> @.job, next |-> @.next + 1, deps |-> @.deps \cup {@.job}]]
\* Slip: n.deps = []*node{dn} instead of append.
AdvanceWithLast(st, s) ==
  [st EXCEPT ![Len(st)] = [job |-> @.job, next |-> @.next + 1, deps |-> {s}]]
\* The loop takes its next turn; the node it got goes to n.deps.
Advance(st, s) ==
  [st EXCEPT ![Len(st)] = [job |-> @.job, next |-> @.next + 1, deps |-> @.deps \cup {s}]]

\* sameJob: one object, or the same answers and the same list of dependency slugs.
Times(o, s) == Cardinality({i \in DOMAIN graph.deps[o] : SlugOf(graph.deps[o][i]) = s})
SameJob(a, b) ==
  \/ a = b
  \/ /\ graph.own[a] = graph.own[b]
     /\ \A s \in Slug : Times(a, s) = Times(b, s)

\* Slip: the pre-image leaves the dependencies out.
KeyOfOwnInputs(o) == [slug |-> SlugOf(o), own |-> graph.own[o],
                      deps |-> [s \in {} |-> keyCache[s]]]
\* computeKey for an object whose dependencies are keyed.
NewKey(o) == [slug |-> SlugOf(o), own |-> graph.own[o],
              deps |-> [s \in DepSlugs(o) |-> keyCache[s]]]
KeyOf(o) == IF SlugOf(o) \in DOMAIN keyCache THEN keyCache[SlugOf(o)] ELSE NewKey(o)
With(f, s, v) == [t \in DOMAIN f \cup {s} |-> IF t = s THEN v ELSE f[t]]

Init ==
  /\ graph \in Graphs /\ roots \in Roots
  /\ stack = <<Frame(Nil)>>
  /\ nodes = [s \in {} |-> {}]
  /\ order = <<>>
  /\ keyCache = [s \in {} |-> {}]
  /\ outcome = "running"
  /\ calls = 1
  /\ made = {}

Fail(why) == outcome' = why /\ UNCHANGED <<graph, roots, walk, calls>>

NilJob == MoreToVisit /\ Due = Nil /\ Fail("nil")

\* Slip: the node of the slug is returned without the comparison.
RevisitUnseen ==
  /\ MoreToVisit /\ Due # Nil /\ SlugOf(Due) \in DOMAIN nodes
  /\ stack' = Advance(stack, SlugOf(Due))
  /\ UNCHANGED <<graph, roots, nodes, order, keyCache, made, outcome, calls>>

\* Its slug has a node. The comparison takes the slug of every dependency.
Revisit ==
  /\ MoreToVisit /\ Due # Nil /\ SlugOf(Due) \in DOMAIN nodes
  /\ Due = nodes[SlugOf(Due)].job \/ Nil \notin DepsOf(Due)
  /\ SameJob(nodes[SlugOf(Due)].job, Due)
  /\ stack' = Advance(stack, SlugOf(Due))
  /\ UNCHANGED <<graph, roots, nodes, order, keyCache, made, outcome, calls>>

\* Slip: a second object under a slug is refused whatever it answers.
ConflictByIdentity ==
  /\ MoreToVisit /\ Due # Nil /\ SlugOf(Due) \in DOMAIN nodes
  /\ Due # nodes[SlugOf(Due)].job
  /\ Fail("conflict")

Conflict ==
  /\ MoreToVisit /\ Due # Nil /\ SlugOf(Due) \in DOMAIN nodes
  /\ Nil \notin DepsOf(Due)
  /\ ~SameJob(nodes[SlugOf(Due)].job, Due)
  /\ Fail("conflict")

\* d.Slug() of a nil dependency: jobFingerprint does not check.
Panic ==
  /\ MoreToVisit /\ Due # Nil /\ SlugOf(Due) \in DOMAIN nodes
  /\ Due # nodes[SlugOf(Due)].job /\ Nil \in DepsOf(Due)
  /\ Fail("panic")

Cycle ==
  /\ MoreToVisit /\ Due # Nil
  /\ SlugOf(Due) \notin DOMAIN nodes /\ SlugOf(Due) \in OnStack
  /\ Fail("cycle")

Descend ==
  /\ MoreToVisit /\ Due # Nil /\ SlugOf(Due) \notin DOMAIN nodes \cup OnStack
  /\ stack' = Append(stack, Frame(Due))
  /\ UNCHANGED <<graph, roots, nodes, order, keyCache, made, outcome, calls>>

\* Key refuses the slug only now, after everything below it.
BadName ==
  /\ AllVisited /\ Len(stack) > 1 /\ SlugOf(Top.job) \in BadSlug
  /\ Fail("slug")

Finish ==
  /\ AllVisited /\ Len(stack) > 1 /\ SlugOf(Top.job) \notin BadSlug
  /\ LET s == SlugOf(Top.job)
     IN  /\ keyCache' = With(keyCache, s, KeyOf(Top.job))
         /\ nodes' = With(nodes, s, [job |-> Top.job, key |-> KeyOf(Top.job),
                                     deps |-> Top.deps])
         /\ order' = Append(order, s)
         /\ stack' = Advance(SubSeq(stack, 1, Len(stack) - 1), s)
  /\ made' = made \cup {Top.job}
  /\ UNCHANGED <<graph, roots, outcome, calls>>

Return ==
  /\ AllVisited /\ Len(stack) = 1
  /\ outcome' = "ok"
  /\ UNCHANGED <<graph, roots, walk, calls>>

\* Plan, then Run, then Plan resolve the same jobs again; bench does so for one
\* interpreter after the other, each time with jobs it has made anew.
CallAgain ==
  /\ outcome = "ok" /\ calls < MaxCalls
  /\ roots' \in Roots
  /\ calls' = calls + 1
  /\ outcome' = "running"
  /\ stack' = <<Frame(Nil)>>
  /\ nodes' = [s \in {} |-> {}]
  /\ order' = <<>>
  /\ UNCHANGED <<graph, keyCache, made>>

Resolve ==
  \/ NilJob \/ Revisit \/ Conflict \/ Panic \/ Cycle \/ Descend
  \/ BadName \/ Finish \/ Return

Next == Resolve \/ CallAgain

Spec == Init /\ [][Next]_vars
FairSpec == Spec /\ WF_vars(Resolve)

--------------------------------------------------------------------------------
(* Properties *)

TypeOK ==
  /\ graph.slug \in [Obj -> Slug] /\ graph.own \in [Obj -> Own]
  /\ graph.deps \in [Obj -> Seq(Obj \cup {Nil})] /\ roots \in Seq(Obj \cup {Nil})
  /\ stack \in Seq([job : Obj \cup {Nil}, next : Nat \ {0}, deps : SUBSET Slug])
  /\ stack # <<>>
  /\ \A i \in 2..Len(stack) : stack[i].job \in Obj
  /\ DOMAIN nodes \subseteq Slug /\ DOMAIN keyCache \subseteq Slug
  /\ \A s \in DOMAIN nodes : /\ DOMAIN nodes[s] = {"job", "key", "deps"}
                             /\ nodes[s].job \in Obj /\ nodes[s].deps \subseteq Slug
  /\ order \in Seq(Slug)
  /\ outcome \in {"running", "ok", "nil", "conflict", "panic", "cycle", "slug"}
  /\ calls \in Nat /\ made \subseteq Obj

Before(i) == {order[k] : k \in 1..(i - 1)}

\* The order Run starts goroutines from and Plan reports in: every node once, and
\* after everything it waits for, so waiting for dependencies cannot deadlock; and
\* a node waits for exactly what its job lists.
DependencyFirst ==
  /\ Elems(order) = DOMAIN nodes
  /\ \A i \in DOMAIN order :
       /\ order[i] \notin Before(i)
       /\ nodes[order[i]].deps \subseteq Before(i)
       /\ nodes[order[i]].deps = DepSlugs(nodes[order[i]].job)

\* The rule of job.go:31, a rule for the callers of resolve: within a process, a slug
\* determines what its jobs answer. A call compares its own objects only.
SlugsDetermineJobs == \A a, b \in made : SlugOf(a) = SlugOf(b) => SameJob(a, b)

\* keyCache outlives the calls (job.go:28), and a later call may bring other objects. A
\* node's key is always the Merkle key of an object that was built under its slug in
\* this process; where the rule of job.go:31 is kept, it covers the answers of the
\* very object this call will build, and the keys of the nodes it waits for.
KeysAreMerkle ==
  \A s \in DOMAIN nodes :
    /\ \E o \in made :
         SlugOf(o) = s /\ nodes[s].key = [slug |-> s, own |-> graph.own[o],
                                          deps |-> [t \in DepSlugs(o) |-> keyCache[t]]]
    /\ SlugsDetermineJobs =>
         nodes[s].key = [slug |-> s, own |-> graph.own[nodes[s].job],
                         deps |-> [t \in nodes[s].deps |-> nodes[t].key]]

\* What an accepted call will build stands for every job that was asked for: each
\* root, and each dependency of an object that is built, has a node whose object
\* gives the same answers (job.go:228).
ClaimsAreCompared ==
  outcome = "ok" =>
    \A o \in Elems(roots) \cup UNION {DepsOf(nodes[s].job) : s \in DOMAIN nodes} :
      SlugOf(o) \in DOMAIN nodes /\ SameJob(nodes[SlugOf(o)].job, o)

\* Every failure has a reason in the graph: what the recipes are meant to pass, an
\* acyclic graph in which a slug determines the job, is never refused.
Sound(S) ==
  /\ Nil \notin Elems(roots) \cup UNION {DepsOf(o) : o \in S}
  /\ \A o \in S : SlugOf(o) \notin BadSlug
  /\ \A a, b \in S : SlugOf(a) = SlugOf(b) => SameJob(a, b)
  /\ ~ \E C \in SUBSET S : C # {} /\ \A a \in C : \E b \in C : SlugOf(b) \in DepSlugs(a)
Asked(S) ==
  /\ Elems(roots) \subseteq S \cup {Nil}
  /\ \A o \in S : DepsOf(o) \subseteq S \cup {Nil}

FailuresHaveCause ==
  outcome \notin {"running", "ok"} => ~ \E S \in SUBSET Obj : Asked(S) /\ Sound(S)

\* A walk always ends, whatever cycles the objects form.
Ends == outcome = "running" ~> outcome # "running"

================================================================================
