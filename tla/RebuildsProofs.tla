----------------------------- MODULE RebuildsProofs ----------------------------
(***************************************************************************)
(* Why dist/ can be trusted: if nothing that keys overlook is touched, two  *)
(* jobs of one key, whatever the worlds they are seen in, have one content. *)
(*                                                                         *)
(* The argument: a key tells the kind of its job, most kinds tell the very  *)
(* job, and for each kind the inputs, with the keys of the dependencies,    *)
(* tell what its build reads of the world (SameUses) and which artifacts it *)
(* reads (SameParts).  SameContent follows by induction along Order.        *)
(*                                                                         *)
(* Inductions are done by least counterexamples: of a set of numbers that   *)
(* is not empty one is the least.                                          *)
(***************************************************************************)
EXTENDS Rebuilds, SequenceTheorems, WellFoundedInduction, TLAPS

\* A set of numbers that is not empty has a least one.
LEMMA LeastNumber ==
  ASSUME NEW S \in SUBSET Nat, S # {}
  PROVE  \E n \in S : \A m \in S : n <= m
<1>1. IsWellFoundedOn(OpToRel(<, Nat), Nat)
  BY NatLessThanWellFounded
<1>2. PICK n \in S : \A m \in S : ~(<<m, n>> \in OpToRel(<, Nat))
  BY <1>1, WFMin, S # {}, S \subseteq Nat
<1>3. \A m \in S : m \in Nat /\ n \in Nat /\ ~(m < n)
  BY <1>2 DEF OpToRel
<1> QED
  BY <1>3

--------------------------------------------------------------------------------
(* Jobs, kind by kind                                                      *)

\* The shapes of the members of Job.
LEMMA JobKinds ==
  ASSUME NEW j \in Job
  PROVE  \/ \E s \in Source : j = SrcTree(s)
         \/ \E b \in Builds : j = Probe(b[1], b[2])
         \/ \E h \in Host : j = PyHost(h)
         \/ \E h \in Host : j = StaticAPI(h)
         \/ \E f \in Static, b \in Builds, p \in Package : j = Dep(f, b[1], b[2], p)
         \/ \E f \in Static, b \in Builds : j = Sysroot(f, b[1], b[2])
         \/ \E f \in Static, b \in Builds : j = PyBuild(f, b[1], b[2])
         \/ \E f \in Profile, h \in Host : j = PyRef(f, h)
         \/ \E f \in Profile, b \in Builds, l \in Level : b \in Makes(f) /\ j = Verify(f, b[1], b[2], l)
         \/ \E f \in Profile, b \in Builds, l \in Level : b \in Makes(f) /\ j = Pack(f, b[1], b[2], l)
         \/ \E h \in Host, l \in Level : j = Kit(h, l)
<1>1. \A f \in Profile : Makes(f) \subseteq Builds
  BY DEF Makes
<1>2. j \in Verifications => \E f \in Profile, b \in Builds, l \in Level :
                               b \in Makes(f) /\ j = Verify(f, b[1], b[2], l)
  BY <1>1 DEF Verifications
<1>3. j \in Packs => \E f \in Profile, b \in Builds, l \in Level :
                       b \in Makes(f) /\ j = Pack(f, b[1], b[2], l)
  BY <1>1 DEF Packs
<1>4. ASSUME j \in Interpreters
      PROVE  \/ \E g \in Static, c \in Builds : j = PyBuild(g, c[1], c[2])
             \/ \E g \in Profile, h \in Host : j = PyRef(g, h)
  <2>1. PICK f \in Profile : \E b \in Makes(f) : j = Interpreter(f, b[1], b[2])
    BY <1>4 DEF Interpreters
  <2>2. PICK b \in Makes(f) : j = Interpreter(f, b[1], b[2])
    BY <2>1
  <2>3. b \in Builds /\ b[1] \in Host
    BY DEF Makes, Host
  <2> QED
    BY <2>2, <2>3 DEF Interpreter, Static
<1>5. j \in {Kit(b[1], l) : b \in {x \in Builds : x[1] = x[2]}, l \in Level}
      => \E h \in Host, l \in Level : j = Kit(h, l)
  BY DEF Host
<1> QED
  BY <1>2, <1>3, <1>4, <1>5 DEF Job

\* For each kind its name, inputs, uses, dependencies and parts.
LEMMA OfTree ==
  \A w, s : /\ Slug(w, SrcTree(s)) = <<"srctree", s, Pin(w, s)>>
            /\ Inputs(w, SrcTree(s)) = SrcTreeInputs(w, s)
            /\ Uses(w, SrcTree(s)) = SrcTreeInputs(w, s)
            /\ Deps(w, SrcTree(s)) = {} /\ Parts(w, SrcTree(s)) = {}
  BY DEF Slug, Inputs, Uses, Deps, Parts, SrcTree

LEMMA OfProbe ==
  \A w, h, t : /\ Slug(w, Probe(h, t)) = <<"probe", t>>
               /\ Inputs(w, Probe(h, t)) = ProbeInputs(w, h, t)
               /\ Uses(w, Probe(h, t)) = ProbeInputs(w, h, t)
               /\ Deps(w, Probe(h, t)) = {} /\ Parts(w, Probe(h, t)) = {}
  BY DEF Slug, Inputs, Uses, Deps, Parts, Probe

LEMMA OfPyHost ==
  \A w, h : /\ Slug(w, PyHost(h)) = <<"pyhost", Pin(w, "python")>>
            /\ Inputs(w, PyHost(h)) = PyHostInputs(w, h)
            /\ Uses(w, PyHost(h)) = PyHostUses(w, h)
            /\ Deps(w, PyHost(h)) = {SrcTree("python")}
            /\ Parts(w, PyHost(h)) = {SrcTree("python")}
  BY DEF Slug, Inputs, Uses, Deps, Parts, PyHost

LEMMA OfStaticAPI ==
  \A w, h : /\ Slug(w, StaticAPI(h)) = <<"staticapi", Pin(w, "python")>>
            /\ Inputs(w, StaticAPI(h)) = StaticAPIInputs(w)
            /\ Uses(w, StaticAPI(h)) = StaticAPIInputs(w)
            /\ Deps(w, StaticAPI(h)) = {SrcTree("python"), PyHost(h)}
            /\ Parts(w, StaticAPI(h)) = {SrcTree("python"), PyHost(h)}
  BY DEF Slug, Inputs, Uses, Deps, Parts, StaticAPI

LEMMA OfLibrary ==
  \A w, f, h, t, p :
    /\ Slug(w, Dep(f, h, t, p)) = <<"dep", f, t, p>>
    /\ Inputs(w, Dep(f, h, t, p)) = DepInputs(w, f, h, t, p)
    /\ Uses(w, Dep(f, h, t, p)) = DepUses(w, f, h, t, p)
    /\ Deps(w, Dep(f, h, t, p)) = {SrcTree(p)} \cup {Dep(f, h, t, n) : n \in Needs[p]}
    /\ Parts(w, Dep(f, h, t, p)) = {SrcTree(p)} \cup {Dep(f, h, t, n) : n \in AllNeeds[p]}
  BY DEF Slug, Inputs, Uses, Deps, Parts, Dep

LEMMA OfSysroot ==
  \A w, f, h, t :
    /\ Slug(w, Sysroot(f, h, t)) = <<"sysroot", f, t>>
    /\ Inputs(w, Sysroot(f, h, t)) = SysrootInputs(w, f)
    /\ Uses(w, Sysroot(f, h, t)) = SysrootInputs(w, f)
    /\ Deps(w, Sysroot(f, h, t)) = {Dep(f, h, t, p) : p \in Unskipped(w, f)}
    /\ Parts(w, Sysroot(f, h, t)) = {Dep(f, h, t, p) : p \in Unskipped(w, f)}
  BY DEF Slug, Inputs, Uses, Deps, Parts, Sysroot

LEMMA OfPyBuild ==
  \A w, f, h, t :
    /\ Slug(w, PyBuild(f, h, t)) = IF h = t THEN <<"pynative", f, t>> ELSE <<"pycross", f, h, t>>
    /\ Inputs(w, PyBuild(f, h, t)) = PyBuildInputs(w, f, h, t)
    /\ Uses(w, PyBuild(f, h, t)) = PyBuildUses(w, f, h, t)
    /\ Deps(w, PyBuild(f, h, t)) = {SrcTree("python"), Sysroot(f, h, t), StaticAPI(h),
                                    Probe(h, t), PyHost(h)}
    /\ Parts(w, PyBuild(f, h, t)) = Deps(w, PyBuild(f, h, t)) \cup Deps(w, Sysroot(f, h, t))
<1>1. \A w, f, h, t :
        /\ Inputs(w, PyBuild(f, h, t)) = PyBuildInputs(w, f, h, t)
        /\ Uses(w, PyBuild(f, h, t)) = PyBuildUses(w, f, h, t)
        /\ Slug(w, PyBuild(f, h, t)) = IF h = t THEN <<"pynative", f, t>>
                                        ELSE <<"pycross", f, h, t>>
  BY DEF Slug, Inputs, Uses, PyBuild
<1>2. \A w, f, h, t :
        Deps(w, PyBuild(f, h, t)) = {SrcTree("python"), Sysroot(f, h, t), StaticAPI(h),
                                     Probe(h, t), PyHost(h)}
  BY DEF Deps, PyBuild
<1>3. \A w, f, h, t :
        Parts(w, PyBuild(f, h, t)) = Deps(w, PyBuild(f, h, t)) \cup Deps(w, Sysroot(f, h, t))
  BY DEF Parts, PyBuild
<1> QED
  BY <1>1, <1>2, <1>3

LEMMA OfPyRef ==
  \A w, f, h :
    /\ Slug(w, PyRef(f, h)) = <<"pyref", f, h>>
    /\ Inputs(w, PyRef(f, h)) = PyRefInputs(w, f, h)
    /\ Uses(w, PyRef(f, h)) = PyRefUses(w, f, h)
    /\ Deps(w, PyRef(f, h)) = {SrcTree(s) : s \in {"python"} \cup Unskipped(w, f)}
    /\ Parts(w, PyRef(f, h)) = Deps(w, PyRef(f, h))
  BY DEF Slug, Inputs, Uses, Deps, Parts, PyRef

LEMMA OfVerify ==
  \A w, f, h, t, l :
    /\ Slug(w, Verify(f, h, t, l)) = <<"verify", f, t, l>>
    /\ Inputs(w, Verify(f, h, t, l)) = VerifyInputs(w, h, t, l)
    /\ Uses(w, Verify(f, h, t, l)) = VerifyUses(w, h, t, l)
    /\ Deps(w, Verify(f, h, t, l)) = {Interpreter(f, h, t)}
    /\ Parts(w, Verify(f, h, t, l)) = IF SkipRequested(w) THEN {} ELSE {Interpreter(f, h, t)}
  BY DEF Slug, Inputs, Uses, Deps, Parts, Verify, InterpreterOf

LEMMA OfPack ==
  \A w, f, h, t, l :
    /\ Slug(w, Pack(f, h, t, l)) = <<"pack", f, t>>
    /\ Inputs(w, Pack(f, h, t, l)) = PackInputs(w)
    /\ Uses(w, Pack(f, h, t, l)) = PackInputs(w)
    /\ Deps(w, Pack(f, h, t, l)) =
         {Interpreter(f, h, t)} \cup IF l = "none" THEN {} ELSE {Verify(f, h, t, l)}
    /\ Parts(w, Pack(f, h, t, l)) = {Interpreter(f, h, t)}
  BY DEF Slug, Inputs, Uses, Deps, Parts, Pack, InterpreterOf

LEMMA OfKit ==
  \A w, h, l :
    /\ Slug(w, Kit(h, l)) = <<"kit", h>>
    /\ Inputs(w, Kit(h, l)) = KitInputs(w)
    /\ Uses(w, Kit(h, l)) = KitUses(w, h)
    /\ Deps(w, Kit(h, l)) = {Pack(f, h, h, l) : f \in Arms}
    /\ Parts(w, Kit(h, l)) = {Interpreter(f, h, h) : f \in Arms}
  BY DEF Slug, Inputs, Uses, Deps, Parts, Kit

--------------------------------------------------------------------------------
(* What keys tell                                                          *)

\* Hashes are injective: one key, one name, one set of inputs, and the same
\* keys of dependencies.
LEMMA KeyTells ==
  ASSUME NEW w \in World, NEW v \in World, NEW j \in Job, NEW i \in Job, Key(w, j) = Key(v, i)
  PROVE  /\ Slug(w, j) = Slug(v, i)
         /\ Inputs(w, j) = Inputs(v, i)
         /\ \A d \in Deps(w, j) : \E e \in Deps(v, i) : Key(w, d) = Key(v, e)
<1> DEFINE Doc(u, x) == [slug |-> Slug(u, x), inputs |-> Inputs(u, x),
                         deps |-> {Key(u, d) : d \in Deps(u, x)}]
<1>1. Doc(w, j) = Doc(v, i)
  BY KeyAssumption
<1>2. /\ Slug(w, j) = Doc(w, j).slug /\ Inputs(w, j) = Doc(w, j).inputs
      /\ Slug(v, i) = Doc(v, i).slug /\ Inputs(v, i) = Doc(v, i).inputs
      /\ {Key(w, d) : d \in Deps(w, j)} = Doc(w, j).deps
      /\ {Key(v, d) : d \in Deps(v, i)} = Doc(v, i).deps
  OBVIOUS
<1> HIDE DEF Doc
<1>3. {Key(w, d) : d \in Deps(w, j)} = {Key(v, d) : d \in Deps(v, i)}
  BY <1>1, <1>2
<1>4. \A d \in Deps(w, j) : Key(w, d) \in {Key(v, e) : e \in Deps(v, i)}
  BY <1>3
<1> QED
  BY <1>1, <1>2, <1>4

\* JobKinds, from the field kind.
LEMMA ByKind ==
  ASSUME NEW j \in Job
  PROVE  /\ j.kind = "srctree" => \E s \in Source : j = SrcTree(s)
         /\ j.kind = "probe" => \E b \in Builds : j = Probe(b[1], b[2])
         /\ j.kind = "pyhost" => \E h \in Host : j = PyHost(h)
         /\ j.kind = "staticapi" => \E h \in Host : j = StaticAPI(h)
         /\ j.kind = "dep" => \E f \in Static, b \in Builds, p \in Package : j = Dep(f, b[1], b[2], p)
         /\ j.kind = "sysroot" => \E f \in Static, b \in Builds : j = Sysroot(f, b[1], b[2])
         /\ j.kind = "pybuild" => \E f \in Static, b \in Builds : j = PyBuild(f, b[1], b[2])
         /\ j.kind = "pyref" => \E f \in Profile, h \in Host : j = PyRef(f, h)
         /\ j.kind = "verify" => \E f \in Profile, b \in Builds, l \in Level :
                                   b \in Makes(f) /\ j = Verify(f, b[1], b[2], l)
         /\ j.kind = "pack" => \E f \in Profile, b \in Builds, l \in Level :
                                 b \in Makes(f) /\ j = Pack(f, b[1], b[2], l)
         /\ j.kind = "kit" => \E h \in Host, l \in Level : j = Kit(h, l)
         /\ j.kind \in {"srctree", "probe", "pyhost", "staticapi", "dep", "sysroot", "pybuild",
                        "pyref", "verify", "pack", "kit"}
  BY JobKinds DEF SrcTree, Probe, PyHost, StaticAPI, Dep, Sysroot, PyBuild, PyRef, Verify, Pack, Kit

\* Names begin with the kind, but for the two shapes of a CPython build.
LEMMA KindOfSlug ==
  ASSUME NEW w, NEW j \in Job
  PROVE  j.kind = IF Slug(w, j)[1] \in {"pynative", "pycross"} THEN "pybuild" ELSE Slug(w, j)[1]
<1> USE DEF SrcTree, Probe, PyHost, StaticAPI, Dep, Sysroot, PyBuild, PyRef, Verify, Pack, Kit
<1>1. \/ j.kind \in {"srctree", "probe", "pyhost", "staticapi", "dep", "sysroot", "pyref"}
         /\ Slug(w, j)[1] = j.kind
      \/ j.kind \in {"verify", "pack", "kit"} /\ Slug(w, j)[1] = j.kind
      \/ j.kind = "pybuild" /\ Slug(w, j)[1] \in {"pynative", "pycross"}
  BY JobKinds DEF Slug
<1> QED
  BY <1>1

\* Jobs of one key are of one kind.
LEMMA SameKind ==
  ASSUME NEW w \in World, NEW v \in World, NEW j \in Job, NEW i \in Job, Key(w, j) = Key(v, i)
  PROVE  j.kind = i.kind
  BY KeyTells, KindOfSlug

\* The keys of these kinds of jobs tell which job it is.
LEMMA SameJob ==
  ASSUME NEW w \in World, NEW v \in World, NEW j \in Job, NEW i \in Job, Key(w, j) = Key(v, i),
         j.kind \in {"srctree", "probe", "pyhost", "staticapi", "dep", "pybuild", "pyref"}
  PROVE  i = j
<1>1. j.kind = i.kind
  BY SameKind
<1>2. Slug(w, j) = Slug(v, i) /\ Inputs(w, j) = Inputs(v, i)
  BY KeyTells
<1>3. \A u, h, t : Toolchain(u, h, t).host = h
  BY DEF Toolchain, Tree
<1>4. CASE j.kind = "srctree"
  <2>1. PICK s \in Source : j = SrcTree(s)
    BY <1>4, ByKind
  <2>2. PICK r \in Source : i = SrcTree(r)
    BY <1>1, <1>4, ByKind
  <2> QED
    BY <1>2, <2>1, <2>2, OfTree
<1>5. CASE j.kind = "probe"
  <2>1. PICK b \in Builds : j = Probe(b[1], b[2])
    BY <1>5, ByKind
  <2>2. PICK c \in Builds : i = Probe(c[1], c[2])
    BY <1>1, <1>5, ByKind
  <2>3. b[2] = c[2]
    BY <1>2, <2>1, <2>2, OfProbe
  <2>4. ProbeInputs(w, b[1], b[2]) = ProbeInputs(v, c[1], c[2])
    BY <1>2, <2>1, <2>2, OfProbe
  <2>5. Toolchain(w, b[1], b[2]) = Toolchain(v, c[1], c[2])
    BY <2>4 DEF ProbeInputs
  <2> QED
    BY <1>3, <2>1, <2>2, <2>3, <2>5
<1>6. CASE j.kind = "pyhost"
  <2>1. PICK h \in Host : j = PyHost(h)
    BY <1>6, ByKind
  <2>2. PICK g \in Host : i = PyHost(g)
    BY <1>1, <1>6, ByKind
  <2>3. PyHostInputs(w, h) = PyHostInputs(v, g)
    BY <1>2, <2>1, <2>2, OfPyHost
  <2>4. h = g
    BY <2>3 DEF PyHostInputs
  <2> QED
    BY <2>1, <2>2, <2>4
<1>7. CASE j.kind = "staticapi"
  <2>1. PICK h \in Host : j = StaticAPI(h)
    BY <1>7, ByKind
  <2>2. PICK g \in Host : i = StaticAPI(g)
    BY <1>1, <1>7, ByKind
  <2>3. PyHost(h) \in Job /\ PyHost(g) \in Job /\ SrcTree("python") \in Job
    BY <2>1, <2>2, OfStaticAPI, OrderAssumption
  <2>4. PICK e \in {SrcTree("python"), PyHost(g)} : Key(w, PyHost(h)) = Key(v, e)
    BY <2>1, <2>2, OfStaticAPI, KeyTells
  <2>5. e = PyHost(g)
    BY <2>3, <2>4, SameKind DEF SrcTree, PyHost
  <2>6. PyHostInputs(w, h) = PyHostInputs(v, g)
    BY <2>3, <2>4, <2>5, KeyTells, OfPyHost
  <2>7. h = g
    BY <2>6 DEF PyHostInputs
  <2> QED
    BY <2>1, <2>2, <2>7
<1>8. CASE j.kind = "dep"
  <2>1. PICK f \in Static, b \in Builds, p \in Package : j = Dep(f, b[1], b[2], p)
    BY <1>8, ByKind
  <2>2. PICK g \in Static, c \in Builds, q \in Package : i = Dep(g, c[1], c[2], q)
    BY <1>1, <1>8, ByKind
  <2>3. f = g /\ b[2] = c[2] /\ p = q
    BY <1>2, <2>1, <2>2, OfLibrary
  <2>4. DepInputs(w, f, b[1], b[2], p) = DepInputs(v, g, c[1], c[2], q)
    BY <1>2, <2>1, <2>2, OfLibrary
  <2>5. Toolchain(w, b[1], b[2]) = Toolchain(v, c[1], c[2])
    BY <2>4 DEF DepInputs, ToolchainFor, Static
  <2> QED
    BY <1>3, <2>1, <2>2, <2>3, <2>5
<1>9. CASE j.kind = "pybuild"
  <2>1. PICK f \in Static, b \in Builds : j = PyBuild(f, b[1], b[2])
    BY <1>9, ByKind
  <2>2. PICK g \in Static, c \in Builds : i = PyBuild(g, c[1], c[2])
    BY <1>1, <1>9, ByKind
  <2>3. (IF b[1] = b[2] THEN <<"pynative", f, b[2]>> ELSE <<"pycross", f, b[1], b[2]>>)
        = IF c[1] = c[2] THEN <<"pynative", g, c[2]>> ELSE <<"pycross", g, c[1], c[2]>>
    BY <1>2, <2>1, <2>2, OfPyBuild
  <2>4. f = g /\ b[1] = c[1] /\ b[2] = c[2]
    BY <2>3
  <2> QED
    BY <2>1, <2>2, <2>4
<1>10. CASE j.kind = "pyref"
  <2>1. PICK f \in Profile, h \in Host : j = PyRef(f, h)
    BY <1>10, ByKind
  <2>2. PICK g \in Profile, k \in Host : i = PyRef(g, k)
    BY <1>1, <1>10, ByKind
  <2> QED
    BY <1>2, <2>1, <2>2, OfPyRef
<1> QED
  BY <1>4, <1>5, <1>6, <1>7, <1>8, <1>9, <1>10

\* Equal settings are equal one by one.
LEMMA SettingsOfSome ==
  ASSUME NEW w, NEW v, NEW N, NEW M, NEW f, NEW sc, M \subseteq N,
         Settings(w, N, f, sc) = Settings(v, N, f, sc)
  PROVE  Settings(w, M, f, sc) = Settings(v, M, f, sc)
<1>1. \A n \in N : /\ Settings(w, N, f, sc)[n] = Resolved(w, n, f, sc)
                   /\ Settings(v, N, f, sc)[n] = Resolved(v, n, f, sc)
  BY DEF Settings
<1>2. \A n \in M : Resolved(w, n, f, sc) = Resolved(v, n, f, sc)
  BY <1>1
<1> QED
  BY <1>2 DEF Settings

\* ... and tell whether there is training.
LEMMA SameTraining ==
  ASSUME NEW w, NEW v, NEW f,
         Settings(w, ForPython, f, PythonScopes) = Settings(v, ForPython, f, PythonScopes)
  PROVE  Trains(w, f) = Trains(v, f)
<1>1. {"pgo"} \subseteq ForPython
  BY DEF ForPython
<1>2. Settings(w, {"pgo"}, f, PythonScopes) = Settings(v, {"pgo"}, f, PythonScopes)
  BY <1>1, SettingsOfSome
<1>3. \A u : Settings(u, {"pgo"}, f, PythonScopes)["pgo"] = Resolved(u, "pgo", f, PythonScopes)
  BY DEF Settings
<1>4. Resolved(w, "pgo", f, PythonScopes) = Resolved(v, "pgo", f, PythonScopes)
  BY <1>2, <1>3
<1> QED
  BY <1>4 DEF Trains

\* Members of Overlooked.
LEMMA WhatIsOverlooked ==
  /\ \A p \in Package, f \in Profile : <<"make_vars", p, f>> \in Overlooked
  /\ \A p \in Package : <<"make_vars", p, "">> \in Overlooked
  /\ \A h \in Host : RunsHelpers # {} => <<"native", h, h>> \in Overlooked
  /\ <<"pins">> \in Overlooked
  /\ \A h \in Host : <<"abi", h>> \in Overlooked
  /\ \A h \in Host : <<"target_patches", "python", h>> \in Overlooked
<1> DEFINE Scope == Profile \cup {""}
           Helped == IF RunsHelpers = {} THEN {} ELSE Host
           MakeVars == {<<"make_vars", p, f>> : p \in Package, f \in Scope}
           Natives == {<<"native", h, h>> : h \in Helped}
           ABIs == {<<"abi", h>> : h \in Host}
           HostPatches == {<<"target_patches", "python", h>> : h \in Host}
<1>1. Overlooked = MakeVars \cup Natives \cup {<<"pins">>} \cup ABIs \cup HostPatches
  BY DEF Overlooked
<1>2. ASSUME NEW p \in Package, NEW f, f \in Profile \/ f = ""
      PROVE  <<"make_vars", p, f>> \in MakeVars
  <2>1. f \in Scope
    BY <1>2
  <2> HIDE DEF Scope
  <2> QED
    BY <2>1
<1>3. \A h \in Host : <<"target_patches", "python", h>> \in HostPatches
  OBVIOUS
<1>4. \A h \in Host : <<"abi", h>> \in ABIs
  OBVIOUS
<1>5. \A h \in Host : RunsHelpers # {} => <<"native", h, h>> \in Natives
  OBVIOUS
<1> HIDE DEF MakeVars, Natives, ABIs, HostPatches
<1> QED
  BY <1>1, <1>2, <1>3, <1>4, <1>5

\* Worlds that agree on the knobs that keys overlook give packages the same
\* make_vars.
LEMMA SameMakeVars ==
  ASSUME NothingOverlooked, NEW w \in World, NEW v \in World, NEW p \in Package, NEW f \in Profile
  PROVE  Field(w, "make_vars", p, f) = Field(v, "make_vars", p, f)
<1> DEFINE own == <<<<"make_vars", p, "">>>>
           variants == [n \in 1..Len(Chain[f]) |-> <<"make_vars", p, Chain[f][n]>>]
           layers == own \o variants
           Set(u) == {n \in DOMAIN layers : layers[n] \in u}
<1>1. \A n \in DOMAIN layers : layers[n] \in Overlooked
  <2>1. Chain[f] \in Seq(Profile)
    BY ProfileAssumption
  <2>2. \A n \in 1..Len(Chain[f]) : Chain[f][n] \in Profile
    BY <2>1
  <2>3. Len(Chain[f]) \in Nat
    BY <2>1
  <2>4. \A n \in 1..Len(Chain[f]) : variants[n] \in Overlooked
    BY <2>2, WhatIsOverlooked
  <2>5. variants \in [1..Len(Chain[f]) -> Overlooked]
    BY <2>4
  <2> HIDE DEF variants
  <2>6. variants \in Seq(Overlooked)
    BY <2>3, <2>5, SeqDef
  <2>7. own \in Seq(Overlooked)
    <3> DEFINE k == <<"make_vars", p, "">>
    <3>1. k \in Overlooked
      BY WhatIsOverlooked
    <3> HIDE DEF k
    <3>2. <<k>> \in Seq(Overlooked)
      BY <3>1
    <3> QED
      BY <3>2 DEF k
  <2> HIDE DEF own
  <2>8. layers \in Seq(Overlooked)
    BY <2>6, <2>7, ConcatProperties
  <2> HIDE DEF layers
  <2> QED
    BY <2>8
<1>2. w \cap Overlooked = v \cap Overlooked
  BY DEF NothingOverlooked
<1>3. \A n \in DOMAIN layers : layers[n] \in w <=> layers[n] \in v
  BY <1>1, <1>2
<1> HIDE DEF layers
<1>4. Set(w) = Set(v)
  BY <1>3
<1>5. \A u : Winner(u, layers) =
               IF Set(u) = {} THEN {} ELSE {layers[CHOOSE n \in Set(u) : \A m \in Set(u) : m <= n]}
  BY DEF Winner
<1> HIDE DEF Set
<1>6. Winner(w, layers) = Winner(v, layers)
  BY <1>4, <1>5
<1> QED
  BY <1>6 DEF Field, layers

\* Dependencies and parts are jobs, and come first.
LEMMA JobsAround ==
  ASSUME NEW w \in World, NEW j \in Job
  PROVE  /\ Deps(w, j) \subseteq Job /\ Parts(w, j) \subseteq Job
         /\ \A d \in Deps(w, j) \cup Parts(w, j) : Order[d] < Order[j]
         /\ Order[j] \in Nat
  BY OrderAssumption

\* A dependency has its counterpart of the same kind.
LEMMA Counterpart ==
  ASSUME NEW w \in World, NEW v \in World, NEW j \in Job, NEW i \in Job, Key(w, j) = Key(v, i),
         NEW d \in Deps(w, j)
  PROVE  \E e \in Deps(v, i) : Key(w, d) = Key(v, e) /\ e.kind = d.kind
<1>1. PICK e \in Deps(v, i) : Key(w, d) = Key(v, e)
  BY KeyTells
<1>2. d \in Job /\ e \in Job
  BY JobsAround
<1> QED
  BY <1>1, <1>2, SameKind

\* A library's key tells those of all libraries below it.
LEMMA LibrariesBelow ==
  ASSUME NEW w \in World, NEW v \in World, NEW f \in Static, NEW b \in Builds, NEW p \in Package,
         Dep(f, b[1], b[2], p) \in Job,
         Key(w, Dep(f, b[1], b[2], p)) = Key(v, Dep(f, b[1], b[2], p))
  PROVE  \A n \in AllNeeds[p] : Key(w, Dep(f, b[1], b[2], n)) = Key(v, Dep(f, b[1], b[2], n))
<1> DEFINE Lib(q) == Dep(f, b[1], b[2], q)
           Told(q) == Key(w, Lib(q)) = Key(v, Lib(q))
           Bad == {q \in Package : Told(q) /\ \E n \in AllNeeds[q] : ~Told(n)}
           Ranked == {Order[Lib(q)] : q \in Bad}
<1>1. \A q \in Package : Lib(q) \in Job
  BY DEF Job
<1>2. \A q \in Package : \A n \in Needs[q] :
        /\ n \in Package /\ Lib(n) \in Deps(w, Lib(q))
        /\ Order[Lib(n)] < Order[Lib(q)]
        /\ Told(q) => Told(n)
  <2> SUFFICES ASSUME NEW q \in Package, NEW n \in Needs[q]
               PROVE  /\ n \in Package /\ Lib(n) \in Deps(w, Lib(q))
                      /\ Order[Lib(n)] < Order[Lib(q)]
                      /\ Told(q) => Told(n)
    OBVIOUS
  <2>1. n \in Package /\ Lib(n) \in Deps(w, Lib(q))
    BY NeedsAssumption, OfLibrary
  <2>2. Order[Lib(n)] < Order[Lib(q)]
    BY <1>1, <2>1, JobsAround
  <2>3. ASSUME Told(q) PROVE Told(n)
    <3>1. PICK e \in Deps(v, Lib(q)) : Key(w, Lib(n)) = Key(v, e) /\ e.kind = Lib(n).kind
      BY <1>1, <2>1, <2>3, Counterpart
    <3>2. e \in Job /\ Lib(n) \in Job
      BY <1>1, <2>1, JobsAround
    <3>3. Lib(n).kind = "dep"
      BY DEF Dep
    <3>4. e = Lib(n)
      BY <3>1, <3>2, <3>3, SameJob
    <3> QED
      BY <3>1, <3>4
  <2> QED
    BY <2>1, <2>2, <2>3
<1>3. \A q \in Package : Order[Lib(q)] \in Nat
  BY <1>1, JobsAround
<1>4. \A q \in Package : AllNeeds[q] = Needs[q] \cup UNION {AllNeeds[n] : n \in Needs[q]}
  BY NeedsAssumption
<1> HIDE DEF Lib, Told
<1>5. ASSUME Bad # {} PROVE FALSE
  <2>1. Ranked \in SUBSET Nat /\ Ranked # {}
    BY <1>3, <1>5
  <2>2. PICK r \in Ranked : \A m \in Ranked : r <= m
    <3> HIDE DEF Ranked
    <3> QED
      BY <2>1, LeastNumber
  <2>3. PICK q \in Bad : r = Order[Lib(q)]
    BY <2>2
  <2>4. PICK n \in AllNeeds[q] : ~Told(n)
    BY <2>3
  <2>5. Told(q) /\ q \in Package
    BY <2>3
  <2>6. n \notin Needs[q]
    BY <1>2, <2>4, <2>5
  <2>7. PICK m \in Needs[q] : n \in AllNeeds[m]
    BY <1>4, <2>4, <2>5, <2>6
  <2>8. m \in Bad
    BY <1>2, <2>4, <2>5, <2>7
  <2>9. Order[Lib(m)] \in Ranked
    BY <2>8
  <2>10. Order[Lib(m)] < Order[Lib(q)] /\ Order[Lib(m)] \in Nat /\ Order[Lib(q)] \in Nat
    BY <1>2, <1>3, <2>5, <2>7
  <2> HIDE DEF Ranked
  <2>11. Order[Lib(q)] <= Order[Lib(m)]
    BY <2>2, <2>3, <2>9
  <2> QED
    BY <2>10, <2>11
<1>6. Told(p)
  BY DEF Told, Lib
<1>7. \A n \in AllNeeds[p] : Told(n)
  BY <1>5, <1>6
<1> QED
  BY <1>7 DEF Told, Lib

\* The key of an archive tells that of the interpreter in it.
LEMMA InterpreterInside ==
  ASSUME NEW w \in World, NEW v \in World, NEW j \in Job, NEW i \in Job, Key(w, j) = Key(v, i),
         j.kind \in {"verify", "pack"}
  PROVE  /\ i.kind = j.kind /\ i.prof = j.prof /\ i.target = j.target
         /\ InterpreterOf(j) \in Job /\ InterpreterOf(i) \in Job
         /\ InterpreterOf(j) \in Deps(w, j) /\ InterpreterOf(i) \in Deps(v, i)
         /\ Key(w, InterpreterOf(j)) = Key(v, InterpreterOf(i))
<1>1. i.kind = j.kind
  BY SameKind
<1>2. PICK f \in Profile, b \in Builds, l \in Level :
        j = Verify(f, b[1], b[2], l) \/ j = Pack(f, b[1], b[2], l)
  BY ByKind
<1>3. PICK g \in Profile, c \in Builds, m \in Level :
        i = Verify(g, c[1], c[2], m) \/ i = Pack(g, c[1], c[2], m)
  <2>1. i.kind \in {"verify", "pack"}
    BY <1>1
  <2> QED
    BY <2>1, ByKind
<1>4. Slug(w, j) = Slug(v, i)
  BY KeyTells
<1>5. i.prof = j.prof /\ i.target = j.target
  BY <1>1, <1>2, <1>3, <1>4, OfVerify, OfPack DEF Verify, Pack
<1>6. InterpreterOf(j) \in Deps(w, j) /\ InterpreterOf(i) \in Deps(v, i)
  BY <1>1 DEF Deps
<1>7. InterpreterOf(j) \in Job /\ InterpreterOf(i) \in Job
  BY <1>6, JobsAround
<1>8. PICK e \in Deps(v, i) : Key(w, InterpreterOf(j)) = Key(v, e) /\ e.kind = InterpreterOf(j).kind
  BY <1>6, Counterpart
<1>9. InterpreterOf(j).kind \in {"pybuild", "pyref"}
  BY DEF InterpreterOf, Interpreter, PyBuild, PyRef
<1>10. e = InterpreterOf(i) \/ e.kind = "verify"
  BY <1>1 DEF Deps, Verify
<1> QED
  BY <1>1, <1>5, <1>6, <1>7, <1>8, <1>9, <1>10

\* The key of an interpreter tells its profile and the libraries in it.
LEMMA InterpreterTells ==
  ASSUME NEW w \in World, NEW v \in World, NEW j \in Job, j.kind \in {"pybuild", "pyref"},
         Key(w, j) = Key(v, j)
  PROVE  /\ Settings(w, ForPython, j.prof, PythonScopes) = Settings(v, ForPython, j.prof, PythonScopes)
         /\ Unskipped(w, j.prof) = Unskipped(v, j.prof)
<1>1. Inputs(w, j) = Inputs(v, j)
  BY KeyTells
<1>2. CASE j.kind = "pybuild"
  <2>1. PICK f \in Static, b \in Builds : j = PyBuild(f, b[1], b[2])
    BY <1>2, ByKind
  <2>2. PyBuildInputs(w, f, b[1], b[2]) = PyBuildInputs(v, f, b[1], b[2])
    BY <1>1, <2>1, OfPyBuild
  <2> DEFINE root == Sysroot(f, b[1], b[2])
  <2>3. root \in Deps(w, j)
    BY <2>1, OfPyBuild
  <2>4. PICK e \in Deps(v, j) : Key(w, root) = Key(v, e) /\ e.kind = root.kind
    BY <2>3, Counterpart
  <2>5. e = root /\ root \in Job
    BY <2>1, <2>3, <2>4, OfPyBuild, JobsAround DEF SrcTree, Sysroot, StaticAPI, Probe, PyHost
  <2>6. SysrootInputs(w, f) = SysrootInputs(v, f)
    BY <2>4, <2>5, KeyTells, OfSysroot
  <2>7. j.prof = f
    BY <2>1 DEF PyBuild
  <2> QED
    BY <2>2, <2>6, <2>7 DEF PyBuildInputs, SysrootInputs
<1>3. CASE j.kind = "pyref"
  <2>1. PICK f \in Profile, h \in Host : j = PyRef(f, h)
    BY <1>3, ByKind
  <2>2. PyRefInputs(w, f, h) = PyRefInputs(v, f, h)
    BY <1>1, <2>1, OfPyRef
  <2>3. [p \in Unskipped(w, f) |-> DepInputs(w, f, h, h, p)]
        = [p \in Unskipped(v, f) |-> DepInputs(v, f, h, h, p)]
    BY <2>2 DEF PyRefInputs
  <2>4. Unskipped(w, f) = Unskipped(v, f)
    BY <2>3
  <2>5. j.prof = f
    BY <2>1 DEF PyRef
  <2> QED
    BY <2>2, <2>4, <2>5 DEF PyRefInputs
<1> QED
  BY <1>2, <1>3

\* Of worlds that agree on the rest, the inputs of a library tell what its build
\* reads.
LEMMA SameLibrary ==
  ASSUME NothingOverlooked,
         NEW w \in World, NEW v \in World, NEW f \in Profile, NEW h \in Host, NEW t, NEW p \in Package,
         DepInputs(w, f, h, t, p) = DepInputs(v, f, h, t, p)
  PROVE  DepUses(w, f, h, t, p) = DepUses(v, f, h, t, p)
<1> DEFINE heeded(u) == Settings(u, DepHeeds(f), f, DepScopes(p))
           cc(u) == IF p \in RunsHelpers THEN At(u, <<"native", h, h>>) ELSE {}
<1>1. DepHeeds(f) \subseteq ForAll
  BY DEF DepHeeds, ForAll
<1>2. heeded(w) = heeded(v)
  BY <1>1, SettingsOfSome DEF DepInputs
<1>3. cc(w) = cc(v)
  <2>1. p \in RunsHelpers => <<"native", h, h>> \in Overlooked
    BY WhatIsOverlooked
  <2>2. w \cap Overlooked = v \cap Overlooked
    BY DEF NothingOverlooked
  <2>3. \A k \in Overlooked : At(w, k) = At(v, k)
    BY <2>2 DEF At
  <2> QED
    BY <2>1, <2>3
<1>4. Field(w, "make_vars", p, f) = Field(v, "make_vars", p, f)
  BY SameMakeVars
<1>5. /\ Code(w, "recipe") = Code(v, "recipe")
      /\ At(w, <<"package", p>>) = At(v, <<"package", p>>)
      /\ TargetPatches(w, p, t) = TargetPatches(v, p, t)
      /\ At(w, <<"platform", p, t>>) = At(v, <<"platform", p, t>>)
      /\ Field(w, "configure", p, f) = Field(v, "configure", p, f)
      /\ ToolchainFor(w, f, h, t) = ToolchainFor(v, f, h, t)
  BY DEF DepInputs
<1> HIDE DEF heeded, cc
<1>6. \A u : DepUses(u, f, h, t, p) =
               [code |-> Code(u, "recipe"), package |-> At(u, <<"package", p>>),
                target_patches |-> TargetPatches(u, p, t), platform |-> At(u, <<"platform", p, t>>),
                configure |-> Field(u, "configure", p, f), make_vars |-> Field(u, "make_vars", p, f),
                build_cc |-> cc(u), settings |-> heeded(u), toolchain |-> ToolchainFor(u, f, h, t)]
  BY DEF DepUses, heeded, cc
<1> QED
  BY <1>2, <1>3, <1>4, <1>5, <1>6

\* Jobs of one key read the same of their worlds.  The compiler of a CPython
\* build, which is not in its inputs, comes through the key of the probe.
LEMMA SameUses ==
  ASSUME NothingOverlooked,
         NEW w \in World, NEW v \in World, NEW j \in Job, NEW i \in Job, Key(w, j) = Key(v, i)
  PROVE  Uses(w, j) = Uses(v, i)
<1>1. Inputs(w, j) = Inputs(v, i) /\ j.kind = i.kind
  BY KeyTells, SameKind
<1>2. \A k \in Overlooked : At(w, k) = At(v, k)
  <2>1. w \cap Overlooked = v \cap Overlooked
    BY DEF NothingOverlooked
  <2> QED
    BY <2>1 DEF At
<1>3. CASE j.kind \notin {"pyhost", "dep", "pybuild", "pyref", "verify", "kit"}
  BY <1>1, <1>3 DEF Uses
<1>4. CASE j.kind = "pyhost"
  <2>1. PICK h \in Host : j = PyHost(h) /\ i = PyHost(h)
    BY <1>4, ByKind, SameJob
  <2>2. PyHostInputs(w, h) = PyHostInputs(v, h)
    BY <1>1, <2>1, OfPyHost
  <2>3. Toolchain(w, h, h) = ToolchainNative(w, h) /\ Toolchain(v, h, h) = ToolchainNative(v, h)
    BY DEF NothingOverlooked, Toolchain, ToolchainNative
  <2>4. PyHostUses(w, h) = PyHostUses(v, h)
    <3> DEFINE heeded(u) == Settings(u, PyHostHeeds, "bootstrap", PyhostScopes)
    <3>1. PyHostHeeds \subseteq ForPython
      BY DEF PyHostHeeds, ForPython, ForAll, Listing
    <3>2. heeded(w) = heeded(v)
      BY <2>2, <3>1, SettingsOfSome DEF PyHostInputs
    <3>3. Code(w, "recipe") = Code(v, "recipe") /\ Asset(w, "Setup") = Asset(v, "Setup")
      BY <2>2 DEF PyHostInputs, SetupLocal
    <3> HIDE DEF heeded
    <3>4. \A u : PyHostUses(u, h) =
                   [code |-> Code(u, "recipe"), setup |-> Asset(u, "Setup"), settings |-> heeded(u),
                    target_patches |-> TargetPatches(u, "python", h),
                    toolchain |-> Toolchain(u, h, h)]
      BY DEF PyHostUses, heeded
    <3> QED
      BY <2>2, <2>3, <3>2, <3>3, <3>4 DEF PyHostInputs
  <2> QED
    BY <2>1, <2>4, OfPyHost
<1>5. CASE j.kind = "dep"
  <2>1. PICK f \in Static, b \in Builds, p \in Package :
          j = Dep(f, b[1], b[2], p) /\ i = Dep(f, b[1], b[2], p)
    BY <1>5, ByKind, SameJob
  <2>2. DepInputs(w, f, b[1], b[2], p) = DepInputs(v, f, b[1], b[2], p)
    BY <1>1, <2>1, OfLibrary
  <2>3. DepUses(w, f, b[1], b[2], p) = DepUses(v, f, b[1], b[2], p)
    BY <2>2, SameLibrary DEF Static, Host
  <2> QED
    BY <2>1, <2>3, OfLibrary
<1>6. CASE j.kind = "pybuild"
  <2>1. PICK f \in Static, b \in Builds : j = PyBuild(f, b[1], b[2]) /\ i = PyBuild(f, b[1], b[2])
    BY <1>6, ByKind, SameJob
  <2>2. PyBuildInputs(w, f, b[1], b[2]) = PyBuildInputs(v, f, b[1], b[2])
    BY <1>1, <2>1, OfPyBuild
  <2>3. /\ Deps(w, j) \subseteq Job /\ Deps(v, j) \subseteq Job
        /\ Probe(b[1], b[2]) \in Deps(w, j)
    BY <2>1, OfPyBuild, OrderAssumption
  <2>4. PICK e \in Deps(v, j) : Key(w, Probe(b[1], b[2])) = Key(v, e)
    BY <2>1, <2>3, KeyTells
  <2>5. e = Probe(b[1], b[2])
    BY <2>3, <2>4, SameJob DEF Probe
  <2>6. ProbeInputs(w, b[1], b[2]) = ProbeInputs(v, b[1], b[2])
    BY <2>3, <2>4, <2>5, KeyTells, OfProbe
  <2>7. Toolchain(w, b[1], b[2]) = Toolchain(v, b[1], b[2])
    BY <2>6 DEF ProbeInputs
  <2>8. PyBuildUses(w, f, b[1], b[2]) = PyBuildUses(v, f, b[1], b[2])
    <3> DEFINE heeds(u) == PyBuildHeeds(u, f, b[1], b[2])
               heeded(u) == Settings(u, heeds(u), f, PythonScopes)
    <3>1. Settings(w, ForPython, f, PythonScopes) = Settings(v, ForPython, f, PythonScopes)
      BY <2>2 DEF PyBuildInputs
    <3>2. heeds(w) = heeds(v) /\ heeds(w) \subseteq ForPython
      BY <3>1, SameTraining DEF PyBuildHeeds, ForPython, ForAll, Listing
    <3>3. heeded(w) = heeded(v)
      BY <3>1, <3>2, SettingsOfSome
    <3>4. Code(w, "recipe") = Code(v, "recipe") /\ Asset(w, "Setup") = Asset(v, "Setup")
      BY <2>2 DEF PyBuildInputs, SetupLocal
    <3> HIDE DEF heeded
    <3>5. \A u : PyBuildUses(u, f, b[1], b[2]) =
                   [code |-> Code(u, "recipe"), setup |-> Asset(u, "Setup"), settings |-> heeded(u),
                    target |-> At(u, <<"target", b[2]>>), build |-> b[1],
                    staticapi_c |-> Asset(u, "staticapi.c"),
                    libat_atfork |-> Asset(u, "libat_atfork.c"),
                    target_patches |-> TargetPatches(u, "python", b[2]),
                    toolchain |-> Toolchain(u, b[1], b[2])]
      BY DEF PyBuildUses, heeded
    <3> QED
      BY <2>2, <2>7, <3>3, <3>4, <3>5 DEF PyBuildInputs
  <2> QED
    BY <2>1, <2>8, OfPyBuild
<1>7. CASE j.kind = "pyref"
  <2>1. PICK f \in Profile, h \in Host : j = PyRef(f, h) /\ i = PyRef(f, h)
    BY <1>7, ByKind, SameJob
  <2>2. PyRefInputs(w, f, h) = PyRefInputs(v, f, h)
    BY <1>1, <2>1, OfPyRef
  <2>3. [p \in Unskipped(w, f) |-> DepInputs(w, f, h, h, p)]
        = [p \in Unskipped(v, f) |-> DepInputs(v, f, h, h, p)]
    BY <2>2 DEF PyRefInputs
  <2>4. Unskipped(w, f) = Unskipped(v, f)
    BY <2>3
  <2>5. \A p \in Unskipped(w, f) : DepInputs(w, f, h, h, p) = DepInputs(v, f, h, h, p)
    BY <2>3, <2>4
  <2>6. Unskipped(w, f) \subseteq Package
    BY DEF Unskipped
  <2>7. \A p \in Unskipped(w, f) : DepUses(w, f, h, h, p) = DepUses(v, f, h, h, p)
    BY <2>5, <2>6, SameLibrary
  <2>8. [p \in Unskipped(w, f) |-> DepUses(w, f, h, h, p)]
        = [p \in Unskipped(v, f) |-> DepUses(v, f, h, h, p)]
    BY <2>4, <2>7
  <2>9. TargetPatches(w, "python", h) = TargetPatches(v, "python", h)
    BY <1>2, WhatIsOverlooked DEF TargetPatches
  <2>10. PyRefUses(w, f, h) = PyRefUses(v, f, h)
    <3> DEFINE heeded(u) == Settings(u, PyRefHeeds(u, f), f, PythonScopes)
               libraries(u) == [p \in Unskipped(u, f) |-> DepUses(u, f, h, h, p)]
    <3>1. Settings(w, ForPython, f, PythonScopes) = Settings(v, ForPython, f, PythonScopes)
      BY <2>2 DEF PyRefInputs
    <3>2. PyRefHeeds(w, f) = PyRefHeeds(v, f) /\ PyRefHeeds(w, f) \subseteq ForPython
      BY <3>1, SameTraining DEF PyRefHeeds, ForPython, ForAll
    <3>3. heeded(w) = heeded(v) /\ libraries(w) = libraries(v)
      BY <2>8, <3>1, <3>2, SettingsOfSome
    <3>4. Code(w, "recipe") = Code(v, "recipe") /\ ToolchainHost(w, h) = ToolchainHost(v, h)
      BY <2>2 DEF PyRefInputs
    <3> HIDE DEF heeded, libraries
    <3>5. \A u : PyRefUses(u, f, h) =
                   [code |-> Code(u, "recipe"), toolchain |-> ToolchainHost(u, h),
                    settings |-> heeded(u), dep |-> libraries(u),
                    target_patches |-> TargetPatches(u, "python", h)]
      BY DEF PyRefUses, heeded, libraries
    <3> QED
      BY <2>9, <3>3, <3>4, <3>5
  <2> QED
    BY <2>1, <2>10, OfPyRef
<1>8. CASE j.kind = "verify"
  <2>1. PICK f \in Profile, b \in Builds, l \in Level : j = Verify(f, b[1], b[2], l)
    BY <1>8, ByKind
  <2>2. PICK g \in Profile, c \in Builds, m \in Level : i = Verify(g, c[1], c[2], m)
    <3>1. i.kind = "verify"
      BY <1>1, <1>8
    <3> QED
      BY <3>1, ByKind
  <2>3. VerifyInputs(w, b[1], b[2], l) = VerifyInputs(v, c[1], c[2], m)
    BY <1>1, <2>1, <2>2, OfVerify
  <2>4. At(w, <<"skip_verify">>) = At(v, <<"skip_verify">>)
    BY <2>3 DEF VerifyInputs
  <2>5. SkipRequested(w) <=> SkipRequested(v)
    BY <2>4 DEF At, SkipRequested
  <2>6. VerifyUses(w, b[1], b[2], l) = VerifyUses(v, c[1], c[2], m)
    BY <2>3, <2>4, <2>5 DEF VerifyUses
  <2> QED
    BY <2>1, <2>2, <2>6, OfVerify
<1>9. CASE j.kind = "kit"
  <2>1. PICK h \in Host, l \in Level : j = Kit(h, l)
    BY <1>9, ByKind
  <2>2. PICK g \in Host, m \in Level : i = Kit(g, m)
    <3>1. i.kind = "kit"
      BY <1>1, <1>9
    <3> QED
      BY <3>1, ByKind
  <2>3. h = g /\ KitInputs(w) = KitInputs(v)
    BY <1>1, <2>1, <2>2, KeyTells, OfKit
  <2>4. At(w, <<"pins">>) = At(v, <<"pins">>) /\ At(w, <<"abi", h>>) = At(v, <<"abi", h>>)
    BY <1>2, WhatIsOverlooked
  <2>5. \A f \in Arms : Factors(w, f) = Factors(v, f)
    <3> SUFFICES ASSUME NEW f \in Arms PROVE Factors(w, f) = Factors(v, f)
      OBVIOUS
    <3>1. Pack(f, h, h, l) \in Deps(w, j) /\ Pack(f, h, h, l).kind = "pack"
      BY <2>1, OfKit DEF Pack
    <3>2. PICK e \in Deps(v, i) : Key(w, Pack(f, h, h, l)) = Key(v, e)
      BY <3>1, KeyTells
    <3>3. Pack(f, h, h, l) \in Job /\ e \in Job
      BY <3>1, <3>2, JobsAround
    <3>4. PICK a \in Arms : e = Pack(a, h, h, m)
      BY <2>2, <2>3, <3>2, OfKit
    <3> DEFINE python == Interpreter(f, h, h)
    <3>5. InterpreterOf(Pack(f, h, h, l)) = python /\ InterpreterOf(e) = Interpreter(a, h, h)
      BY <3>4 DEF InterpreterOf, Pack
    <3>6. a = f /\ python \in Job /\ Key(w, python) = Key(v, python)
      <4>1. e.prof = Pack(f, h, h, l).prof
        BY <3>1, <3>2, <3>3, InterpreterInside
      <4>2. a = f
        BY <3>4, <4>1 DEF Pack
      <4> QED
        BY <3>1, <3>2, <3>3, <3>5, <4>2, InterpreterInside
    <3>7. python.kind \in {"pybuild", "pyref"} /\ python.prof = f
      BY DEF Interpreter, PyBuild, PyRef
    <3> HIDE DEF python
    <3>8. /\ Settings(w, ForPython, f, PythonScopes) = Settings(v, ForPython, f, PythonScopes)
          /\ Unskipped(w, f) = Unskipped(v, f)
      BY <3>6, <3>7, InterpreterTells
    <3>9. {"flags", "lto_mode", "lto", "pgo"} \subseteq ForPython
      BY DEF ForPython, ForAll
    <3> QED
      BY <3>8, <3>9, SettingsOfSome DEF Factors
  <2>6. [f \in Arms |-> Factors(w, f)] = [f \in Arms |-> Factors(v, f)]
    BY <2>5
  <2>7. KitUses(w, h) = KitUses(v, h)
    BY <2>3, <2>4, <2>6 DEF KitUses
  <2> QED
    BY <2>1, <2>2, <2>3, <2>7, OfKit
<1> QED
  BY <1>3, <1>4, <1>5, <1>6, <1>7, <1>8, <1>9

\* The key of a job tells the keys of the artifacts its build reads.
LEMMA SameParts ==
  ASSUME NEW w \in World, NEW v \in World, NEW j \in Job, NEW i \in Job, Key(w, j) = Key(v, i),
         NEW d \in Parts(w, j)
  PROVE  \E e \in Parts(v, i) : Key(w, d) = Key(v, e)
<1>1. j.kind = i.kind /\ Inputs(w, j) = Inputs(v, i)
  BY SameKind, KeyTells
<1>2. CASE j.kind \notin {"dep", "pybuild", "verify", "pack", "kit"}
  <2>1. Parts(w, j) = Deps(w, j) /\ Parts(v, i) = Deps(v, i)
    BY <1>1, <1>2 DEF Parts
  <2> QED
    BY <2>1, KeyTells
<1>3. CASE j.kind = "dep"
  <2>1. PICK f \in Static, b \in Builds, p \in Package :
          j = Dep(f, b[1], b[2], p) /\ i = Dep(f, b[1], b[2], p)
    BY <1>3, ByKind, SameJob
  <2>2. CASE d = SrcTree(p)
    <3>1. d \in Deps(w, j)
      BY <2>1, <2>2, OfLibrary
    <3>2. PICK e \in Deps(v, i) : Key(w, d) = Key(v, e) /\ e.kind = d.kind
      BY <3>1, Counterpart
    <3>3. d \in Job /\ e \in Job
      BY <3>1, <3>2, JobsAround
    <3>4. e = d
      BY <2>2, <3>2, <3>3, SameJob DEF SrcTree
    <3> QED
      BY <2>1, <2>2, <3>2, <3>4, OfLibrary
  <2>3. ASSUME NEW n \in AllNeeds[p], d = Dep(f, b[1], b[2], n)
        PROVE  \E e \in Parts(v, i) : Key(w, d) = Key(v, e)
    <3>1. Key(w, d) = Key(v, d)
      BY <2>1, <2>3, LibrariesBelow
    <3>2. d \in Parts(v, i)
      BY <2>1, <2>3, OfLibrary
    <3> QED
      BY <3>1, <3>2
  <2>4. d = SrcTree(p) \/ \E n \in AllNeeds[p] : d = Dep(f, b[1], b[2], n)
    BY <2>1, OfLibrary
  <2> QED
    BY <2>2, <2>3, <2>4
<1>4. CASE j.kind = "pybuild"
  <2>1. PICK f \in Static, b \in Builds : j = PyBuild(f, b[1], b[2]) /\ i = PyBuild(f, b[1], b[2])
    BY <1>4, ByKind, SameJob
  <2> DEFINE root == Sysroot(f, b[1], b[2])
  <2>2. root \in Deps(w, j)
    BY <2>1, OfPyBuild
  <2>3. PICK e \in Deps(v, i) : Key(w, root) = Key(v, e) /\ e.kind = root.kind
    BY <2>2, Counterpart
  <2>4. e = root
    BY <2>1, <2>3, OfPyBuild DEF SrcTree, Sysroot, StaticAPI, Probe, PyHost
  <2>5. root \in Job
    BY <2>2, JobsAround
  <2>6. /\ Parts(w, j) = Deps(w, j) \cup Deps(w, root)
        /\ Parts(v, i) = Deps(v, i) \cup Deps(v, root)
    BY <2>1, OfPyBuild
  <2> HIDE DEF root
  <2>7. \A x \in Deps(w, root) : \E y \in Deps(v, root) : Key(w, x) = Key(v, y)
    BY <2>3, <2>4, <2>5, KeyTells
  <2>8. \A x \in Deps(w, j) : \E y \in Deps(v, i) : Key(w, x) = Key(v, y)
    BY KeyTells
  <2> QED
    BY <2>6, <2>7, <2>8
<1>5. CASE j.kind = "verify"
  <2>1. /\ Inputs(w, j).skipped = At(w, <<"skip_verify">>)
        /\ Inputs(v, i).skipped = At(v, <<"skip_verify">>)
    BY <1>1, <1>5 DEF Inputs, VerifyInputs
  <2>2. SkipRequested(w) <=> SkipRequested(v)
    BY <1>1, <2>1 DEF At, SkipRequested
  <2>3. d = InterpreterOf(j) /\ ~SkipRequested(w)
    BY <1>5 DEF Parts
  <2>4. InterpreterOf(i) \in Parts(v, i)
    BY <1>1, <1>5, <2>2, <2>3 DEF Parts
  <2> QED
    BY <1>5, <2>3, <2>4, InterpreterInside
<1>6. CASE j.kind = "pack"
  <2>1. d = InterpreterOf(j) /\ InterpreterOf(i) \in Parts(v, i)
    BY <1>1, <1>6 DEF Parts
  <2> QED
    BY <1>6, <2>1, InterpreterInside
<1>7. CASE j.kind = "kit"
  <2>1. PICK h \in Host, l \in Level : j = Kit(h, l)
    BY <1>7, ByKind
  <2>2. PICK g \in Host, m \in Level : i = Kit(g, m)
    BY <1>1, <1>7, ByKind
  <2>3. h = g
    <3>1. Slug(w, j) = Slug(v, i)
      BY KeyTells
    <3> QED
      BY <2>1, <2>2, <3>1, OfKit
  <2>4. PICK f \in Arms : d = Interpreter(f, h, h)
    BY <2>1, OfKit
  <2>5. Pack(f, h, h, l) \in Deps(w, j)
    BY <2>1, OfKit
  <2>6. PICK e \in Deps(v, i) : Key(w, Pack(f, h, h, l)) = Key(v, e)
    BY <2>5, KeyTells
  <2>7. Pack(f, h, h, l) \in Job /\ e \in Job
    BY <2>5, <2>6, JobsAround
  <2>8. PICK a \in Arms : e = Pack(a, g, g, m)
    BY <2>2, <2>6, OfKit
  <2>9. InterpreterOf(Pack(f, h, h, l)) = d /\ InterpreterOf(e) = Interpreter(a, g, g)
    BY <2>4, <2>8 DEF InterpreterOf, Pack
  <2>10. Key(w, d) = Key(v, Interpreter(a, g, g))
    <3>1. Pack(f, h, h, l).kind = "pack"
      BY DEF Pack
    <3> QED
      BY <2>6, <2>7, <2>9, <3>1, InterpreterInside
  <2>11. Interpreter(a, g, g) \in Parts(v, i)
    BY <2>2, OfKit
  <2> QED
    BY <2>10, <2>11
<1> QED
  BY <1>2, <1>3, <1>4, <1>5, <1>6, <1>7

\* What a key tells of an artifact is everything.
LEMMA SameContent ==
  ASSUME NothingOverlooked,
         NEW w \in World, NEW v \in World, NEW j \in Job, NEW i \in Job, Key(w, j) = Key(v, i)
  PROVE  Content(w, j) = Content(v, i)
<1> DEFINE Differ(u, x, z, y) == Key(u, x) = Key(z, y) /\ Content(u, x) # Content(z, y)
           Bad == {x \in Job : \E y \in Job, u \in World, z \in World : Differ(u, x, z, y)}
           Ranked == {Order[x] : x \in Bad}
<1>1. ASSUME Bad # {} PROVE FALSE
  <2>1. Ranked \in SUBSET Nat /\ Ranked # {}
    BY <1>1, JobsAround, OrderAssumption
  <2>2. PICK r \in Ranked : \A m \in Ranked : r <= m
    <3> HIDE DEF Ranked
    <3> QED
      BY <2>1, LeastNumber
  <2>3. PICK x \in Bad : r = Order[x]
    BY <2>2
  <2>4. PICK y \in Job, u \in World, z \in World : Differ(u, x, z, y)
    BY <2>3
  <2>5. x \in Job /\ Key(u, x) = Key(z, y)
    BY <2>3, <2>4
  <2>6. ASSUME NEW d \in Parts(u, x), NEW e \in Parts(z, y), Key(u, d) = Key(z, e)
        PROVE  Content(u, d) = Content(z, e)
    <3>1. d \in Job /\ e \in Job /\ Order[d] < Order[x] /\ Order[d] \in Nat /\ Order[x] \in Nat
      BY <2>5, JobsAround
    <3>2. d \notin Bad
      <4>1. d \in Bad => Order[d] \in Ranked
        OBVIOUS
      <4> HIDE DEF Ranked
      <4> QED
        BY <2>2, <2>3, <3>1, <4>1
    <3> QED
      BY <2>6, <3>1, <3>2
  <2>7. Slug(u, x) = Slug(z, y) /\ Uses(u, x) = Uses(z, y)
    BY <2>5, SameUses, KeyTells
  <2>8. \A d \in Parts(u, x) : \E e \in Parts(z, y) : Key(u, d) = Key(z, e)
    BY <2>5, SameParts
  <2>9. \A e \in Parts(z, y) : \E d \in Parts(u, x) : Key(u, d) = Key(z, e)
    <3>1. \A e \in Parts(z, y) : \E d \in Parts(u, x) : Key(z, e) = Key(u, d)
      BY <2>5, SameParts
    <3> QED
      BY <3>1
  <2>10. {Content(u, d) : d \in Parts(u, x)} = {Content(z, e) : e \in Parts(z, y)}
    BY <2>6, <2>8, <2>9
  <2>11. Reads(u, x, {Content(u, d) : d \in Parts(u, x)})
         = Reads(z, y, {Content(z, e) : e \in Parts(z, y)})
    BY <2>7, <2>10 DEF Reads
  <2>12. Content(u, x) = Content(z, y)
    BY <2>5, <2>11, ContentAssumption
  <2> QED
    BY <2>4, <2>12
<1> QED
  BY <1>1

\* The key of a report tells its level and whether it was skipped.
LEMMA SameVerification ==
  ASSUME NEW w \in World, NEW v \in World, NEW j \in Job, NEW i \in Job, Key(w, j) = Key(v, i),
         j.kind = "verify"
  PROVE  i.level = j.level /\ (SkipRequested(w) <=> SkipRequested(v))
<1>1. i.kind = "verify" /\ Slug(w, j) = Slug(v, i) /\ Inputs(w, j) = Inputs(v, i)
  BY SameKind, KeyTells
<1>2. Slug(w, j)[4] = j.level /\ Slug(v, i)[4] = i.level
  BY <1>1 DEF Slug
<1>3. /\ Inputs(w, j).skipped = At(w, <<"skip_verify">>)
      /\ Inputs(v, i).skipped = At(v, <<"skip_verify">>)
  BY <1>1 DEF Inputs, VerifyInputs
<1> QED
  BY <1>1, <1>2, <1>3 DEF At, SkipRequested

\* The key of an archive packed under --verify tells that there is a report, of
\* the same level, about the interpreter in it.
LEMMA SameSeal ==
  ASSUME NEW w \in World, NEW v \in World, NEW j \in Job, NEW i \in Job, Key(w, j) = Key(v, i),
         j.kind = "pack", j.level # "none"
  PROVE  \E e \in Deps(v, i) \cap Job :
           /\ e.kind = "verify" /\ e.level = j.level /\ InterpreterOf(e) = InterpreterOf(i)
           /\ SkipRequested(w) <=> SkipRequested(v)
<1> DEFINE d == Verify(j.prof, j.host, j.target, j.level)
<1>1. d \in Deps(w, j) /\ d.kind = "verify" /\ d.level = j.level
  BY DEF Deps, Verify
<1>2. PICK e \in Deps(v, i) : Key(w, d) = Key(v, e) /\ e.kind = d.kind
  BY <1>1, Counterpart
<1>3. d \in Job /\ e \in Job
  BY <1>1, <1>2, JobsAround
<1>4. i.kind = "pack"
  BY SameKind
<1>5. InterpreterOf(i).kind # "verify"
  BY DEF InterpreterOf, Interpreter, PyBuild, PyRef
<1>6. e = Verify(i.prof, i.host, i.target, i.level)
  BY <1>1, <1>2, <1>4, <1>5 DEF Deps
<1>7. InterpreterOf(e) = InterpreterOf(i)
  BY <1>6 DEF InterpreterOf, Verify
<1>8. e.level = j.level /\ (SkipRequested(w) <=> SkipRequested(v))
  BY <1>1, <1>2, <1>3, SameVerification
<1> QED
  BY <1>1, <1>2, <1>3, <1>7, <1>8

\* A closure holds what it starts from, and no more than any set of jobs that does
\* and that has all dependencies of its members.
LEMMA ClosureIsLeast ==
  ASSUME NEW w, NEW jobs, NEW S, jobs \subseteq S, \A j \in S : Deps(w, j) \subseteq S
  PROVE  jobs \subseteq Closure(w, jobs) /\ Closure(w, jobs) \subseteq S
<1> DEFINE Nearer(T) == T \cup UNION {Deps(w, j) : j \in T}
           Reaches(g, n) == g = [k \in 0..n |-> IF k = 0 THEN jobs ELSE Nearer(g[k - 1])]
           Between(T) == jobs \subseteq T /\ T \subseteq S
<1>1. Between(jobs)
  OBVIOUS
<1>2. \A T : Between(T) => Between(Nearer(T))
  OBVIOUS
<1> HIDE DEF Nearer, Between
<1>3. \A n \in Nat : \E g : Reaches(g, n)
  <2> DEFINE Bad == {n \in Nat : ~\E g : Reaches(g, n)}
  <2>1. ASSUME Bad # {} PROVE FALSE
    <3>1. PICK n \in Bad : \A m \in Bad : n <= m
      BY <2>1, LeastNumber
    <3>2. n # 0
      <4>1. Reaches([k \in 0..0 |-> jobs], 0)
        OBVIOUS
      <4> QED
        BY <3>1, <4>1
    <3>3. n - 1 \in Nat /\ n - 1 \notin Bad
      <4>1. n \in Nat
        OBVIOUS
      <4>2. n - 1 \in Nat /\ ~(n <= n - 1)
        BY ONLY <4>1, <3>2
      <4> HIDE DEF Bad
      <4> QED
        BY ONLY <3>1, <4>2
    <3>4. PICK g : Reaches(g, n - 1)
      BY <3>3
    <3> DEFINE h == [k \in 0..n |-> IF k = n THEN Nearer(g[n - 1]) ELSE g[k]]
    <3>5. Reaches(h, n)
      <4>1. \A k \in 0..(n - 1) : g[k] = IF k = 0 THEN jobs ELSE Nearer(g[k - 1])
        BY <3>4
      <4>2. \A k \in 0..n : h[k] = IF k = 0 THEN jobs ELSE Nearer(h[k - 1])
        BY <3>1, <3>2, <3>3, <4>1
      <4> QED
        BY <4>2
    <3> QED
      BY <3>1, <3>5
  <2> QED
    BY <2>1
<1> DEFINE reach == CHOOSE g : Reaches(g, Depth)
<1>4. Reaches(reach, Depth)
  BY <1>3, BoundsAssumption
<1>5. Closure(w, jobs) = reach[Depth]
  BY DEF Closure, Nearer
<1> HIDE DEF reach
<1>6. \A k \in 0..Depth : reach[k] = IF k = 0 THEN jobs ELSE Nearer(reach[k - 1])
  BY <1>4
<1>7. \A k \in 0..Depth : Between(reach[k])
  <2> DEFINE Bad == {k \in 0..Depth : ~Between(reach[k])}
  <2>1. ASSUME Bad # {} PROVE FALSE
    <3>1. Bad \in SUBSET Nat
      BY BoundsAssumption
    <3>2. PICK n \in Bad : \A m \in Bad : n <= m
      BY <2>1, <3>1, LeastNumber
    <3>3. n # 0
      BY <1>1, <1>6, <3>2
    <3>4. n - 1 \in 0..Depth /\ n - 1 \notin Bad
      BY <3>1, <3>2, <3>3, BoundsAssumption
    <3>5. reach[n] = Nearer(reach[n - 1])
      BY <1>6, <3>2, <3>3
    <3> QED
      BY <1>2, <3>2, <3>4, <3>5
  <2> QED
    BY <2>1
<1> QED
  BY <1>5, <1>7, BoundsAssumption DEF Between

\* Plans are made of jobs.
LEMMA PlansAreOfJobs ==
  ASSUME NEW w \in World, NEW o \in Commands
  PROVE  Graph(w, o) \subseteq Job
<1>1. Roots(o) \subseteq Job
  <2>1. /\ o.verify \in Level /\ o.profile \in Profile
        /\ \A t \in o.targets : <<o.host, t>> \in Makes(o.profile)
        /\ o.kit => <<o.host, o.host>> \in Builds
    BY CommandsAssumption
  <2>2. \A f \in Profile : \A b \in Makes(f), l \in Level :
          /\ Interpreter(f, b[1], b[2]) \in Interpreters
          /\ Verify(f, b[1], b[2], l) \in Verifications
          /\ Pack(f, b[1], b[2], l) \in Packs
    BY DEF Interpreters, Verifications, Packs
  <2>3. Interpreters \subseteq Job /\ Verifications \subseteq Job /\ Packs \subseteq Job
    BY DEF Job
  <2>4. ASSUME NEW t \in o.targets
        PROVE  /\ Interpreter(o.profile, o.host, t) \in Job
               /\ Verify(o.profile, o.host, t, o.verify) \in Job
               /\ Pack(o.profile, o.host, t, o.verify) \in Job
    <3> DEFINE b == <<o.host, t>>
    <3>1. b \in Makes(o.profile) /\ b[1] = o.host /\ b[2] = t
      BY <2>1
    <3> HIDE DEF b
    <3> QED
      BY <2>1, <2>2, <2>3, <3>1
  <2>5. ASSUME o.kit PROVE Kit(o.host, o.verify) \in Job
    <3> DEFINE b == <<o.host, o.host>>
    <3>1. b \in {x \in Builds : x[1] = x[2]} /\ b[1] = o.host
      BY <2>1, <2>5
    <3> HIDE DEF b
    <3>2. Kit(b[1], o.verify) \in {Kit(c[1], l) : c \in {x \in Builds : x[1] = x[2]}, l \in Level}
      BY <2>1, <3>1
    <3> QED
      BY <3>1, <3>2 DEF Job
  <2> QED
    BY <2>4, <2>5 DEF Roots
<1> QED
  BY <1>1, JobsAround, ClosureIsLeast DEF Graph

\* So is what is below a job, which has all its own dependencies.
LEMMA WhatIsBelow ==
  ASSUME NEW w \in World, NEW j \in Job
  PROVE  j \in Below(w, j) /\ \A d \in Below(w, j) : d \in Job /\ Deps(w, d) \subseteq Below(w, j)
<1>1. {j} \subseteq Below(w, j) /\ Below(w, j) \subseteq Job
  BY JobsAround, ClosureIsLeast DEF Below
<1> QED
  BY <1>1, DepthAssumption

--------------------------------------------------------------------------------
(* Histories of dist/                                                      *)

\* The plan is that of the command in the world.
Asked == world \in World /\ command \in Commands /\ wanted = Graph(world, command)

\* An artifact is what building any job of its key would give, in any world.
Fresh ==
  \A a \in store, w \in World, j \in Job : a.key = Key(w, j) => a.content = Content(w, j)

\* A report that does not say it was skipped stands for a proven interpreter.
Vouched ==
  \A a \in store, w \in World, j \in Job :
    j.kind = "verify" /\ ~SkipRequested(w) /\ a.key = Key(w, j) =>
      \E p \in proven : p.level = j.level /\ p.content = Content(w, InterpreterOf(j))

\* So does an archive packed under --verify.
Sealed ==
  \A a \in store, w \in World, j \in Job :
    j.kind = "pack" /\ j.level # "none" /\ ~SkipRequested(w) /\ a.key = Key(w, j) =>
      \E p \in proven : p.level = j.level /\ a.content = Baked(Reads(w, j, {p.content}))

\* What counts as valid is in dist/.
LEMMA ArtifactFound ==
  ASSUME NEW w, NEW j, Valid(w, j)
  PROVE  Artifact(w, j) \in store /\ Artifact(w, j).key = Key(w, j)
<1>1. \E a \in store : a.key = Key(w, j) /\ a.at = Place(w, j)
  BY DEF Valid
<1> QED
  BY <1>1 DEF Artifact

\* Artifacts that are fresh make fresh ones.
LEMMA MadeFresh ==
  ASSUME Fresh, NEW w \in World, NEW j \in Job, \A d \in Parts(w, j) : Valid(w, d)
  PROVE  Made(w, j) = Content(w, j)
<1>1. \A d \in Parts(w, j) : Artifact(w, d).content = Content(w, d)
  <2> SUFFICES ASSUME NEW d \in Parts(w, j) PROVE Artifact(w, d).content = Content(w, d)
    OBVIOUS
  <2>1. d \in Job
    BY JobsAround
  <2>2. Artifact(w, d) \in store /\ Artifact(w, d).key = Key(w, d)
    BY ArtifactFound
  <2> QED
    BY <2>1, <2>2 DEF Fresh
<1>2. {Artifact(w, d).content : d \in Parts(w, j)} = {Content(w, d) : d \in Parts(w, j)}
  BY <1>1
<1> QED
  BY <1>2, ContentAssumption DEF Made

\* First picks one of the jobs.
LEMMA FirstOfJobs ==
  ASSUME NEW jobs, jobs \subseteq Job, jobs # {}
  PROVE  First(jobs) \in jobs
<1> DEFINE Ranked == {Order[j] : j \in jobs}
<1>1. Ranked \in SUBSET Nat /\ Ranked # {}
  BY OrderAssumption
<1>2. PICK n \in Ranked : \A m \in Ranked : n <= m
  <2> HIDE DEF Ranked
  <2> QED
    BY <1>1, LeastNumber
<1>3. \E j \in jobs : \A i \in jobs : Order[j] <= Order[i]
  BY <1>2
<1> QED
  BY <1>3 DEF First

\* What a step of BuildNext builds.
LEMMA OneIsBuilt ==
  ASSUME Asked, BuildNext
  PROVE  \E j \in Job : Build(j)
<1>1. Missing \subseteq Job
  BY PlansAreOfJobs DEF Missing, Asked
<1>2. Missing # {} /\ \E j \in {First(Missing)} : Build(j)
  BY DEF BuildNext
<1>3. First(Missing) \in Job
  BY <1>1, <1>2, FirstOfJobs
<1> QED
  BY <1>2, <1>3

\* Plans are kept up to date.
LEMMA AskedStep ==
  ASSUME Asked, [Next]_vars
  PROVE  Asked'
<1>1. ASSUME NEW w \in World, Edit(w) PROVE Asked'
  BY <1>1 DEF Edit, Change, Asked
<1>2. ASSUME NEW o \in Commands, Ask(o) PROVE Asked'
  BY <1>2 DEF Ask, Change, Asked
<1>3. CASE BuildNext
  BY <1>3, OneIsBuilt DEF Build, Asked
<1>4. CASE Finished
  BY <1>4 DEF Finished, vars, Asked
<1>5. CASE UNCHANGED vars
  BY <1>5 DEF vars, Asked
<1> QED
  BY <1>1, <1>2, <1>3, <1>4, <1>5 DEF Next

\* What is in dist/ after a step: what was there, with what was proven then, or
\* what one build published.
LEMMA StoreStep ==
  ASSUME Asked, [Next]_vars
  PROVE  \/ store' = store /\ proven' = proven
         \/ \E j \in Job :
              /\ world \in World
              /\ \A d \in Deps(world, j) \cup Parts(world, j) : Valid(world, d)
              /\ proven' = proven \cup Proves(world, j)
              /\ \A a \in store' :
                   a \in store \/ (a.key = Key(world, j) /\ a.content = Made(world, j))
<1>1. CASE BuildNext
  <2>1. PICK j \in Job : Build(j)
    BY <1>1, OneIsBuilt
  <2>2. store' = {a \in store : a.at # Place(world, j)} \cup
                 {[at |-> Place(world, j), key |-> Key(world, j), content |-> Made(world, j)]}
    BY <2>1 DEF Build, Publish
  <2>3. \A a \in store' : a \in store \/ (a.key = Key(world, j) /\ a.content = Made(world, j))
    BY <2>2
  <2> QED
    BY <2>1, <2>3 DEF Build, Asked
<1>2. ASSUME NEW w \in World, Edit(w) PROVE store' = store /\ proven' = proven
  BY <1>2 DEF Edit, Change
<1>3. ASSUME NEW o \in Commands, Ask(o) PROVE store' = store /\ proven' = proven
  BY <1>3 DEF Ask, Change
<1>4. CASE Finished \/ UNCHANGED vars
  BY <1>4 DEF Finished, vars
<1> QED
  BY <1>1, <1>2, <1>3, <1>4 DEF Next

\* What is published is fresh in every world in which its key is asked for.
LEMMA FreshStep ==
  ASSUME NothingOverlooked, Asked, Fresh, [Next]_vars
  PROVE  Fresh'
<1>1. CASE store' = store
  BY <1>1 DEF Fresh
<1>2. ASSUME NEW i \in Job, world \in World, \A d \in Parts(world, i) : Valid(world, d),
             \A a \in store' : a \in store \/ (a.key = Key(world, i) /\ a.content = Made(world, i))
      PROVE  Fresh'
  <2> SUFFICES ASSUME NEW a \in store', NEW w \in World, NEW j \in Job, a.key = Key(w, j)
               PROVE  a.content = Content(w, j)
    BY DEF Fresh
  <2>1. CASE a \in store
    BY <2>1 DEF Fresh
  <2>2. CASE a.key = Key(world, i) /\ a.content = Made(world, i)
    <3>1. Made(world, i) = Content(world, i)
      BY <1>2, MadeFresh
    <3>2. Key(world, i) = Key(w, j) /\ world \in World
      BY <1>2, <2>2
    <3>3. Content(world, i) = Content(w, j)
      BY <3>2, SameContent
    <3> QED
      BY <2>2, <3>1, <3>3
  <2> QED
    BY <1>2, <2>1, <2>2
<1> QED
  BY <1>1, <1>2, StoreStep

\* A report is published by a build that proves its interpreter, unless skipped.
LEMMA VouchedStep ==
  ASSUME NothingOverlooked, Asked, Fresh, Vouched, [Next]_vars
  PROVE  Vouched'
<1>1. CASE store' = store /\ proven' = proven
  BY <1>1 DEF Vouched
<1>2. ASSUME NEW i \in Job, world \in World,
             \A d \in Deps(world, i) \cup Parts(world, i) : Valid(world, d),
             proven' = proven \cup Proves(world, i),
             \A a \in store' : a \in store \/ (a.key = Key(world, i) /\ a.content = Made(world, i))
      PROVE  Vouched'
  <2> SUFFICES ASSUME NEW a \in store', NEW w \in World, NEW j \in Job,
                      j.kind = "verify", ~SkipRequested(w), a.key = Key(w, j)
               PROVE  \E p \in proven' : p.level = j.level
                                    /\ p.content = Content(w, InterpreterOf(j))
    BY DEF Vouched
  <2>1. CASE a \in store
    BY <1>2, <2>1 DEF Vouched
  <2>2. CASE a.key = Key(world, i)
    <3>1. Key(w, j) = Key(world, i)
      BY <2>2
    <3>2. /\ i.kind = "verify" /\ InterpreterOf(j) \in Job /\ InterpreterOf(i) \in Job
          /\ InterpreterOf(i) \in Deps(world, i)
          /\ Key(w, InterpreterOf(j)) = Key(world, InterpreterOf(i))
      BY <1>2, <3>1, InterpreterInside
    <3>3. i.level = j.level /\ ~SkipRequested(world)
      BY <1>2, <3>1, SameVerification
    <3>4. Valid(world, InterpreterOf(i))
      BY <1>2, <3>2
    <3>5. Artifact(world, InterpreterOf(i)).content = Content(world, InterpreterOf(i))
      <4>1. Artifact(world, InterpreterOf(i)) \in store
            /\ Artifact(world, InterpreterOf(i)).key = Key(world, InterpreterOf(i))
        BY <3>4, ArtifactFound
      <4> QED
        BY <1>2, <3>2, <4>1 DEF Fresh
    <3>6. Content(world, InterpreterOf(i)) = Content(w, InterpreterOf(j))
      BY <1>2, <3>2, SameContent
    <3>7. [level |-> i.level, content |-> Artifact(world, InterpreterOf(i)).content] \in proven'
      BY <1>2, <3>2, <3>3 DEF Proves
    <3> QED
      BY <3>3, <3>5, <3>6, <3>7
  <2> QED
    BY <1>2, <2>1, <2>2
<1> QED
  BY <1>1, <1>2, StoreStep

\* An archive is packed when the report that its key asks for is there.
LEMMA SealedStep ==
  ASSUME NothingOverlooked, Asked, Fresh, Vouched, Sealed, [Next]_vars
  PROVE  Sealed'
<1>1. CASE store' = store /\ proven' = proven
  BY <1>1 DEF Sealed
<1>2. ASSUME NEW i \in Job, world \in World,
             \A d \in Deps(world, i) \cup Parts(world, i) : Valid(world, d),
             proven' = proven \cup Proves(world, i),
             \A a \in store' : a \in store \/ (a.key = Key(world, i) /\ a.content = Made(world, i))
      PROVE  Sealed'
  <2> SUFFICES ASSUME NEW a \in store', NEW w \in World, NEW j \in Job,
                      j.kind = "pack", j.level # "none", ~SkipRequested(w), a.key = Key(w, j)
               PROVE  \E p \in proven' : p.level = j.level
                                    /\ a.content = Baked(Reads(w, j, {p.content}))
    BY DEF Sealed
  <2>1. CASE a \in store
    BY <1>2, <2>1 DEF Sealed
  <2>2. CASE a.key = Key(world, i) /\ a.content = Made(world, i)
    <3>1. Key(w, j) = Key(world, i)
      BY <2>2
    <3>2. PICK e \in Deps(world, i) \cap Job :
            /\ e.kind = "verify" /\ e.level = j.level
            /\ InterpreterOf(e) = InterpreterOf(i)
            /\ ~SkipRequested(world)
      BY <1>2, <3>1, SameSeal
    <3>3. Artifact(world, e) \in store /\ Artifact(world, e).key = Key(world, e)
      BY <1>2, <3>2, ArtifactFound
    <3>4. PICK p \in proven : p.level = e.level /\ p.content = Content(world, InterpreterOf(e))
      BY <1>2, <3>2, <3>3 DEF Vouched
    <3>5. /\ InterpreterOf(j) \in Job /\ InterpreterOf(i) \in Job
          /\ Key(w, InterpreterOf(j)) = Key(world, InterpreterOf(i))
      BY <1>2, <3>1, InterpreterInside
    <3>6. Content(w, InterpreterOf(j)) = Content(world, InterpreterOf(i))
      BY <1>2, <3>5, SameContent
    <3>7. Made(world, i) = Content(world, i)
      BY <1>2, MadeFresh
    <3>8. Content(w, j) = Content(world, i)
      BY <1>2, <3>1, SameContent
    <3>9. Content(w, j) = Baked(Reads(w, j, {Content(w, InterpreterOf(j))}))
      <4>1. Parts(w, j) = {InterpreterOf(j)}
        BY DEF Parts
      <4>2. {Content(w, d) : d \in Parts(w, j)} = {Content(w, InterpreterOf(j))}
        BY <4>1
      <4> QED
        BY <4>2, ContentAssumption
    <3>10. a.content = Baked(Reads(w, j, {p.content}))
      BY <2>2, <3>2, <3>4, <3>6, <3>7, <3>8, <3>9
    <3> QED
      BY <1>2, <3>2, <3>4, <3>10
  <2> QED
    BY <1>2, <2>1, <2>2
<1> QED
  BY <1>1, <1>2, StoreStep

\* The inductive invariant.
DistInv == Asked /\ Fresh /\ Vouched /\ Sealed

\* The four together are inductive.
LEMMA DistInvariant ==
  ASSUME NothingOverlooked
  PROVE  Spec => []DistInv
<1>1. Init => DistInv
  BY BoundsAssumption DEF Init, DistInv, Asked, Fresh, Vouched, Sealed
<1>2. DistInv /\ [Next]_vars => DistInv'
  BY AskedStep, FreshStep, VouchedStep, SealedStep DEF DistInv
<1> QED
  BY <1>1, <1>2, PTL DEF Spec

\* An artifact that counts for a job of the plan.
LEMMA Found ==
  ASSUME Asked, NEW j \in wanted, Valid(world, j)
  PROVE  /\ world \in World /\ j \in Job
         /\ Artifact(world, j) \in store /\ Artifact(world, j).key = Key(world, j)
<1>1. world \in World /\ j \in Job
  BY PlansAreOfJobs DEF Asked
<1> QED
  BY <1>1, ArtifactFound

\* If nothing that keys overlook is touched, an artifact that a plan takes from
\* dist/ is what building its job now, from nothing, would give (core.Key, and
\* Valid in store.go), whatever edits, skips, toolchains and machines filled
\* dist/, and whenever they interrupted a plan.
THEOREM RebuildsAreFresh ==
  ASSUME NothingOverlooked
  PROVE  Spec => []AlwaysFresh
<1>1. DistInv => AlwaysFresh
  BY Found DEF DistInv, Fresh, AlwaysFresh
<1> QED
  BY <1>1, DistInvariant, PTL

\* On the same condition, the interpreter in an archive that counts as packed
\* under --verify passed that level of verification (packJob), although packs
\* are kept by a key that interpreters do not show in.
THEOREM PacksAreVerified ==
  ASSUME NothingOverlooked
  PROVE  Spec => []PackedIsVerified
<1>1. DistInv => PackedIsVerified
  BY Found DEF DistInv, Sealed, PackedIsVerified
<1> QED
  BY <1>1, DistInvariant, PTL
--------------------------------------------------------------------------------
(* The converse: no key moves in vain. Whatever a key hashes shows in what is  *)
(* read, of the world or through a part, if builds show all that they read.    *)

\* Nothing that a build reads is lost in what it makes.
BuildsShow ==
  \A w, v \in World, j, i \in Job :
    Content(w, j) = Content(v, i) =>
      Reads(w, j, {Content(w, d) : d \in Parts(w, j)}) = Reads(v, i, {Content(v, d) : d \in Parts(v, i)})

\* Equal documents have equal hashes.
KeysAreHashes ==
  \A w, v \in World, j, i \in Job : KeyDoc(Key(w, j)) = KeyDoc(Key(v, i)) => Key(w, j) = Key(v, i)

\* What equal contents tell.
LEMMA ContentTells ==
  ASSUME BuildsShow,
         NEW w \in World, NEW v \in World, NEW j \in Job, NEW i \in Job, Content(w, j) = Content(v, i)
  PROVE  /\ Slug(w, j) = Slug(v, i)
         /\ Uses(w, j) = Uses(v, i)
         /\ \A d \in Parts(w, j) : \E e \in Parts(v, i) : Content(w, d) = Content(v, e)
<1> DEFINE All(u, x) == {Content(u, d) : d \in Parts(u, x)}
<1>1. Reads(w, j, All(w, j)) = Reads(v, i, All(v, i))
  BY DEF BuildsShow
<1>2. \A u, x, s : /\ Reads(u, x, s).slug = Slug(u, x) /\ Reads(u, x, s).uses = Uses(u, x)
                   /\ Reads(u, x, s).parts = s
  BY DEF Reads
<1> HIDE DEF All
<1>3. Slug(w, j) = Slug(v, i) /\ Uses(w, j) = Uses(v, i) /\ All(w, j) = All(v, i)
  BY <1>1, <1>2
<1>4. \A d \in Parts(w, j) : Content(w, d) \in All(v, i)
  BY <1>3 DEF All
<1> QED
  BY <1>3, <1>4 DEF All

PartKinds == {"srctree", "probe", "pyhost", "staticapi", "dep", "sysroot"}

\* On one machine these jobs are told apart by their names.
LEMMA NamesTell ==
  ASSUME NEW w \in World, NEW v \in World, NEW d \in Job, NEW e \in Job,
         Slug(w, d) = Slug(v, e), d.kind \in PartKinds,
         d.kind # "srctree" => d.host = e.host
  PROVE  d = e
<1>1. d.kind = e.kind
  BY KindOfSlug
<1>2. CASE d.kind = "srctree"
  <2>1. PICK s \in Source : d = SrcTree(s)
    BY <1>2, ByKind
  <2>2. PICK r \in Source : e = SrcTree(r)
    BY <1>1, <1>2, ByKind
  <2> QED
    BY <2>1, <2>2, OfTree
<1>3. CASE d.kind = "probe"
  <2>1. PICK b \in Builds : d = Probe(b[1], b[2])
    BY <1>3, ByKind
  <2>2. PICK c \in Builds : e = Probe(c[1], c[2])
    BY <1>1, <1>3, ByKind
  <2>3. b[2] = c[2]
    BY <2>1, <2>2, OfProbe
  <2>4. b[1] = c[1]
    BY <1>3, <2>1, <2>2 DEF Probe
  <2> QED
    BY <2>1, <2>2, <2>3, <2>4
<1>4. CASE d.kind = "pyhost"
  <2>1. (\E h \in Host : d = PyHost(h)) /\ (\E h \in Host : e = PyHost(h))
    BY <1>1, <1>4, ByKind
  <2> QED
    BY <1>4, <2>1 DEF PyHost
<1>5. CASE d.kind = "staticapi"
  <2>1. (\E h \in Host : d = StaticAPI(h)) /\ (\E h \in Host : e = StaticAPI(h))
    BY <1>1, <1>5, ByKind
  <2> QED
    BY <1>5, <2>1 DEF StaticAPI
<1>6. CASE d.kind = "dep"
  <2>1. PICK f \in Static, b \in Builds, p \in Package : d = Dep(f, b[1], b[2], p)
    BY <1>6, ByKind
  <2>2. PICK g \in Static, c \in Builds, q \in Package : e = Dep(g, c[1], c[2], q)
    BY <1>1, <1>6, ByKind
  <2>3. f = g /\ b[2] = c[2] /\ p = q
    BY <2>1, <2>2, OfLibrary
  <2>4. b[1] = c[1]
    BY <1>6, <2>1, <2>2 DEF Dep
  <2> QED
    BY <2>1, <2>2, <2>3, <2>4
<1>7. CASE d.kind = "sysroot"
  <2>1. PICK f \in Static, b \in Builds : d = Sysroot(f, b[1], b[2])
    BY <1>7, ByKind
  <2>2. PICK g \in Static, c \in Builds : e = Sysroot(g, c[1], c[2])
    BY <1>1, <1>7, ByKind
  <2>3. f = g /\ b[2] = c[2]
    BY <2>1, <2>2, OfSysroot
  <2>4. b[1] = c[1]
    BY <1>7, <2>1, <2>2 DEF Sysroot
  <2> QED
    BY <2>1, <2>2, <2>3, <2>4
<1> QED
  BY <1>2, <1>3, <1>4, <1>5, <1>6, <1>7 DEF PartKinds

\* The kinds that are no bookkeeping.
LEMMA PlainKinds ==
  ASSUME NEW j \in Job, j.kind \notin Bookkeeping
  PROVE  j.kind \in {"srctree", "probe", "pyhost", "pyref", "staticapi", "dep", "sysroot", "pybuild"}
  BY JobKinds DEF Bookkeeping, SrcTree, Probe, PyHost, StaticAPI, Dep, Sysroot, PyBuild, PyRef, Verify, Pack, Kit

\* All that a job of these kinds reads is made on its own machine, and its dependencies are
\* among what it reads.
LEMMA PartsOfOneHost ==
  ASSUME NEW w \in World, NEW j \in Job, j.kind \notin Bookkeeping
  PROVE  /\ \A d \in Parts(w, j) : d.kind \in PartKinds /\ (d.kind # "srctree" => d.host = j.host)
         /\ Deps(w, j) \subseteq Parts(w, j)
<1> USE DEF PartKinds, SrcTree, Probe, PyHost, StaticAPI, Dep, Sysroot, PyBuild, PyRef
<1>1. CASE j.kind \in {"srctree", "probe"}
  BY <1>1 DEF Parts, Deps
<1>2. CASE j.kind \in {"pyhost", "pyref"}
  BY <1>2 DEF Parts, Deps
<1>3. CASE j.kind = "staticapi"
  BY <1>3 DEF Parts, Deps
<1>4. CASE j.kind = "dep"
  <2>1. PICK f \in Static, b \in Builds, p \in Package : j = Dep(f, b[1], b[2], p)
    BY <1>4, ByKind
  <2>2. Needs[p] \subseteq AllNeeds[p]
    BY NeedsAssumption
  <2>3. /\ Deps(w, j) = {SrcTree(p)} \cup {Dep(f, b[1], b[2], n) : n \in Needs[p]}
        /\ Parts(w, j) = {SrcTree(p)} \cup {Dep(f, b[1], b[2], n) : n \in AllNeeds[p]}
    BY <2>1, OfLibrary
  <2> QED
    BY <2>1, <2>2, <2>3
<1>5. CASE j.kind = "sysroot"
  BY <1>5 DEF Parts, Deps
<1>6. CASE j.kind = "pybuild"
  <2>1. PICK f \in Static, b \in Builds : j = PyBuild(f, b[1], b[2])
    BY <1>6, ByKind
  <2>2. /\ Deps(w, j) = {SrcTree("python"), Sysroot(f, b[1], b[2]), StaticAPI(b[1]),
                         Probe(b[1], b[2]), PyHost(b[1])}
        /\ Parts(w, j) = Deps(w, j) \cup Deps(w, Sysroot(f, b[1], b[2]))
        /\ Deps(w, Sysroot(f, b[1], b[2])) = {Dep(f, b[1], b[2], p) : p \in Unskipped(w, f)}
    BY <2>1, OfPyBuild, OfSysroot
  <2> QED
    BY <2>1, <2>2
<1>7. j.kind \in {"srctree", "probe", "pyhost", "pyref", "staticapi", "dep", "sysroot", "pybuild"}
  BY PlainKinds
<1> QED
  BY <1>1, <1>2, <1>3, <1>4, <1>5, <1>6, <1>7

\* A job whose content stays reads the same parts, and they stay.
LEMMA PartsStay ==
  ASSUME BuildsShow, NEW w \in World, NEW v \in World, NEW j \in Job, j.kind \notin Bookkeeping,
         Content(w, j) = Content(v, j), NEW d \in Parts(w, j)
  PROVE  d \in Parts(v, j) /\ Content(w, d) = Content(v, d)
<1>1. PICK e \in Parts(v, j) : Content(w, d) = Content(v, e)
  BY ContentTells
<1>2. d \in Job /\ e \in Job
  BY JobsAround
<1>3. Slug(w, d) = Slug(v, e)
  BY <1>1, <1>2, ContentTells
<1>4. /\ d.kind \in PartKinds /\ (d.kind # "srctree" => d.host = j.host)
      /\ e.kind \in PartKinds /\ (e.kind # "srctree" => e.host = j.host)
  BY PartsOfOneHost
<1>5. d.kind = e.kind
  BY <1>2, <1>3, KindOfSlug
<1>6. d = e
  BY <1>2, <1>3, <1>4, <1>5, NamesTell
<1> QED
  BY <1>1, <1>6

\* A source tree that stays has all its inputs.
LEMMA TreeStays ==
  ASSUME BuildsShow, NEW w \in World, NEW v \in World, NEW s, SrcTree(s) \in Job,
         Content(w, SrcTree(s)) = Content(v, SrcTree(s))
  PROVE  Pin(w, s) = Pin(v, s) /\ Patches(w, s) = Patches(v, s)
<1>1. SrcTreeInputs(w, s) = SrcTreeInputs(v, s)
  BY ContentTells, OfTree
<1> QED
  BY <1>1 DEF SrcTreeInputs

\* What is heeded and what is not is all there is.
LEMMA SettingsOfAll ==
  ASSUME NEW w, NEW v, NEW N, NEW M, NEW L, NEW f, NEW sc, M \subseteq N,
         Settings(w, M, f, sc) = Settings(v, L, f, sc),
         Settings(w, N \ M, f, sc) = Settings(v, N \ L, f, sc)
  PROVE  Settings(w, N, f, sc) = Settings(v, N, f, sc)
<1>1. M = L
  BY DEF Settings
<1>2. \A n \in M : Resolved(w, n, f, sc) = Settings(w, M, f, sc)[n] /\ Resolved(v, n, f, sc) = Settings(v, M, f, sc)[n]
  BY DEF Settings
<1>3. \A n \in N \ M : Resolved(w, n, f, sc) = Settings(w, N \ M, f, sc)[n]
                       /\ Resolved(v, n, f, sc) = Settings(v, N \ M, f, sc)[n]
  BY DEF Settings
<1>4. \A n \in N : Resolved(w, n, f, sc) = Resolved(v, n, f, sc)
  BY <1>1, <1>2, <1>3
<1> QED
  BY <1>4 DEF Settings

\* A library that stays, and whose idle settings stay, has the inputs it had.
LEMMA LibraryStays ==
  ASSUME NEW w, NEW v, NEW f, NEW h, NEW t, NEW p,
         DepUses(w, f, h, t, p) = DepUses(v, f, h, t, p),
         Pin(w, p) = Pin(v, p), Patches(w, p) = Patches(v, p),
         Settings(w, ForAll \ DepHeeds(f), f, DepScopes(p))
           = Settings(v, ForAll \ DepHeeds(f), f, DepScopes(p))
  PROVE  DepInputs(w, f, h, t, p) = DepInputs(v, f, h, t, p)
<1>1. DepHeeds(f) \subseteq ForAll
  BY DEF DepHeeds, ForAll
<1>2. Settings(w, DepHeeds(f), f, DepScopes(p)) = Settings(v, DepHeeds(f), f, DepScopes(p))
  BY DEF DepUses
<1>3. Settings(w, ForAll, f, DepScopes(p)) = Settings(v, ForAll, f, DepScopes(p))
  BY <1>1, <1>2, SettingsOfAll
<1>4. /\ Code(w, "recipe") = Code(v, "recipe")
      /\ At(w, <<"package", p>>) = At(v, <<"package", p>>)
      /\ TargetPatches(w, p, t) = TargetPatches(v, p, t)
      /\ At(w, <<"platform", p, t>>) = At(v, <<"platform", p, t>>)
      /\ Field(w, "configure", p, f) = Field(v, "configure", p, f)
      /\ ToolchainFor(w, f, h, t) = ToolchainFor(v, f, h, t)
  BY DEF DepUses
<1> QED
  BY <1>3, <1>4 DEF DepInputs

\* A job whose content stays, and whose idle settings stay, has the inputs it had.
LEMMA InputsStay ==
  ASSUME NothingOverlooked, BuildsShow,
         NEW w \in World, NEW v \in World, NEW j \in Job, j.kind \notin Bookkeeping,
         Content(w, j) = Content(v, j), Ignored(w, j) = Ignored(v, j)
  PROVE  Inputs(w, j) = Inputs(v, j)
<1>1. Slug(w, j) = Slug(v, j) /\ Uses(w, j) = Uses(v, j)
  BY ContentTells
<1>2. \A s : SrcTree(s) \in Parts(w, j) => Pin(w, s) = Pin(v, s) /\ Patches(w, s) = Patches(v, s)
  BY PartsStay, JobsAround, TreeStays
<1>3. CASE j.kind \in {"srctree", "probe", "staticapi", "sysroot"}
  BY <1>1, <1>3 DEF Uses
<1>4. CASE j.kind = "pyhost"
  <2>1. PICK h \in Host : j = PyHost(h)
    BY <1>4, ByKind
  <2>2. PyHostUses(w, h) = PyHostUses(v, h) /\ Pin(w, "python") = Pin(v, "python")
    BY <1>1, <2>1, OfPyHost
  <2>3. Toolchain(w, h, h) = ToolchainNative(w, h) /\ Toolchain(v, h, h) = ToolchainNative(v, h)
    BY DEF NothingOverlooked, Toolchain, ToolchainNative
  <2> DEFINE all(u) == Settings(u, ForPython, "bootstrap", PyhostScopes)
             listed(u) == Settings(u, Listing, "bootstrap", PyhostScopes)
  <2>4. all(w) = all(v) /\ listed(w) = listed(v)
    <3>1. Settings(w, PyHostHeeds, "bootstrap", PyhostScopes)
          = Settings(v, PyHostHeeds, "bootstrap", PyhostScopes)
      BY <2>2 DEF PyHostUses
    <3>2. Settings(w, ForPython \ PyHostHeeds, "bootstrap", PyhostScopes)
          = Settings(v, ForPython \ PyHostHeeds, "bootstrap", PyhostScopes)
      BY <1>4 DEF Ignored
    <3>3. PyHostHeeds \subseteq ForPython /\ Listing \subseteq ForPython
      BY DEF PyHostHeeds, ForPython, ForAll, Listing
    <3> QED
      BY <3>1, <3>2, <3>3, SettingsOfAll, SettingsOfSome
  <2>5. /\ Code(w, "recipe") = Code(v, "recipe") /\ Asset(w, "Setup") = Asset(v, "Setup")
        /\ TargetPatches(w, "python", h) = TargetPatches(v, "python", h)
        /\ ToolchainNative(w, h) = ToolchainNative(v, h)
    BY <2>2, <2>3 DEF PyHostUses
  <2> HIDE DEF all, listed
  <2>6. \A u : PyHostInputs(u, h) =
                 [recipe_version |-> Code(u, "recipe"), python_version |-> Pin(u, "python"),
                  setup_local |-> <<Asset(u, "Setup"), listed(u)>>, host |-> h,
                  toolchain |-> ToolchainNative(u, h),
                  target_patches |-> TargetPatches(u, "python", h), profile |-> all(u)]
    BY DEF PyHostInputs, SetupLocal, all, listed
  <2>7. PyHostInputs(w, h) = PyHostInputs(v, h)
    BY <2>2, <2>4, <2>5, <2>6
  <2> QED
    BY <2>1, <2>7, OfPyHost
<1>5. CASE j.kind = "dep"
  <2>1. PICK f \in Static, b \in Builds, p \in Package : j = Dep(f, b[1], b[2], p)
    BY <1>5, ByKind
  <2>2. DepUses(w, f, b[1], b[2], p) = DepUses(v, f, b[1], b[2], p)
    BY <1>1, <2>1, OfLibrary
  <2>3. Pin(w, p) = Pin(v, p) /\ Patches(w, p) = Patches(v, p)
    BY <1>2, <2>1, OfLibrary
  <2>4. DepInputs(w, f, b[1], b[2], p) = DepInputs(v, f, b[1], b[2], p)
    <3>1. j.prof = f /\ j.package = p
      BY <2>1 DEF Dep
    <3> QED
      BY <1>5, <2>2, <2>3, <3>1, LibraryStays DEF Ignored
  <2> QED
    BY <2>1, <2>4, OfLibrary
<1>6. CASE j.kind = "pybuild"
  <2>1. PICK f \in Static, b \in Builds : j = PyBuild(f, b[1], b[2])
    BY <1>6, ByKind
  <2>2. PyBuildUses(w, f, b[1], b[2]) = PyBuildUses(v, f, b[1], b[2])
    BY <1>1, <2>1, OfPyBuild
  <2>3. Pin(w, "python") = Pin(v, "python")
    BY <1>2, <2>1, OfPyBuild
  <2> DEFINE heeds(u) == PyBuildHeeds(u, f, b[1], b[2])
             all(u) == Settings(u, ForPython, f, PythonScopes)
             listed(u) == Settings(u, Listing \cup {"bundle"}, f, PythonScopes)
  <2>4. all(w) = all(v) /\ listed(w) = listed(v)
    <3>1. Settings(w, heeds(w), f, PythonScopes) = Settings(v, heeds(v), f, PythonScopes)
      BY <2>2 DEF PyBuildUses
    <3>2. j.prof = f /\ j.host = b[1] /\ j.target = b[2]
      BY <2>1 DEF PyBuild
    <3>3. Settings(w, ForPython \ heeds(w), f, PythonScopes)
          = Settings(v, ForPython \ heeds(v), f, PythonScopes)
      BY <1>6, <3>2 DEF Ignored
    <3>4. heeds(w) \subseteq ForPython /\ Listing \cup {"bundle"} \subseteq ForPython
      BY DEF PyBuildHeeds, ForPython, ForAll, Listing
    <3> HIDE DEF heeds
    <3> QED
      BY <3>1, <3>3, <3>4, SettingsOfAll, SettingsOfSome
  <2>5. /\ Code(w, "recipe") = Code(v, "recipe") /\ Asset(w, "Setup") = Asset(v, "Setup")
        /\ At(w, <<"target", b[2]>>) = At(v, <<"target", b[2]>>)
        /\ Asset(w, "staticapi.c") = Asset(v, "staticapi.c")
        /\ Asset(w, "libat_atfork.c") = Asset(v, "libat_atfork.c")
        /\ TargetPatches(w, "python", b[2]) = TargetPatches(v, "python", b[2])
    BY <2>2 DEF PyBuildUses
  <2> HIDE DEF all, listed
  <2>6. \A u : PyBuildInputs(u, f, b[1], b[2]) =
                 [recipe_version |-> Code(u, "recipe"), python_version |-> Pin(u, "python"),
                  setup_local |-> <<Asset(u, "Setup"), listed(u)>>,
                  target |-> At(u, <<"target", b[2]>>), build |-> b[1],
                  staticapi_c |-> Asset(u, "staticapi.c"),
                  libat_atfork |-> Asset(u, "libat_atfork.c"),
                  target_patches |-> TargetPatches(u, "python", b[2]), profile |-> all(u)]
    BY DEF PyBuildInputs, SetupLocal, all, listed
  <2>7. PyBuildInputs(w, f, b[1], b[2]) = PyBuildInputs(v, f, b[1], b[2])
    BY <2>3, <2>4, <2>5, <2>6
  <2> QED
    BY <2>1, <2>7, OfPyBuild
<1>7. CASE j.kind = "pyref"
  <2>1. PICK f \in Profile, h \in Host : j = PyRef(f, h)
    BY <1>7, ByKind
  <2>2. PyRefUses(w, f, h) = PyRefUses(v, f, h)
    BY <1>1, <2>1, OfPyRef
  <2>3. [p \in Unskipped(w, f) |-> DepUses(w, f, h, h, p)]
        = [p \in Unskipped(v, f) |-> DepUses(v, f, h, h, p)]
    BY <2>2 DEF PyRefUses
  <2>4. Unskipped(w, f) = Unskipped(v, f)
    BY <2>3
  <2>5. \A p \in Unskipped(w, f) : DepUses(w, f, h, h, p) = DepUses(v, f, h, h, p)
    BY <2>3, <2>4
  <2>6. \A p \in Unskipped(w, f) \cup {"python"} : Pin(w, p) = Pin(v, p) /\ Patches(w, p) = Patches(v, p)
    BY <1>2, <2>1, OfPyRef
  <2> DEFINE all(u) == Settings(u, ForPython, f, PythonScopes)
             heeds(u) == PyRefHeeds(u, f)
             own(u) == Settings(u, ForPython \ heeds(u), f, PythonScopes)
             idle(u, p) == Settings(u, ForAll \ DepHeeds(f), f, DepScopes(p))
             unheeded(u) == [p \in Unskipped(u, f) |-> idle(u, p)]
  <2>7. own(w) = own(v) /\ unheeded(w) = unheeded(v)
    <3>1. j.prof = f
      BY <2>1 DEF PyRef
    <3>2. \A u : Ignored(u, j) = [own |-> own(u), dep |-> unheeded(u)]
      BY <1>7, <3>1 DEF Ignored
    <3> HIDE DEF own, unheeded
    <3> QED
      BY <3>2
  <2>8. \A p \in Unskipped(w, f) : idle(w, p) = idle(v, p)
    <3> HIDE DEF idle
    <3>1. \A u : \A p \in Unskipped(u, f) : unheeded(u)[p] = idle(u, p)
      OBVIOUS
    <3> HIDE DEF unheeded
    <3> QED
      BY <2>4, <2>7, <3>1
  <2>9. all(w) = all(v)
    <3>1. Settings(w, heeds(w), f, PythonScopes) = Settings(v, heeds(v), f, PythonScopes)
      BY <2>2 DEF PyRefUses
    <3>2. heeds(w) \subseteq ForPython
      BY DEF PyRefHeeds, ForPython, ForAll
    <3> HIDE DEF heeds
    <3> QED
      BY <2>7, <3>1, <3>2, SettingsOfAll
  <2>10. \A p \in Unskipped(w, f) : DepInputs(w, f, h, h, p) = DepInputs(v, f, h, h, p)
    BY <2>5, <2>6, <2>8, LibraryStays
  <2>11. [p \in Unskipped(w, f) |-> DepInputs(w, f, h, h, p)]
        = [p \in Unskipped(v, f) |-> DepInputs(v, f, h, h, p)]
    BY <2>4, <2>10
  <2>12. PyRefInputs(w, f, h) = PyRefInputs(v, f, h)
    <3>1. Code(w, "recipe") = Code(v, "recipe") /\ ToolchainHost(w, h) = ToolchainHost(v, h)
      BY <2>2 DEF PyRefUses
    <3> HIDE DEF all
    <3>2. \A u : PyRefInputs(u, f, h) =
                   [recipe_version |-> Code(u, "recipe"), python_version |-> Pin(u, "python"),
                    dep |-> [p \in Unskipped(u, f) |-> DepInputs(u, f, h, h, p)],
                    profile |-> all(u), toolchain |-> ToolchainHost(u, h)]
      BY DEF PyRefInputs, all
    <3> QED
      BY <2>6, <2>11, <2>9, <3>1, <3>2
  <2> QED
    BY <2>1, <2>12, OfPyRef
<1>8. j.kind \in {"srctree", "probe", "pyhost", "pyref", "staticapi", "dep", "sysroot", "pybuild"}
  BY PlainKinds
<1> QED
  BY <1>3, <1>4, <1>5, <1>6, <1>7, <1>8

\* What such a job depends on is among what it reads, and reads alone decide it.
LEMMA DepsStay ==
  ASSUME BuildsShow,
         NEW w \in World, NEW v \in World, NEW j \in Job, j.kind \notin Bookkeeping,
         Content(w, j) = Content(v, j), NEW d \in Deps(w, j)
  PROVE  d \in Deps(v, j) /\ d \in Job /\ Content(w, d) = Content(v, d) /\ d.kind \notin Bookkeeping
<1>1. d \in Parts(w, j) /\ d.kind \in PartKinds
  BY PartsOfOneHost
<1>2. d \in Parts(v, j) /\ Content(w, d) = Content(v, d) /\ d \in Job
  BY <1>1, PartsStay, JobsAround
<1>3. d.kind \notin Bookkeeping
  BY <1>1 DEF PartKinds, Bookkeeping
<1>4. CASE j.kind \notin {"dep", "pybuild", "verify", "pack", "kit"}
  <2>1. Parts(v, j) = Deps(v, j)
    BY <1>4 DEF Parts
  <2> QED
    BY <1>2, <1>3, <2>1
<1>5. CASE j.kind = "dep"
  <2>1. PICK f \in Static, b \in Builds, p \in Package : j = Dep(f, b[1], b[2], p)
    BY <1>5, ByKind
  <2> DEFINE needed == {SrcTree(p)} \cup {Dep(f, b[1], b[2], n) : n \in Needs[p]}
  <2>2. Deps(w, j) = needed
    BY <2>1, OfLibrary
  <2>3. Deps(v, j) = needed
    BY <2>1, OfLibrary
  <2> HIDE DEF needed
  <2> QED
    BY <1>2, <1>3, <2>2, <2>3
<1>6. CASE j.kind = "pybuild"
  <2>1. PICK f \in Static, b \in Builds : j = PyBuild(f, b[1], b[2])
    BY <1>6, ByKind
  <2> DEFINE needed == {SrcTree("python"), Sysroot(f, b[1], b[2]), StaticAPI(b[1]),
                        Probe(b[1], b[2]), PyHost(b[1])}
  <2>2. Deps(w, j) = needed
    BY <2>1, OfPyBuild
  <2>3. Deps(v, j) = needed
    BY <2>1, OfPyBuild
  <2> HIDE DEF needed
  <2> QED
    BY <1>2, <1>3, <2>2, <2>3
<1>7. j.kind \notin {"verify", "pack", "kit"}
  BY DEF Bookkeeping
<1> QED
  BY <1>4, <1>5, <1>6, <1>7

\* A job whose content stays keeps its key, if the idle settings of all that it
\* depends on stay too.
LEMMA KeyStays ==
  ASSUME NothingOverlooked, BuildsShow, KeysAreHashes,
         NEW w \in World, NEW v \in World, NEW j \in Job, j.kind \notin Bookkeeping,
         Content(w, j) = Content(v, j), \A d \in Below(w, j) : Ignored(w, d) = Ignored(v, d)
  PROVE  Key(w, j) = Key(v, j)
<1> DEFINE Stays(x) == x.kind \notin Bookkeeping /\ Content(w, x) = Content(v, x)
           Bad == {x \in Below(w, j) : Stays(x) /\ Key(w, x) # Key(v, x)}
           Ranked == {Order[x] : x \in Bad}
<1>1. \A x \in Below(w, j) : x \in Job /\ Deps(w, x) \subseteq Below(w, j)
  BY WhatIsBelow
<1>2. ASSUME Bad # {} PROVE FALSE
  <2>1. Ranked \in SUBSET Nat /\ Ranked # {}
    BY <1>1, <1>2, OrderAssumption
  <2>2. PICK r \in Ranked : \A m \in Ranked : r <= m
    <3> HIDE DEF Ranked
    <3> QED
      BY <2>1, LeastNumber
  <2>3. PICK x \in Bad : r = Order[x]
    BY <2>2
  <2>4. Stays(x) /\ Key(w, x) # Key(v, x) /\ x \in Below(w, j) /\ x \in Job
    BY <1>1, <2>3
  <2>5. \A d \in Deps(w, x) : d \in Deps(v, x) /\ Key(w, d) = Key(v, d)
    <3> SUFFICES ASSUME NEW d \in Deps(w, x) PROVE d \in Deps(v, x) /\ Key(w, d) = Key(v, d)
      OBVIOUS
    <3>1. d \in Deps(v, x) /\ d \in Job /\ Content(w, d) = Content(v, d) /\ d.kind \notin Bookkeeping
      BY <2>4, DepsStay
    <3>2. Order[d] < Order[x] /\ Order[d] \in Nat /\ Order[x] \in Nat
      BY <2>4, <3>1, JobsAround, OrderAssumption
    <3>3. d \notin Bad
      <4>1. d \in Bad => Order[d] \in Ranked
        OBVIOUS
      <4> HIDE DEF Ranked
      <4> QED
        BY <2>2, <2>3, <3>2, <4>1
    <3>4. d \in Below(w, j)
      BY <1>1, <2>4
    <3> QED
      BY <3>1, <3>3, <3>4
  <2>6. \A d \in Deps(v, x) : d \in Deps(w, x)
    BY <2>4, DepsStay
  <2>7. {Key(w, d) : d \in Deps(w, x)} = {Key(v, d) : d \in Deps(v, x)}
    BY <2>5, <2>6
  <2>8. Slug(w, x) = Slug(v, x) /\ Inputs(w, x) = Inputs(v, x)
    BY <2>4, ContentTells, InputsStay
  <2>9. KeyDoc(Key(w, x)) = KeyDoc(Key(v, x))
    BY <2>4, <2>7, <2>8, KeyAssumption
  <2> QED
    BY <2>4, <2>9 DEF KeysAreHashes
<1> QED
  BY <1>2, WhatIsBelow

\* No edit rebuilds in vain, but for settings that keys hash and builds do not heed:
\* if builds show all that they read, an edit that moves the key of a source tree, a
\* library, a probe, a sysroot or an interpreter that is still asked for changes what
\* building it gives, or moves such a setting of the job or of one below it ("changing
\* one configure flag rebuilds exactly what depends on it", cli/help.go).
THEOREM NoIdleRebuilds ==
  ASSUME NothingOverlooked, BuildsShow, KeysAreHashes
  PROVE  Spec => RebuildsAreNeeded
<1>1. DistInv /\ DistInv' =>
        [\A j \in wanted \cap wanted' :
           Moved(j) => \/ Content(world, j) # Content(world', j)
                       \/ \E d \in Below(world, j) : Ignored(world, d) # Ignored(world', d)]_vars
  BY PlansAreOfJobs, KeyStays DEF DistInv, Asked, Moved
<1> QED
  BY <1>1, DistInvariant, PTL DEF RebuildsAreNeeded
================================================================================
