-------------------------------- MODULE Recipes --------------------------------
(***************************************************************************)
(* The job families of internal/recipe (with sources.SrcTree, gen.StaticAPI*)
(* and ensure.Job): for each, the jobs it depends on, the inputs its key   *)
(* hashes, the inputs its Build reads, and the directory it publishes to.  *)
(*                                                                         *)
(* Everything a person can edit or re-publish is a knob: a version pin, a  *)
(* patch, an asset, a flag list, a toolchain, a constant bumped with the   *)
(* recipe code. A world is the set of knobs that differ from the tree as   *)
(* committed, or, for a table entry that may be absent, that are present.  *)
(* Flags and variants are layered: a knob per layer says that this layer   *)
(* sets the value.                                                         *)
(***************************************************************************)
EXTENDS Integers, Sequences, FiniteSets

CONSTANTS
  Package,     \* packages.toml; each is built from the source of its name
  Needs,       \* [Package -> SUBSET Package]
  AllNeeds,    \* the same, through needs of needs
  Profile,     \* profiles.toml
  Chain,       \* [Profile -> sequence of profiles]: ancestors, root first
  HostBuilt,   \* profiles with toolchain = "host"
  NoPGO,       \* profiles that, where they set pgo, say "off"
  RunsHelpers, \* packages whose make_vars name @BUILD_CC@
  Builds,      \* (build machine, target) pairs, by triple
  CrossTree,   \* the pairs for which the machine has a cross toolchain
  Arms         \* the profiles of the kit

ASSUME NeedsAssumption ==
  /\ Needs \in [Package -> SUBSET Package] /\ AllNeeds \in [Package -> SUBSET Package]
  /\ \A p \in Package :
       AllNeeds[p] = Needs[p] \cup UNION {AllNeeds[n] : n \in Needs[p]}

ASSUME ProfileAssumption ==
  /\ Chain \in [Profile -> Seq(Profile)]
  /\ "bootstrap" \in Profile \ HostBuilt
  /\ Arms \subseteq Profile

Source == {"python"} \cup Package
Host == {b[1] : b \in Builds}
Target == {b[2] : b \in Builds}
Level == {"none", "smoke", "core", "full"}

--------------------------------------------------------------------------------
(* Values of inputs in a world *)

\* Whether knob k is turned, as a value an input can have.
At(w, k) == w \cap {k}

\* The last of a sequence of layers that sets the value.
Winner(w, layers) ==
  LET set == {i \in DOMAIN layers : layers[i] \in w} IN
  IF set = {} THEN {} ELSE {layers[CHOOSE i \in set : \A j \in set : j <= i]}

\* Root-first through the ancestors; in each, the profile's own values before
\* its scopes, so a child overrides even a scope of its parent.
Resolved(w, what, prof, scopes) ==
  LET n == Len(scopes) IN
  Winner(w, [i \in 1..(n * Len(Chain[prof])) |->
               <<what, Chain[prof][1 + ((i - 1) \div n)], scopes[1 + ((i - 1) % n)]>>])

DepScopes(p) == <<"", "deps", p>>
PythonScopes == <<"", "python">>
PyhostScopes == <<"", "pyhost">>

\* What the key of a library hashes of its profile, cflags, cxxflags, ldflags and
\* strip as "flags", and what that of an interpreter does.
ForAll == {"flags", "debug", "lto_mode"}
ForPython ==
  ForAll \cup {"pgo", "profile_task", "test_modules", "modules", "bundle", "lto"}

Settings(w, names, prof, scopes) == [n \in names |-> Resolved(w, n, prof, scopes)]

\* Whether an interpreter that may be trained is: pgo is off unless it is set,
\* but a host-built one is trained unless it is set to "off".
Trains(w, prof) ==
  LET set == Resolved(w, "pgo", prof, PythonScopes) IN
  IF set = {} THEN prof \in HostBuilt ELSE \A k \in set : k[2] \notin NoPGO

\* A field of a package: as written, or as the nearest variant replaces it.
Field(w, what, p, prof) ==
  Winner(w, <<<<what, p, "">>>> \o [i \in 1..Len(Chain[prof]) |-> <<what, p, Chain[prof][i]>>])

\* skip, which the nearest variant that says anything decides.
Skipped(w, p, prof) ==
  Winner(w, [i \in 1..(2 * Len(Chain[prof])) |->
               <<IF i % 2 = 1 THEN "skip" ELSE "keep", p, Chain[prof][1 + ((i - 1) \div 2)]>>])
    \in {{<<"skip", p, Chain[prof][i]>>} : i \in 1..Len(Chain[prof])}

Unskipped(w, prof) == {p \in Package : ~Skipped(w, p, prof)}

Tree(w, tree, h, t) == [tree |-> tree, host |-> h, triple |-> t, key |-> At(w, <<tree, h, t>>)]

\* A cross tree is preferred over a native one of the same triple.
Toolchain(w, h, t) == Tree(w, IF <<h, t>> \in CrossTree THEN "cross" ELSE "native", h, t)
ToolchainNative(w, h) == Tree(w, "native", h, h)
ToolchainHost(w, h) == Tree(w, "host", h, h)
ToolchainFor(w, prof, h, t) ==
  IF prof \in HostBuilt THEN ToolchainHost(w, h) ELSE Toolchain(w, h, t)

Code(w, x) == At(w, <<"code", x>>)
Asset(w, x) == At(w, <<"asset", x>>)
Pin(w, s) == At(w, <<"pin", s>>)
Patches(w, s) == At(w, <<"patches", s>>)
TargetPatches(w, s, t) == At(w, <<"target_patches", s, t>>)

--------------------------------------------------------------------------------
(* Jobs *)

SrcTree(s) == [kind |-> "srctree", source |-> s]
Probe(h, t) == [kind |-> "probe", host |-> h, target |-> t]
PyHost(h) == [kind |-> "pyhost", host |-> h]
StaticAPI(h) == [kind |-> "staticapi", host |-> h]
Dep(f, h, t, p) == [kind |-> "dep", prof |-> f, host |-> h, target |-> t, package |-> p]
Sysroot(f, h, t) == [kind |-> "sysroot", prof |-> f, host |-> h, target |-> t]
PyBuild(f, h, t) == [kind |-> "pybuild", prof |-> f, host |-> h, target |-> t]
PyRef(f, h) == [kind |-> "pyref", prof |-> f, host |-> h, target |-> h]
Verify(f, h, t, l) == [kind |-> "verify", prof |-> f, host |-> h, target |-> t, level |-> l]
Pack(f, h, t, l) == [kind |-> "pack", prof |-> f, host |-> h, target |-> t, level |-> l]
Kit(h, l) == [kind |-> "kit", host |-> h, level |-> l]

\* No caller has to know which of the two shapes it is asking for.
Interpreter(f, h, t) == IF f \in HostBuilt THEN PyRef(f, h) ELSE PyBuild(f, h, t)
InterpreterOf(j) == Interpreter(j.prof, j.host, j.target)

\* A host-built profile compiles for the machine it is on and no other.
Makes(f) == {b \in Builds : f \in HostBuilt => b[1] = b[2]}
Static == Profile \ HostBuilt

Interpreters == UNION {{Interpreter(f, b[1], b[2]) : b \in Makes(f)} : f \in Profile}
Verifications ==
  UNION {{Verify(f, b[1], b[2], l) : b \in Makes(f), l \in Level} : f \in Profile}
Packs == UNION {{Pack(f, b[1], b[2], l) : b \in Makes(f), l \in Level} : f \in Profile}

Job ==
  {SrcTree(s) : s \in Source}
  \cup {Probe(b[1], b[2]) : b \in Builds}
  \cup {PyHost(h) : h \in Host} \cup {StaticAPI(h) : h \in Host}
  \cup {Dep(f, b[1], b[2], p) : f \in Static, b \in Builds, p \in Package}
  \cup {Sysroot(f, b[1], b[2]) : f \in Static, b \in Builds}
  \cup Interpreters \cup Verifications \cup Packs
  \cup {Kit(b[1], l) : b \in {x \in Builds : x[1] = x[2]}, l \in Level}

\* Mutant of Slug: a library is not named after its target.
SlugOfOneTarget(w, j) ==
  CASE j.kind = "dep" -> <<"dep", j.prof, j.package>>
    [] j.kind = "sysroot" -> <<"sysroot", j.prof, j.target>>
    [] OTHER -> <<j.kind, j>>

\* Names of jobs: pyhost, staticapi, dep, sysroot, verify, pack and kit do not
\* name the build machine. A source tree is named after its version.
Slug(w, j) ==
  CASE j.kind = "srctree" -> <<"srctree", j.source, Pin(w, j.source)>>
    [] j.kind = "probe" -> <<"probe", j.target>>
    [] j.kind = "pyhost" -> <<"pyhost", Pin(w, "python")>>
    [] j.kind = "staticapi" -> <<"staticapi", Pin(w, "python")>>
    [] j.kind = "dep" -> <<"dep", j.prof, j.target, j.package>>
    [] j.kind = "sysroot" -> <<"sysroot", j.prof, j.target>>
    [] j.kind = "pybuild" -> IF j.host = j.target THEN <<"pynative", j.prof, j.target>>
                             ELSE <<"pycross", j.prof, j.host, j.target>>
    [] j.kind = "pyref" -> <<"pyref", j.prof, j.target>>
    [] j.kind = "verify" -> <<"verify", j.prof, j.target, j.level>>
    [] j.kind = "pack" -> <<"pack", j.prof, j.target>>
    [] j.kind = "kit" -> <<"kit", j.host>>

\* Where a job publishes: a directory of its name; what comes of a host-built
\* interpreter has the identity of the host compiler in its path.
HostSuffixed(j) ==
  \/ j.kind \in {"pyref", "verify", "pack"} /\ j.prof \in HostBuilt
  \/ j.kind = "kit" /\ Arms \cap HostBuilt # {}

Place(w, j) ==
  <<Slug(w, j), IF HostSuffixed(j) THEN ToolchainHost(w, j.host).key ELSE {}>>

--------------------------------------------------------------------------------
(* Dependencies *)

\* Packages that are skipped do not reach the sysroot, though a dep that needs
\* one still builds it. In a reference build everything happens inside one job,
\* whose dependencies are source trees.
Deps(w, j) ==
  CASE j.kind \in {"srctree", "probe"} -> {}
    [] j.kind = "pyhost" -> {SrcTree("python")}
    [] j.kind = "staticapi" -> {SrcTree("python"), PyHost(j.host)}
    [] j.kind = "dep" -> {SrcTree(j.package)}
                         \cup {Dep(j.prof, j.host, j.target, n) : n \in Needs[j.package]}
    [] j.kind = "sysroot" -> {Dep(j.prof, j.host, j.target, p) : p \in Unskipped(w, j.prof)}
    [] j.kind = "pybuild" -> {SrcTree("python"), Sysroot(j.prof, j.host, j.target),
                              StaticAPI(j.host), Probe(j.host, j.target), PyHost(j.host)}
    [] j.kind = "pyref" -> {SrcTree(s) : s \in {"python"} \cup Unskipped(w, j.prof)}
    [] j.kind = "verify" -> {InterpreterOf(j)}
    [] j.kind = "pack" -> {InterpreterOf(j)} \cup
                          (IF j.level = "none" THEN {}
                           ELSE {Verify(j.prof, j.host, j.target, j.level)})
    [] j.kind = "kit" -> {Pack(f, j.host, j.host, j.level) : f \in Arms}

\* A verification that STATICPY_SKIP_VERIFY switches off looks at nothing.
SkipRequested(w) == <<"skip_verify">> \in w

\* The artifacts a build reads: the headers and libraries of all needs; the
\* links of the sysroot, which lead into the artifacts of the libraries; the
\* interpreter, never the report about it.
Parts(w, j) ==
  CASE j.kind = "dep" -> {SrcTree(j.package)}
                         \cup {Dep(j.prof, j.host, j.target, n) : n \in AllNeeds[j.package]}
    [] j.kind = "pybuild" -> Deps(w, j) \cup Deps(w, Sysroot(j.prof, j.host, j.target))
    [] j.kind = "verify" -> IF SkipRequested(w) THEN {} ELSE {InterpreterOf(j)}
    [] j.kind = "pack" -> {InterpreterOf(j)}
    [] j.kind = "kit" -> {Interpreter(f, j.host, j.host) : f \in Arms}
    [] OTHER -> Deps(w, j)

--------------------------------------------------------------------------------
(* What the keys hash, and what the builds read of the world; what reaches a *)
(* build through an artifact is in its parts                                *)

SrcTreeInputs(w, s) ==
  [version |-> Pin(w, s), patches |-> Patches(w, s), edits |-> At(w, <<"edits", s>>),
   srctree_version |-> Code(w, "srctree")]

ProbeInputs(w, h, t) ==
  [recipe_version |-> Code(w, "recipe"), patcher |-> Asset(w, "patcher"),
   pyconfig_patch |-> At(w, <<"pyconfig", t>>), cross_answers |-> Code(w, "cross_answers"),
   toolchain |-> Toolchain(w, h, t)]

\* Setup.local lists the modules the settings ask for.
SetupLocal(w, names, prof, scopes) == <<Asset(w, "Setup"), Settings(w, names, prof, scopes)>>
Listing == {"modules", "test_modules"}

\* Mutant of PyHostInputs: "nothing else carries the compiler into its key".
PyHostInputsNoToolchain(w, h) ==
  [recipe_version |-> Code(w, "recipe"), python_version |-> Pin(w, "python"),
   setup_local |-> SetupLocal(w, Listing, "bootstrap", PyhostScopes), host |-> h,
   target_patches |-> TargetPatches(w, "python", h),
   profile |-> Settings(w, ForPython, "bootstrap", PyhostScopes)]

PyHostInputs(w, h) ==
  [recipe_version |-> Code(w, "recipe"), python_version |-> Pin(w, "python"),
   setup_local |-> SetupLocal(w, Listing, "bootstrap", PyhostScopes), host |-> h,
   toolchain |-> ToolchainNative(w, h), target_patches |-> TargetPatches(w, "python", h),
   profile |-> Settings(w, ForPython, "bootstrap", PyhostScopes)]

\* The settings a build heeds, of those its key hashes. The bootstrap python is
\* never trained and has no bundle.
PyHostHeeds == {"flags"} \cup Listing

\* The key names the native compiler; newToolenv takes the preferred one.
PyHostUses(w, h) ==
  [code |-> Code(w, "recipe"), setup |-> Asset(w, "Setup"),
   settings |-> Settings(w, PyHostHeeds, "bootstrap", PyhostScopes),
   target_patches |-> TargetPatches(w, "python", h), toolchain |-> Toolchain(w, h, h)]

StaticAPIInputs(w) ==
  [generator_version |-> Code(w, "generator"), driver |-> Asset(w, "dump_stable_abi"),
   symbols_h |-> Asset(w, "symbols.h")]

\* Mutant of DepInputs: "one PGO knob rebuilds openssl on every target".
DepInputsOfPython(w, f, h, t, p) ==
  [package |-> At(w, <<"package", p>>), source |-> <<Pin(w, p), Patches(w, p)>>,
   target_patches |-> TargetPatches(w, p, t), configure |-> Field(w, "configure", p, f),
   profile |-> Settings(w, ForPython, f, DepScopes(p)), toolchain |-> ToolchainFor(w, f, h, t)]

DepInputs(w, f, h, t, p) ==
  [recipe_version |-> Code(w, "recipe"), package |-> At(w, <<"package", p>>),
   source |-> Pin(w, p), patches |-> Patches(w, p),
   target_patches |-> TargetPatches(w, p, t), platform |-> At(w, <<"platform", p, t>>),
   configure |-> Field(w, "configure", p, f),
   profile |-> Settings(w, ForAll, f, DepScopes(p)), toolchain |-> ToolchainFor(w, f, h, t)]

\* lto_mode has a meaning for static archives alone.
DepHeeds(f) == IF f \in HostBuilt THEN {"flags"} ELSE {"flags", "lto_mode"}

\* make gets make_vars, and in them the compiler for helpers that the build runs,
\* which is the machine's native one. The key leaves out both.
DepUses(w, f, h, t, p) ==
  [code |-> Code(w, "recipe"), package |-> At(w, <<"package", p>>),
   target_patches |-> TargetPatches(w, p, t), platform |-> At(w, <<"platform", p, t>>),
   configure |-> Field(w, "configure", p, f), make_vars |-> Field(w, "make_vars", p, f),
   build_cc |-> IF p \in RunsHelpers THEN At(w, <<"native", h, h>>) ELSE {},
   settings |-> Settings(w, DepHeeds(f), f, DepScopes(p)),
   toolchain |-> ToolchainFor(w, f, h, t)]

SysrootInputs(w, f) ==
  [recipe_version |-> Code(w, "recipe"), packages |-> Unskipped(w, f)]

\* The compiler is in none of the inputs of the interpreter: its dependencies'
\* keys cover it.
PyBuildInputs(w, f, h, t) ==
  [recipe_version |-> Code(w, "recipe"), python_version |-> Pin(w, "python"),
   setup_local |-> SetupLocal(w, Listing \cup {"bundle"}, f, PythonScopes),
   target |-> At(w, <<"target", t>>), build |-> h, staticapi_c |-> Asset(w, "staticapi.c"),
   libat_atfork |-> Asset(w, "libat_atfork.c"),
   target_patches |-> TargetPatches(w, "python", t),
   profile |-> Settings(w, ForPython, f, PythonScopes)]

\* Training runs what was just built, which a cross build cannot. All that is made
\* of pgo is whether there is a profile_task to run.
PyBuildHeeds(w, f, h, t) ==
  {"flags", "bundle"} \cup Listing
  \cup (IF h = t /\ Trains(w, f) THEN {"profile_task"} ELSE {})

PyBuildUses(w, f, h, t) ==
  [code |-> Code(w, "recipe"), setup |-> Asset(w, "Setup"),
   settings |-> Settings(w, PyBuildHeeds(w, f, h, t), f, PythonScopes),
   target |-> At(w, <<"target", t>>), build |-> h,
   staticapi_c |-> Asset(w, "staticapi.c"), libat_atfork |-> Asset(w, "libat_atfork.c"),
   target_patches |-> TargetPatches(w, "python", t), toolchain |-> Toolchain(w, h, t)]

\* Every library is built inside this job, so its inputs are this job's inputs.
PyRefInputs(w, f, h) ==
  [recipe_version |-> Code(w, "recipe"), python_version |-> Pin(w, "python"),
   dep |-> [p \in Unskipped(w, f) |-> DepInputs(w, f, h, h, p)],
   profile |-> Settings(w, ForPython, f, PythonScopes), toolchain |-> ToolchainHost(w, h)]

\* CPython's own build chooses the modules of a reference interpreter.
PyRefHeeds(w, f) == {"flags", "lto"} \cup (IF Trains(w, f) THEN {"profile_task"} ELSE {})

\* CPython is patched for its target, which the key leaves out.
PyRefUses(w, f, h) ==
  [code |-> Code(w, "recipe"), toolchain |-> ToolchainHost(w, h),
   settings |-> Settings(w, PyRefHeeds(w, f), f, PythonScopes),
   dep |-> [p \in Unskipped(w, f) |-> DepUses(w, f, h, h, p)],
   target_patches |-> TargetPatches(w, "python", h)]

Runner(h, t) == IF h = t THEN "native" ELSE "qemu"
Tests(w, level) == IF level = "core" THEN Code(w, "CoreTests") ELSE {}

\* Mutant of VerifyInputs: a skipped verification keys like a real one.
VerifyInputsEitherWay(w, h, t, level) ==
  [expect |-> At(w, <<"expect", t, Runner(h, t)>>), checker |-> Code(w, "checker"),
   tests |-> Tests(w, level)]

VerifyInputs(w, h, t, level) ==
  [expect |-> At(w, <<"expect", t, Runner(h, t)>>), checker |-> Code(w, "checker"),
   tests |-> Tests(w, level), skipped |-> At(w, <<"skip_verify">>)]

\* A report of a skipped verification says only that.
VerifyUses(w, h, t, level) ==
  IF SkipRequested(w) THEN [skipped |-> At(w, <<"skip_verify">>)] ELSE VerifyInputs(w, h, t, level)

PackInputs(w) ==
  [recipe_version |-> Code(w, "recipe"), pack_version |-> Code(w, "pack"),
   python_version |-> Pin(w, "python")]

KitInputs(w) ==
  [recipe_version |-> Code(w, "recipe"), kit_version |-> Code(w, "kit"),
   baseline |-> At(w, <<"baseline">>), python_version |-> Pin(w, "python"),
   git_revision |-> Code(w, "git_revision"), vendor |-> At(w, <<"vendor">>)]

\* What kit.json says of an arm.
Factors(w, f) ==
  [settings |-> Settings(w, {"flags", "lto_mode", "lto", "pgo"}, f, PythonScopes),
   mimalloc |-> Unskipped(w, f) \cap {"mimalloc"}]

\* It also records the pins of the suite and the ABI of the target, which the key
\* leaves out.
KitUses(w, h) ==
  [key |-> KitInputs(w), pins |-> At(w, <<"pins">>), abi |-> At(w, <<"abi", h>>),
   factors |-> [f \in Arms |-> Factors(w, f)]]

Inputs(w, j) ==
  CASE j.kind = "srctree" -> SrcTreeInputs(w, j.source)
    [] j.kind = "probe" -> ProbeInputs(w, j.host, j.target)
    [] j.kind = "pyhost" -> PyHostInputs(w, j.host)
    [] j.kind = "staticapi" -> StaticAPIInputs(w)
    [] j.kind = "dep" -> DepInputs(w, j.prof, j.host, j.target, j.package)
    [] j.kind = "sysroot" -> SysrootInputs(w, j.prof)
    [] j.kind = "pybuild" -> PyBuildInputs(w, j.prof, j.host, j.target)
    [] j.kind = "pyref" -> PyRefInputs(w, j.prof, j.host)
    [] j.kind = "verify" -> VerifyInputs(w, j.host, j.target, j.level)
    [] j.kind = "pack" -> PackInputs(w)
    [] j.kind = "kit" -> KitInputs(w)

Uses(w, j) ==
  CASE j.kind = "pyhost" -> PyHostUses(w, j.host)
    [] j.kind = "dep" -> DepUses(w, j.prof, j.host, j.target, j.package)
    [] j.kind = "pybuild" -> PyBuildUses(w, j.prof, j.host, j.target)
    [] j.kind = "pyref" -> PyRefUses(w, j.prof, j.host)
    [] j.kind = "verify" -> VerifyUses(w, j.host, j.target, j.level)
    [] j.kind = "kit" -> KitUses(w, j.host)
    [] OTHER -> Inputs(w, j)

\* The settings that a key hashes and the build does not heed. A reference build
\* has those of the libraries in it too.
Ignored(w, j) ==
  CASE j.kind = "pyhost" ->
         Settings(w, ForPython \ PyHostHeeds, "bootstrap", PyhostScopes)
    [] j.kind = "dep" ->
         Settings(w, ForAll \ DepHeeds(j.prof), j.prof, DepScopes(j.package))
    [] j.kind = "pybuild" ->
         Settings(w, ForPython \ PyBuildHeeds(w, j.prof, j.host, j.target), j.prof, PythonScopes)
    [] j.kind = "pyref" ->
         [own |-> Settings(w, ForPython \ PyRefHeeds(w, j.prof), j.prof, PythonScopes),
          dep |-> [p \in Unskipped(w, j.prof) |->
                     Settings(w, ForAll \ DepHeeds(j.prof), j.prof, DepScopes(p))]]
    [] OTHER -> <<>>
================================================================================
