--------------------------------- MODULE Config --------------------------------
(***************************************************************************)
(* The configuration: TOML files are stacked entry by entry (load.go),     *)
(* checked once (validate.go) and then resolved for a profile and a scope  *)
(* by whoever plans a build (resolve.go, recipe/dep.go, recipe/cpython.go, *)
(* recipe/pyref.go).                                                       *)
(*                                                                         *)
(* A table is a function from entry names to entries.  An entry keeps what *)
(* other entries or a consumer can be wrong about; `bad' is the set of its *)
(* own fields that are missing or malformed.  A scope is a tuple, <<"deps">>,*)
(* <<"deps", pkg>>, <<"python">> or <<"pyhost">>; anything else is a typo.  *)
(***************************************************************************)
EXTENDS Integers, FiniteSets, SequencesExt, Maps

CONSTANTS
  EmbeddedFiles,   \* the sequence of files compiled into the binary
  Overlays,        \* the --config directories: sequences of files, <<>> is none
  SourcesFiles,    \* the copies of sources.toml: the embedded one, --sources-dir
  Hosts,           \* the triples of the build machines
  Toolchains,      \* what is provisioned: pairs of a triple and "cross" or "native"
  Fragments        \* the triples for which the binary has a pyconfig fragment

\* The zero value of a string: a key that no file sets, a profile that has no
\* parent.
Unset == ""

\* Of the set of lists that a layer sets there is at most one.
LayerShape(l) ==
  /\ {l.add, l.drop} \cup l.set \subseteq Seq(STRING) /\ \A one, other \in l.set : one = other
  /\ {l.bundle, l.ltoMode, l.toolchain} \subseteq STRING

TablesShape(c) ==
  /\ c.source = [n \in DOMAIN c.source |-> c.source[n]]
  /\ IsFiniteSet(DOMAIN c.package) /\ IsFiniteSet(DOMAIN c.profile)
  /\ \A p \in DOMAIN c.profile :
       LayerShape(c.profile[p].own)
       /\ \A s \in DOMAIN c.profile[p].scopes : LayerShape(c.profile[p].scopes[s])

ConfigFiles == ToSet(EmbeddedFiles) \cup SourcesFiles \cup UNION {ToSet(dir) : dir \in Overlays}

\* Tables are finite maps, and pyhost's profile is a shipped one.
ASSUME FilesAssumption ==
  /\ {EmbeddedFiles} \cup Overlays \subseteq Seq(ConfigFiles)
  /\ \A f \in ConfigFiles : TablesShape(f.tables)
  /\ \E f \in ToSet(EmbeddedFiles) : f.name # "sources.toml" /\ "bootstrap" \in DOMAIN f.tables.profile

VARIABLES
  stage,           \* idle, reading, loaded, refused, planned
  files,           \* the files that Load has still to merge
  config,          \* the Config that Load fills
  overlay,         \* the --config directory of this command
  outcome          \* what became of the plan: none, planned, refused or hollow

configVars == <<stage, files, config, overlay, outcome>>

NoTables == [source |-> <<>>, package |-> <<>>, target |-> <<>>, profile |-> <<>>, bundle |-> <<>>,
             pkg |-> <<>>, expect |-> <<>>, kit |-> <<>>, pins |-> "unset", vendor |-> {}]

\* `set' holds the list that the layer sets, if it sets one.
NoLayer == [set |-> {}, drop |-> <<>>, add |-> <<>>, pgo |-> Unset, modules |-> Unset,
            bundle |-> Unset, ltoMode |-> Unset, toolchain |-> Unset]

--------------------------------------------------------------------------------
(* Resolution.                                                             *)

\* The n-th ancestor of a profile, Unset above the root.
Ancestor(c, p) ==
  LET up[n \in 0..Cardinality(DOMAIN c.profile)] ==
        IF n = 0 THEN p
        ELSE IF up[n - 1] \in DOMAIN c.profile THEN c.profile[up[n - 1]].inherit ELSE Unset
  IN  up

Generations(c) == 0..Cardinality(DOMAIN c.profile)

\* The walk towards the root must end, and every name on it must be defined.
ChainOk(c, p) ==
  /\ p \in DOMAIN c.profile
  /\ \A n \in Generations(c) : Ancestor(c, p)[n] # Unset => Ancestor(c, p)[n] \in DOMAIN c.profile
  /\ \E n \in Generations(c) : Ancestor(c, p)[n] = Unset

\* The ancestors of a profile, the root first.
Chain(c, p) ==
  LET length == Min({n \in Generations(c) : Ancestor(c, p)[n] = Unset})
  IN  [i \in 1..length |-> Ancestor(c, p)[length - i]]

ScopeOk(s) ==
  \/ s \in {<<"deps">>, <<"python">>, <<"pyhost">>}
  \/ Len(s) = 2 /\ s[1] = "deps" /\ s[2] # Unset

\* The layers of one profile, the widest first, and those of its ancestors before.
Spelled(prof, s) == IF s \in DOMAIN prof.scopes THEN <<prof.scopes[s]>> ELSE <<>>
OwnLayers(prof, s) ==
  <<prof.own>> \o (IF Len(s) = 2 THEN Spelled(prof, <<"deps">>) ELSE <<>>) \o Spelled(prof, s)

LayersOf(c, p, s) ==
  LET chain == Chain(c, p)
  IN  FlattenSeq([i \in 1..Len(chain) |-> OwnLayers(c.profile[chain[i]], s)])

\* remove: each flag to drop must be there, and all its occurrences go.
Removable(list, drop) == ToSet(drop) \subseteq ToSet(list) /\ Cardinality(ToSet(drop)) = Len(drop)
Without(list, drop) ==
  LET out[i \in 0..Len(list)] ==
        IF i = 0 THEN <<>> ELSE IF list[i] \in ToSet(drop) THEN out[i - 1] ELSE Append(out[i - 1], list[i])
  IN  out[Len(list)]

Override(old, new) == IF new = Unset THEN old ELSE new

Overridden(r, l, base, flags) ==
  [err |-> IF r.err = "none" /\ ~Removable(base, l.drop) THEN "removal" ELSE r.err,
   flags |-> flags, bundle |-> Override(r.bundle, l.bundle),
   ltoMode |-> Override(r.ltoMode, l.ltoMode), toolchain |-> Override(r.toolchain, l.toolchain)]

BaseOf(r, l) == IF l.set = {} THEN r.flags ELSE CHOOSE list \in l.set : TRUE

\* Slip: what is added can be removed by the same layer.
ApplyAddsFirst(r, l) ==
  LET base == BaseOf(r, l) \o l.add IN Overridden(r, l, base, Without(base, l.drop))

Apply(r, l) ==
  LET base == BaseOf(r, l) IN Overridden(r, l, base, Without(base, l.drop) \o l.add)

Unresolved == [err |-> "none", flags |-> <<>>, bundle |-> Unset, ltoMode |-> Unset, toolchain |-> "provisioned"]

Applied(layers) ==
  LET after[i \in 0..Len(layers)] == IF i = 0 THEN Unresolved ELSE Apply(after[i - 1], layers[i])
  IN  after[Len(layers)]

Resolve(c, p, s) ==
  IF ChainOk(c, p) /\ ScopeOk(s) THEN Applied(LayersOf(c, p, s)) ELSE [Unresolved EXCEPT !.err = "unknown"]

Resolves(c, p, s) == Resolve(c, p, s).err = "none"

HostBuilt(r) == r.toolchain = "host"

\* The last variant along the chain that has a say in skipping the package.
PackageSkipped(c, n, p) ==
  LET saying == SelectSeq(Chain(c, p), LAMBDA q : /\ q \in DOMAIN c.package[n].variants
                                                  /\ c.package[n].variants[q] \in {"skip", "unskip"})
  IN  saying # <<>> /\ c.package[n].variants[Last(saying)] = "skip"

--------------------------------------------------------------------------------
(* Validation.                                                             *)

ValidSources(c) ==
  \A n \in DOMAIN c.source :
    /\ c.source[n].bad = {}
    /\ \A t \in DOMAIN c.source[n].targetPatches :
         t \in DOMAIN c.target /\ c.source[n].targetPatches[t] # {}

ValidTargets(c) == \A t \in DOMAIN c.target : c.target[t].bad = {}

SourceOf(c, n) == IF c.package[n].source = Unset THEN n ELSE c.package[n].source

ValidPackages(c) ==
  \A n \in DOMAIN c.package :
    LET p == c.package[n]
    IN  /\ p.bad = {}
        /\ SourceOf(c, n) \in DOMAIN c.source
        /\ p.build \in {Unset, "autotools", "openssl", "sources", "make"}
        /\ (p.build = "sources") = p.filesListed
        /\ p.needs \subseteq DOMAIN c.package
        /\ \A q \in DOMAIN p.variants : q \in DOMAIN c.profile /\ p.variants[q] # "nothing"
        /\ p.platformMap # Unset => \A t \in DOMAIN c.target : p.platformMap \in c.target[t].maps

AbsoluteFlags == {"-I/usr/include"}

NamedFlags(l) == ToSet(l.add) \cup ToSet(l.drop) \cup UNION {ToSet(list) : list \in l.set}

ValidLayer(c, l) ==
  /\ l.pgo \in {Unset, "off", "native-only", "on"}
  /\ l.ltoMode \in {Unset, "per-dep", "whole-graph"}
  /\ l.modules \in {Unset, "minimal", "full"}
  /\ l.bundle # Unset => l.bundle \in DOMAIN c.bundle
  /\ NamedFlags(l) \cap AbsoluteFlags = {}

\* Slip: no package's scope is resolved at load.
GeneralScopes(c, p) == {<<"deps">>, <<"python">>, <<"pyhost">>}

\* The scopes that are resolved at load: the three general ones, and those of
\* single packages that the profile itself spells.
ScopesTried(c, p) ==
  {<<"deps">>, <<"python">>, <<"pyhost">>} \cup {s \in DOMAIN c.profile[p].scopes : Len(s) = 2}

ValidProfiles(c) ==
  \A p \in DOMAIN c.profile :
    LET prof == c.profile[p]
    IN  /\ prof.own.toolchain \in {Unset, "provisioned", "host"}
        /\ ValidLayer(c, prof.own)
        /\ \A s \in DOMAIN prof.scopes :
             /\ ScopeOk(s) /\ (Len(s) = 2 => s[2] \in DOMAIN c.package)
             /\ ValidLayer(c, prof.scopes[s])
        /\ \A s \in ScopesTried(c, p) :
             /\ Resolves(c, p, s)
             /\ s = <<"deps">> =>
                  Resolve(c, p, s).ltoMode = Unset \/ ~HostBuilt(Resolve(c, p, s))

ValidPyPackages(c) ==
  \A n \in DOMAIN c.pkg : c.pkg[n].bad = {} /\ c.pkg[n].needs \subseteq DOMAIN c.package

ValidBundles(c) == \A b \in DOMAIN c.bundle : c.bundle[b] \subseteq DOMAIN c.pkg

\* An expectation is keyed by a scope or a triple, perhaps narrowed to a runner.
ValidExpect(c) ==
  \A k \in DOMAIN c.expect :
    /\ k[1] \in {"all", "static", "native", "qemu"} \cup DOMAIN c.target
    /\ k[2] \in {Unset, "native", "qemu"}

ValidBench(c) == c.pins = "pinned"

ValidKits(c) ==
  /\ DOMAIN c.kit # {} => {"pyperformance", "pyperf", "setuptools"} \subseteq c.vendor
  /\ \A k \in DOMAIN c.kit :
       LET arms == c.kit[k].arms
       IN  /\ arms # <<>>
           /\ ToSet(arms) \subseteq DOMAIN c.profile
           /\ Cardinality(ToSet(arms)) = Len(arms)
           /\ Contains(arms, c.kit[k].baseline)

Validate(c) ==
  /\ ValidSources(c) /\ ValidTargets(c) /\ ValidPackages(c) /\ ValidProfiles(c)
  /\ ValidPyPackages(c) /\ ValidBundles(c) /\ ValidExpect(c)
  /\ ValidBench(c) /\ ValidKits(c)

--------------------------------------------------------------------------------
(* Load.                                                                   *)

Load(dir, sources) ==
  /\ stage = "idle"
  /\ stage' = "reading"
  /\ overlay' = dir
  /\ files' = EmbeddedFiles \o dir \o <<sources>>
  /\ UNCHANGED <<config, outcome>>

\* sources.toml is read from one place only and last, wherever another may lie.
PassedOver == Len(files) > 1 /\ Head(files).name = "sources.toml"

FileOk(f) ==
  /\ ~f.unknownKey
  /\ DOMAIN f.tables.source # {} => f.name = "sources.toml"
  /\ \A p \in DOMAIN f.tables.profile : \A s \in DOMAIN f.tables.profile[p].scopes :
       s[1] \in {"deps", "python", "pyhost"}

\* mergeFile: an entry replaces the whole entry of its name.
Merged(c, new) ==
  [source |-> Over(new.source, c.source), package |-> Over(new.package, c.package),
   target |-> Over(new.target, c.target), profile |-> Over(new.profile, c.profile),
   bundle |-> Over(new.bundle, c.bundle), pkg |-> Over(new.pkg, c.pkg),
   expect |-> Over(new.expect, c.expect), kit |-> Over(new.kit, c.kit),
   pins |-> IF new.pins = "unset" THEN c.pins ELSE new.pins,
   vendor |-> IF new.pins = "unset" THEN c.vendor ELSE new.vendor]

MergeFile ==
  /\ stage = "reading" /\ files # <<>>
  /\ stage' = IF PassedOver \/ FileOk(Head(files)) THEN "reading" ELSE "refused"
  /\ config' = IF ~PassedOver /\ FileOk(Head(files)) THEN Merged(config, Head(files).tables) ELSE config
  /\ files' = Tail(files)
  /\ UNCHANGED <<overlay, outcome>>

EndLoad ==
  /\ stage = "reading" /\ files = <<>>
  /\ stage' = IF Validate(config) THEN "loaded" ELSE "refused"
  /\ UNCHANGED <<files, config, overlay, outcome>>

--------------------------------------------------------------------------------
(* What plans make of it.                                                  *)

\* All that the jobs of these packages need in the end.
NeedsClosure(c, roots) ==
  LET grow[n \in 0..Cardinality(DOMAIN c.package)] ==
        IF n = 0 THEN roots
        ELSE grow[n - 1] \cup UNION {c.package[m].needs : m \in grow[n - 1] \cap DOMAIN c.package}
  IN  grow[Cardinality(DOMAIN c.package)]

NeedsItself(c, n) == n \in NeedsClosure(c, c.package[n].needs)

Wanted(c, p) == NeedsClosure(c, {n \in DOMAIN c.package : ~PackageSkipped(c, n, p)})

\* Patch files lie beside the sources.toml that lists them; `files' are those
\* that can be read there.
TargetPatches(s, t) == IF t \in DOMAIN s.targetPatches THEN s.targetPatches[t] ELSE {}
PatchesRead(s, t) == s.patches \cup TargetPatches(s, t) \subseteq s.files

HasToolchain(r, t) == HostBuilt(r) \/ \E k \in {"cross", "native"} : <<t, k>> \in Toolchains

DepRefused(c, p, t, n) ==
  \/ n \notin DOMAIN c.package
  \/ NeedsItself(c, n)
  \/ ~Resolves(c, p, <<"deps", n>>)
  \/ ~HasToolchain(Resolve(c, p, <<"deps", n>>), t)
  \/ SourceOf(c, n) \in DOMAIN c.source /\ ~PatchesRead(c.source[SourceOf(c, n)], t)

\* depBuilder.job for every package of the profile: refused where the code
\* returns an error, hollow where a lookup gives the zero value of its map.
DepsOutcome(c, p, t) ==
  IF \E n \in Wanted(c, p) : DepRefused(c, p, t, n) THEN "refused"
  ELSE IF \E n \in Wanted(c, p) : \/ SourceOf(c, n) \notin DOMAIN c.source
                                  \/ /\ c.package[n].platformMap # Unset
                                     /\ c.package[n].platformMap \notin c.target[t].maps
  THEN "hollow" ELSE "planned"

\* moduleLine: a module has a name that makesetup can give a builtin and sources,
\* and makesetup splits at blanks.
ModuleLine(m) == m.identifier /\ m.sources # {} /\ m.blanks = {}

BundleOk(c, b) ==
  b # Unset => /\ b \in DOMAIN c.bundle
               /\ \A n \in c.bundle[b] : n \in DOMAIN c.pkg /\ \A m \in c.pkg[n].modules : ModuleLine(m)

\* PyHost.
PyHostOk(c, host) ==
  /\ Resolves(c, "bootstrap", <<"pyhost">>)
  /\ <<host, "native">> \in Toolchains
  /\ TargetPatches(c.source["python"], host) \subseteq c.source["python"].files

\* newPyBuild up to its sysroot's packages.
PyBuildOk(c, p, host, t, bundle) ==
  /\ BundleOk(c, bundle)
  /\ PyHostOk(c, host)
  /\ Wanted(c, p) # {}
  /\ HasToolchain(Resolve(c, p, <<"python">>), t) /\ t \in Fragments
  /\ TargetPatches(c.source["python"], t) \subseteq c.source["python"].files

\* Interpreter, with PyRef for a host-built profile and newPyBuild for the rest;
\* --bundle overrides the profile's.
PlanOutcome(c, p, host, t, b) ==
  LET python == Resolve(c, p, <<"python">>)
  IN  IF \/ python.err # "none" \/ "python" \notin DOMAIN c.source
         \/ HostBuilt(python) /\ host # t
         \/ ~HostBuilt(python) /\ ~PyBuildOk(c, p, host, t, Override(python.bundle, b))
      THEN "refused" ELSE DepsOutcome(c, p, t)

\* The names that the command gives are in the tables.
Plan(p, host, t, b) ==
  /\ stage = "loaded" /\ {host, t} \subseteq DOMAIN config.target
  /\ stage' = "planned"
  /\ outcome' = [what |-> PlanOutcome(config, p, host, t, b),
                 profile |-> p, host |-> host, target |-> t, bundle |-> b]
  /\ UNCHANGED <<files, config, overlay>>

NoOutcome == [what |-> "none", profile |-> Unset, host |-> Unset, target |-> Unset, bundle |-> Unset]

ConfigInit ==
  /\ stage = "idle" /\ files = <<>> /\ config = NoTables
  /\ overlay = <<>> /\ outcome = NoOutcome

ConfigNext ==
  \/ \E dir \in Overlays, s \in SourcesFiles : Load(dir, s)
  \/ MergeFile
  \/ EndLoad
  \/ \E p \in DOMAIN config.profile, host \in Hosts, t \in DOMAIN config.target :
       \E b \in {Unset} \cup DOMAIN config.bundle : Plan(p, host, t, b)

ConfigSpec == ConfigInit /\ [][ConfigNext]_configVars

--------------------------------------------------------------------------------
(* Properties.                                                             *)

\* The tables of Load and what a command may have reached.
ConfigTypeOK ==
  /\ stage \in {"idle", "reading", "loaded", "refused", "planned"}
  /\ DOMAIN config = DOMAIN NoTables
  /\ (stage = "planned") = (outcome.what \in {"planned", "refused", "hollow"})

\* Load resolves every scope so that a plan cannot fail on one later
\* (validateProfiles, "fails at load rather than hours later"): no plan from a
\* loaded configuration is refused, but for a host-built profile asked for
\* another machine.  The code does not keep this.
LoadedConfigPlans ==
  (stage = "planned" /\ outcome.what # "planned")
     => HostBuilt(Resolve(config, outcome.profile, <<"python">>)) /\ outcome.host # outcome.target

\* What a plan needs beside the tables: toolchains, the pyconfig fragment of its
\* target, and the patch files that the sources it builds from list.
LacksInputs(c, o) ==
  \/ <<o.host, "native">> \notin Toolchains
  \/ \A k \in {"cross", "native"} : <<o.target, k>> \notin Toolchains
  \/ o.target \notin Fragments
  \/ \E t \in {o.host, o.target} : ~(TargetPatches(c.source["python"], t) \subseteq c.source["python"].files)
  \/ \E n \in Wanted(c, o.profile) :
       SourceOf(c, n) \in DOMAIN c.source /\ ~PatchesRead(c.source[SourceOf(c, n)], o.target)

\* What Validate does not try: whether the needs of packages form a cycle, a
\* profile builds any, one has an empty name, the modules of a bundle make lines of
\* Setup, a package's scope resolves in a profile that inherits it.
Untried(c, o) ==
  LET p == o.profile
  IN  \/ Wanted(c, p) = {}
      \/ \E n \in Wanted(c, p) :
           \/ NeedsItself(c, n) \/ n = Unset
           \/ /\ ~Resolves(c, p, <<"deps", n>>)
              /\ <<"deps", n>> \notin DOMAIN c.profile[p].scopes
              /\ \E q \in ToSet(Chain(c, p)) \ {p} : <<"deps", n>> \in DOMAIN c.profile[q].scopes
      \/ LET b == Override(Resolve(c, p, <<"python">>).bundle, o.bundle)
         IN  b # Unset /\ \E n \in c.bundle[b] : \E m \in c.pkg[n].modules : ~ModuleLine(m)

\* What is left of it: a plan never goes on with an entry that is absent, and is
\* refused only for a host-built profile on another machine, a sources.toml without
\* Python (pythonSource), inputs that are not there or a mistake of the listed kinds.
\* Never for a name that the tables lack, nor for a scope that the profile spells.
LateFailuresAreKnown ==
  (stage = "planned" /\ outcome.what # "planned") =>
     /\ outcome.what = "refused"
     /\ \/ HostBuilt(Resolve(config, outcome.profile, <<"python">>)) /\ outcome.host # outcome.target
        \/ "python" \notin DOMAIN config.source
        \/ LacksInputs(config, outcome)
        \/ Untried(config, outcome)

\* A flag is in the resolved list exactly when the last layer that speaks of it
\* puts it there (apply and remove against a definition without their order):
\* a removal is final until a narrower layer brings the flag back.
LastWordWins ==
  stage = "loaded" =>
    \A p \in DOMAIN config.profile : \A s \in ScopesTried(config, p) :
      LET layers == LayersOf(config, p, s)
          flags  == ToSet(Resolve(config, p, s).flags)
          Puts(i, f) == \/ Contains(layers[i].add, f)
                        \/ /\ \E list \in layers[i].set : Contains(list, f)
                           /\ ~Contains(layers[i].drop, f)
          Takes(i, f) == Contains(layers[i].drop, f) \/ layers[i].set # {}
      IN  \A f \in UNION {NamedFlags(layers[i]) : i \in DOMAIN layers} :
            f \in flags <=>
            \E i \in DOMAIN layers : Puts(i, f) /\ \A k \in DOMAIN layers : k > i => ~Takes(k, f)

\* No --config directory can redefine a pinned source (Options.SourcesDir): what
\* Load has of sources is what the one sources.toml says.
PinsAreNotOverlaid ==
  LET pins == {f.tables.source : f \in SourcesFiles}
  IN  /\ stage \in {"loaded", "planned"} => config.source \in pins
      /\ stage = "reading" /\ files # <<>> => config.source = <<>>

\* The tables of a loaded configuration, the lists it resolves and its pins are
\* what its files say, layer by layer.
LayersAreKept == ConfigTypeOK /\ LastWordWins /\ PinsAreNotOverlaid
================================================================================
