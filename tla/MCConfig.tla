-------------------------------- MODULE MCConfig -------------------------------
(***************************************************************************)
(* Instances of Config for TLC: the shipped defaults in small, and --config *)
(* directories that each change something, mostly by mistake.               *)
(***************************************************************************)
EXTENDS Config, TLC

NoProfile == [inherit |-> "", own |-> NoLayer, scopes |-> <<>>]
Setting(l) == [NoProfile EXCEPT !.own = l]
Child(q, l) == [NoProfile EXCEPT !.inherit = q, !.own = l]
Sets(s) == [NoLayer EXCEPT !.set = {s}]
Drops(s) == [NoLayer EXCEPT !.drop = s]
Adds(s) == [NoLayer EXCEPT !.add = s]
Scoped(p, s, l) == [p EXCEPT !.scopes = (s :> l) @@ @]

\* config/defaults, with one flag for the optimisation level and one for LTO.
Mimalloc == <<"deps", "mimalloc">>
ShippedProfiles ==
  [default    |-> Scoped(Setting(Sets(<<"O3", "lto">>)), Mimalloc, Drops(<<"lto">>)),
   nolto      |-> Scoped(Child("default", NoLayer), <<"python">>, Drops(<<"lto">>)),
   bootstrap  |-> Child("default", Drops(<<"lto">>)),
   nomimalloc |-> Child("default", NoLayer),
   reference  |-> Setting([Sets(<<"O3">>) EXCEPT !.toolchain = "host"])]

NoPackage == [bad |-> {}, source |-> "", build |-> "", filesListed |-> FALSE, needs |-> {},
              platformMap |-> "", variants |-> <<>>]
ShippedPackages ==
  [zlib     |-> NoPackage,
   ssl      |-> [NoPackage EXCEPT !.platformMap = "openssl", !.needs = {"zlib"}],
   mimalloc |-> [NoPackage EXCEPT !.build = "sources", !.filesListed = TRUE,
                                  !.variants = [nomimalloc |-> "skip", reference |-> "skip"]]]

NoSource == [bad |-> {}, patches |-> {}, targetPatches |-> <<>>, files |-> {}]
ShippedSources ==
  [python |-> [NoSource EXCEPT !.targetPatches = [ppc |-> {"atomics.patch"}], !.files = {"atomics.patch"}],
   zlib |-> NoSource, ssl |-> [NoSource EXCEPT !.patches = {"asm.patch"}, !.files = {"asm.patch"}],
   mimalloc |-> NoSource]

GoodTarget == [bad |-> {}, maps |-> {"openssl"}]
ShippedToolchains == {<<"x86", "native">>, <<"ppc", "cross">>}

\* A bundle of one package with one module, well made or with a mistake.
GoodModule == [identifier |-> TRUE, sources |-> {"speedups.c"}, blanks |-> {}]
MarkupSafe == [bad |-> {}, needs |-> {}, modules |-> {GoodModule}]
WithModule(m) == [bundle |-> [web |-> {"markupsafe"}, none |-> {}],
                  pkg |-> [markupsafe |-> [MarkupSafe EXCEPT !.modules = {GoodModule, m}]]]
ShippedExpect == (<<"all", "">> :> {"test_gdb"}) @@ (<<"ppc", "qemu">> :> {"test_time"})

Empty == [NoTables EXCEPT !.pins = "unset"]
File(n, tables) == [name |-> n, unknownKey |-> FALSE, tables |-> tables]
ShippedFiles ==
  <<File("bench.toml", [Empty EXCEPT !.pins = "pinned", !.vendor = {"pyperformance", "pyperf", "setuptools"},
                                     !.kit = [abc |-> [arms |-> <<"default", "reference">>, baseline |-> "default"]]]),
    File("bundles.toml", [Empty EXCEPT !.bundle = [web |-> {"markupsafe"}], !.pkg = [markupsafe |-> MarkupSafe]]),
    File("packages.toml", [Empty EXCEPT !.package = ShippedPackages]),
    File("profiles.toml", [Empty EXCEPT !.profile = ShippedProfiles]),
    File("sources.toml", [Empty EXCEPT !.source = ShippedSources]),
    File("targets.toml", [Empty EXCEPT !.target = [x86 |-> GoodTarget, ppc |-> GoodTarget]]),
    File("tests.toml", [Empty EXCEPT !.expect = ShippedExpect])>>
ShippedSourcesFiles == {ShippedFiles[5]}

\* sources.toml of --sources-dir: one without a pin, without a tarball that a package
\* names, without Python, or after a new version whose patches stayed behind.
OtherSourcesFiles ==
  ShippedSourcesFiles \cup
  {File("sources.toml", [Empty EXCEPT !.source = t]) :
     t \in {[ShippedSources EXCEPT !["python"].bad = {"sha256"}],
           [python |-> NoSource, zlib |-> NoSource],
           [zlib |-> NoSource, ssl |-> NoSource, mimalloc |-> NoSource],
           [ShippedSources EXCEPT !["python"].files = {}],
           [ShippedSources EXCEPT !["ssl"].files = {}]}}

NoOverlay == {<<>>}

One(n, tables) == {<<File(n, tables)>>}
Profiled(n, p) == One("profiles.toml", [Empty EXCEPT !.profile = n :> p])
Packaged(n, p) == One("packages.toml", [Empty EXCEPT !.package = n :> p])

\* A profile of one's own: below one of the shipped, with flags of its own and
\* with a scope of its own.
SomeLayers ==
  {NoLayer, Sets(<<>>), Drops(<<"lto", "O3">>),
   Adds(<<"lto">>), [Drops(<<"O3">>) EXCEPT !.add = <<"g", "O3">>],
   [Sets(<<"O3", "lto", "O3">>) EXCEPT !.drop = <<"O3">>]}
\* The layers of that scope are those that a list of flags can tell apart.
ScopeLayers ==
  {Drops(<<"lto", "O3">>), [Drops(<<"O3">>) EXCEPT !.add = <<"g", "O3">>],
   [Sets(<<"O3", "lto", "O3">>) EXCEPT !.drop = <<"O3">>]}
OwnProfiles ==
  UNION {Profiled("mine", Scoped(Child(q, l), s, m)) :
           q \in {"", "default", "nolto"}, l \in SomeLayers,
           s \in {<<"python">>, <<"deps">>, Mimalloc}, m \in ScopeLayers}

ProfileMistakes ==
  Profiled("mine", Child("gone", NoLayer)) \cup Profiled("default", Child("nolto", NoLayer))
  \cup Profiled("mine", Child("mine", NoLayer))
  \cup Profiled("mine", Setting([NoLayer EXCEPT !.pgo = "maybe"]))
  \cup Profiled("mine", Setting([NoLayer EXCEPT !.bundle = "gone"]))
  \cup Profiled("mine", Setting([NoLayer EXCEPT !.bundle = "web"]))
  \cup Profiled("mine", Setting([NoLayer EXCEPT !.toolchain = "cross"]))
  \cup Profiled("mine", Child("reference", [NoLayer EXCEPT !.ltoMode = "per-dep"]))
  \cup Profiled("mine", Setting(Sets(<<"-I/usr/include">>)))
  \cup Profiled("mine", Scoped(NoProfile, <<"tests">>, NoLayer))
  \cup Profiled("mine", Scoped(NoProfile, <<"deps", "gone">>, NoLayer))
  \cup Profiled("bootstrap", NoProfile)

PackageMistakes ==
  Packaged("zlib", [NoPackage EXCEPT !.needs = {"gone"}]) \cup Packaged("zlib", [NoPackage EXCEPT !.needs = {"ssl"}])
  \cup Packaged("zlib", [NoPackage EXCEPT !.source = "gone"]) \cup Packaged("zlib", [NoPackage EXCEPT !.build = "cmake"])
  \cup Packaged("zlib", [NoPackage EXCEPT !.build = "sources"]) \cup Packaged("zlib", [NoPackage EXCEPT !.bad = {"name"}])
  \cup Packaged("zlib", [NoPackage EXCEPT !.platformMap = "gone"]) \cup Packaged("", [NoPackage EXCEPT !.source = "zlib"])
  \cup Packaged("zlib", [NoPackage EXCEPT !.variants = [gone |-> "skip"]])
  \cup Packaged("zlib", [NoPackage EXCEPT !.variants = [default |-> "nothing"]])
  \cup Packaged("zlib", [NoPackage EXCEPT !.variants = [default |-> "skip", nolto |-> "unskip"]])
  \cup Packaged("mimalloc", [ShippedPackages.mimalloc EXCEPT !.variants = [bootstrap |-> "skip"]])
  \cup {<<File("packages.toml", [Empty EXCEPT !.package =
            [n \in {"zlib", "ssl", "mimalloc"} |-> [NoPackage EXCEPT !.variants = [nolto |-> "skip"]]]])>>}

OtherMistakes ==
  One("sources.toml", [Empty EXCEPT !.source = [python |-> NoSource]])
  \cup One("pins.toml", [Empty EXCEPT !.source = [python |-> NoSource]])
  \cup {<<[File("targets.toml", Empty) EXCEPT !.unknownKey = TRUE]>>}
  \cup One("targets.toml", [Empty EXCEPT !.target = [arm |-> [GoodTarget EXCEPT !.maps = {}]]])
  \cup One("targets.toml", [Empty EXCEPT !.target = [arm |-> [GoodTarget EXCEPT !.bad = {"bits"}]]])
  \cup One("bundles.toml", [Empty EXCEPT !.bundle = [web |-> {"gone"}]])
  \cup One("bundles.toml", [Empty EXCEPT !.pkg = [markupsafe |-> [MarkupSafe EXCEPT !.needs = {"gone"}]]])
  \cup UNION {One("bundles.toml", [Empty EXCEPT !.bundle = WithModule(m).bundle, !.pkg = WithModule(m).pkg]) :
                m \in {[GoodModule EXCEPT !.identifier = FALSE], [GoodModule EXCEPT !.sources = {}],
                      [GoodModule EXCEPT !.blanks = {"-DA -DB"}]}}
  \cup One("targets.toml", [Empty EXCEPT !.target = [arm |-> GoodTarget]])
  \cup One("tests.toml", [Empty EXCEPT !.expect = <<"x68", "">> :> {"test_gdb"}])
  \cup One("bench.toml", [Empty EXCEPT !.kit = [abc |-> [arms |-> <<"default", "gone">>, baseline |-> "default"]]])
  \cup One("bench.toml", [Empty EXCEPT !.kit = [abc |-> [arms |-> <<"default">>, baseline |-> "nolto"]]])
  \cup One("bench.toml", [Empty EXCEPT !.pins = "pinned"])

SomeOverlays == NoOverlay \cup OwnProfiles \cup ProfileMistakes \cup PackageMistakes \cup OtherMistakes
================================================================================
