SPECIFICATION PartsSpec
CONSTANTS
  EmbeddedFiles <- ShippedFiles
  Overlays <- SomeOverlays
  SourcesFiles <- OtherSourcesFiles
  Hosts = {"x86"}
  Toolchains <- ShippedToolchains
  Fragments = {"x86", "ppc"}
  Archives <- SomeArchives
  TopDir = "top"
  PatchLists <- SomePatches
  EditLists <- SomeLists
  AssetTexts <- Texts
  RegexLines <- Regexes
  Orders <- AllOrders
  Trees <- SomeTrees
  ProgramPaths <- Programs
  Interpreters <- Built
  Target <- X86
  ProbeNames = {"import", "sys.version"}
  ShippedTests = {"a", "b", "c"}
  CoreTests = {"a", "b"}
  Expectations <- SomeTables
  Prints <- Buckets
  MaxVerifies = 2
  Commands = {"b1"}
  Cases <- TwoCases
  NamesIn <- TheirNames
  PyperfFiles <- TheirFiles
  Suites = {"pyperformance", "micro"}
  Lineups <- SomeLineups
  Known <- WellKnown
  Machines <- SomeMachines
  PinFlags <- SomePinFlags
  MaxTime = 1
  Procs = {1, 2}
  Pids = {7}
  StepNames = {"configure"}
  Chunks <- SomeChunks
  TailLines = 2
  LongestLine = 2
  LastNumber = 2
  MaxAttempts = 2
  MaxCommands = 2
  MaxChunks = 1
  MaxSecond = 1
  MaxWrites = 4
  Shims = {1, 2, 3}
  MaxEdits = 1
  MaxKills = 1
INVARIANTS
  LateFailuresAreKnown LayersAreKept
  TreesAreWhole EditsAreExact
  SysrootIsTheUnion
  VerdictsAreEarned
  NumbersAreAccounted
  LogsAreKept ErrorsTellTheEnd
  ShimsRunWhatTheyNeed
CHECK_DEADLOCK FALSE
