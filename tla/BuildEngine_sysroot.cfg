CONSTANTS
  p1 = p1
  p2 = p2
  Proc = {p1, p2}
  Job <- SysrootJob
  Config = {"O2", "O3"}
  Deps <- SysrootDeps
  Reads <- SysrootReads
  Rank <- SysrootRank
  Input <- SysrootInput
  Key <- SysrootKey
  Product <- SysrootProduct
  Workers = 2
  MaxLaunches = 2
  MaxCrashes = 0
  MaxSignals = 0
  MaxFailures = 0
SPECIFICATION Spec
SYMMETRY ProcSymmetry
INVARIANTS KeyNamesContent
