CONSTANTS
  p1 = p1
  p2 = p2
  Proc = {p1, p2}
  Job <- ChainJob
  Config = {"O2", "O3"}
  Deps <- ChainDeps
  Reads <- ChainDeps
  Rank <- ChainRank
  Input <- ChainInput
  Key <- ChainKey
  Product <- ChainProduct
  Workers = 2
  MaxLaunches = 3
  MaxCrashes = 1
  MaxSignals = 0
  MaxFailures = 1
SPECIFICATION Spec
SYMMETRY ProcSymmetry
INVARIANTS KeyNamesContent BuildsOnPinnedDeps
PROPERTIES LeasesPinArtifacts RebuiltOnlyOnNewKey ImplementsStore
