CONSTANTS
  p1 = p1
  p2 = p2
  Proc = {p1, p2}
  Job <- DiamondJob
  Config = {"old"}
  Deps <- DiamondDeps
  Reads <- DiamondDeps
  Rank <- DiamondRank
  Input <- DiamondInput
  Key <- DiamondKey
  Product <- DiamondProduct
  Workers = 1
  MaxLaunches = 3
  MaxCrashes = 1
  MaxSignals = 1
  MaxFailures = 1
SPECIFICATION Spec
SYMMETRY ProcSymmetry
INVARIANTS TypeOK EndingsAreExplained ReturnedRunsAreBuilt PeersDoNotFight
