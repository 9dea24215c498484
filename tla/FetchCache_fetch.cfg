CONSTANTS
  p1 = p1
  p2 = p2
  p3 = p3
  Proc = {p1, p2, p3}
  Offline = {p3}
  Mirrors = 5
  Answer <- GoodLast
  MaxLaunches = 2
  MaxCrashes = 1
  MaxSignals = 1
  MaxFaults = 3
  MaxDisk = 1
  MaxMeddling = 1
SPECIFICATION FairSpec
INVARIANTS TrustedMeansVerified OneFetcher MirrorsDoNotInterfere NoHopelessRetry
PROPERTIES GoodFileStays EveryFetchEnds
