CONSTANTS
  p1 = p1
  p2 = p2
  p3 = p3
  Proc = {p1, p2, p3}
  Namespace <- TwoContainers
  Pid <- CommonPid
  KeepWork = {p1}
  Reliable = {p1, p2}
  LiveFor = 2
  StaleAge = 4
  MaxSkips = 0
  PassTime = 1
SPECIFICATION Spec
INVARIANTS TypeOK NoGhostHeartbeat
PROPERTIES LiveScratchSpared PassCollects
