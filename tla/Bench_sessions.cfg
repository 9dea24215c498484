CONSTANTS
  Commands = {"b1", "b2"}
  Cases <- OneCase
  NamesIn <- TheirNames
  PyperfFiles <- TheirFiles
  Suites = {"pyperformance", "micro"}
  Lineups <- OneArm
  Known <- WellKnown
  Machines <- OneMachine
  PinFlags <- NoPinFlags
  MaxTime = 1
SPECIFICATION BenchSpec
CHECK_DEADLOCK FALSE
PROPERTIES NeverOverwritten
