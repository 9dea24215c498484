CONSTANTS
  Obj <- Objects
  Nil = Nil
  Slug = {"s", "t", "u", "bad"}
  BadSlug = {"bad"}
  Own = {1, 2}
  Graphs <- SmallGraphs
  Roots <- SomeRoots
  MaxCalls = 2
SPECIFICATION FairSpec
CHECK_DEADLOCK FALSE
INVARIANTS TypeOK DependencyFirst KeysAreMerkle ClaimsAreCompared FailuresHaveCause
PROPERTIES Ends
