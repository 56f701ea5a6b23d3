\* Every plan of GraphPlans, cancelled at any time or not; run ends; fair threads.
SPECIFICATION FairSpec
CONSTANTS
  a = a
  b = b
  c = c
  d = d
  Node = {a, b, c, d}
  Index <- IndexAbcd
  Plans <- GraphPlans
INVARIANTS RunsAfterDependencies EveryNodeAccounted ParallelismBounded
PROPERTIES FailFastStops Terminates
CHECK_DEADLOCK FALSE
