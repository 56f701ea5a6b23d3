\* b depends on a; b may expire while the clock runs.
SPECIFICATION Spec
CONSTANTS
  a = a
  b = b
  Task = {a, b}
  Worker = {w1, w2}
  NoTask = NoTask
  MaxTime = 1
  ReporterFails = FALSE
  Streamed = {}
  CancelTargets = {a}
  Rank <- RankHighLow
  NotBefore <- NoConstraint
  Deadline <- BExpires
  Deps <- BDependsOnA
  MaxAttempts <- TwoAttempts
  Answers <- AFlaky
SYMMETRY Workers
INVARIANTS TypeOK ExclusiveRun DependenciesRan AnsweredOnce
PROPERTIES OkResultBeforeDone ImplementsPool
