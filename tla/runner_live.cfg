\* One worker, reporter calls may raise, b is streamed and may expire; fair
\* scheduling.  A call that raises in the main thread ends the agent.
SPECIFICATION FairSpec
CONSTANTS
  a = a
  b = b
  Task = {a, b}
  Worker = {w1}
  NoTask = NoTask
  MaxTime = 2
  ReporterFails = TRUE
  Streamed = {b}
  CancelTargets = {a}
  Rank <- RankHighLow
  NotBefore <- ALater
  Deadline <- BExpiresLast
  Deps <- BDependsOnA
  MaxAttempts <- TwoAttempts
  Answers <- AnyAnswer
CHECK_DEADLOCK FALSE
INVARIANTS SlotsAccounted
PROPERTIES RetryDiscipline HighNeverStarves SlotsComeBack
