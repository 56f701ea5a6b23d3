\* a may be cancelled or expire, b always fails; one worker, one restart, fair.
SPECIFICATION BridgeFairSpec
CONSTANTS
  a = a
  b = b
  Task = {a, b}
  Worker = {w1}
  NoTask = NoTask
  MaxTime = 1
  MaxRestarts = 1
  ReporterFails = FALSE
  Streamed = {}
  CancelTargets = {a}
  Rank <- RankNormal
  NotBefore <- NoConstraint
  Deadline <- AExpires
  Deps <- Independent
  MaxAttempts <- OneAttempt
  Answers <- BFails
INVARIANTS AnsweredBeforeRenamed
PROPERTIES DoneIsFinal PacketAnswered
