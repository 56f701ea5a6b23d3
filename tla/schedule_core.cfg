SPECIFICATION Spec
CONSTANTS
  s1 = s1
  s2 = s2
  w1 = w1
  Id = {s1, s2}
  Worker = {w1}
  Payloads <- MCPayloads
  MaxSchedules = 2
  MaxTime = 3
  MaxOps = 2
  MaxCrashes = 1
CHECK_DEADLOCK FALSE
PROPERTIES
  CadenceKept
