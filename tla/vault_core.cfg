SPECIFICATION Spec
CONSTANTS
  t1 = t1
  t2 = t2
  s = s
  Thread = {t1, t2}
  Secret = {s}
  MaxRecords = 3
  MaxDays = 2
  MaxCrashes = 1
  MaxFailures = 1
SYMMETRY ThreadsAlike
CHECK_DEADLOCK FALSE
INVARIANTS
  ChainSound
  RecordsKept
