SPECIFICATION KindsSpec
CONSTANTS
  w1 = w1  w2 = w2  r1 = r1  r2 = r2  main = main
  s1 = s1  s2 = s2  s3 = s3  s4 = s4  o1 = o1  o2 = o2  o3 = o3  x1 = x1  x2 = x2  none = none
  Local = {w1, w2}
  Remote = {r1, r2}
  Main = main
  Task = {s1, s2, s3, s4, o1, o2, o3, x1, x2}
  Batches <- MCBatches
  Kind <- MCKind
  Session <- MCSession
  Via = {s1, s2, s4}
  Verdicts <- MCVerdicts
  StopTargets = {s1, o1}
  Mortal = {s1, o1}
  MaxSessions = 1
  NoTask = none
  File = {"f", "g"}
  Token = {"a", "b", "c"}
  FileWorker = {w1, w2}
  FileJob <- MCFileJob
  FileBatches <- MCFileBatches
  StartText <- MCStartText
  OtherTexts <- MCOtherTexts
  MaxBuffer = 1
  MaxEvents = 1
  MaxEdits = 1
  MaxPolls = 2
  MaxSeconds = 2
SYMMETRY Workers
INVARIANTS
  StopHonoured
  NothingUnreachable
  SessionsBounded
  FinalFrame
  EventsAccounted
  
  OverwrittenIsKept
CHECK_DEADLOCK FALSE
