SPECIFICATION Spec
CONSTANTS
  t1 = t1  t2 = t2  w1 = w1  w2 = w2  main = main  cli = cli  none = none
  Task = {t1, t2}
  Worker = {w1, w2}
  Main = main
  Cli = cli
  Parked = {t2}
  Streamed = {t2}
  NoTask = none
SYMMETRY WorkersAlike
INVARIANTS
  DoneImpliesResult
PROPERTIES
  PacketKept
