SPECIFICATION V3Spec
CONSTANTS
  r1 = r1
  r2 = r2
  a = a
  b = b
  d = d
  l = l
  sh = sh
  wr = wr
  no = no
  Task <- MCTask
  Batches <- MCBatches
  Does <- NestDoes
  Names <- NestNames
  Waits = {}
  AnyOf = {}
  InFlow <- NestFlow
  MaxActive = 2
  MaxDepth = 2
  MaxRuns = 2
  Call <- MCCall
  Request <- MCRequest
  Offered = {sh, wr}
  Turns <- MCTurns
  Files <- MCFiles
  MaxIterations = 2
  MaxRetries = 2
  Pattern <- MCPattern
  Glob <- MCGlob
  Root <- MCGlob
  Fold <- MCFold
  Malformed = {}
  Overbroad = {}
  Protected = {}
  Unlisted = {}
  Destructive = {}
  Recommended = {}
CHECK_DEADLOCK FALSE
INVARIANT
  ChainBounded
