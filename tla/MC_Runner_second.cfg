SPECIFICATION Spec
CONSTANTS
  Processes = {p1, p2}
  Dirs = {d1}
  Runs = {r1}
  NoRun = NoRun
  NoDir = NoDir
  MaxConcurrentRuns = 1
  MaxRetries = 0
  MaxCrashes = 0
  MaxLost = 0
  MaxPanics = 0
  Overlap = TRUE
  Supervised = TRUE
INVARIANT
  InterruptedOnlyAfterLoss
