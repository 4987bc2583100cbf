SPECIFICATION Spec
CONSTANTS
  Processes = {p1, p2}
  Dirs = {d1, d2}
  Runs = {r1, r2}
  NoRun = NoRun
  NoDir = NoDir
  MaxConcurrentRuns = 0
  MaxRetries = 0
  MaxCrashes = 1
  MaxLost = 0
  MaxPanics = 0
  Overlap = TRUE
  Supervised = FALSE
SYMMETRY Symmetry
INVARIANT
  ConcurrencyCap

  
