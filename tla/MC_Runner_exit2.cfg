SPECIFICATION Spec
CONSTANTS
  Processes = {p1}
  Dirs = {d1}
  Runs = {r1}
  NoRun = NoRun
  NoDir = NoDir
  MaxConcurrentRuns = 1
  MaxRetries = 0
  MaxCrashes = 0
  MaxLost = 0
  MaxPanics = 0
  Overlap = FALSE
  Supervised = TRUE
INVARIANT
  PlanVerdictIsForPlans
