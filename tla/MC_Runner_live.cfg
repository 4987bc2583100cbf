SPECIFICATION FairSpec
CONSTANTS
  Processes = {p1}
  Dirs = {d1}
  Runs = {r1, r2}
  NoRun = NoRun
  NoDir = NoDir
  MaxConcurrentRuns = 0
  MaxRetries = 0
  MaxCrashes = 1
  MaxLost = 1
  MaxPanics = 1
  Overlap = FALSE
  Supervised = TRUE
PROPERTIES
  RunSettles
  CapacityReturns
  RecordSettles
  ConflictIsRecorded
