SPECIFICATION Spec
CONSTANTS
  Processes = {p1}
  Dirs = {d1, d2}
  Runs = {r1, r2}
  NoRun = NoRun
  NoDir = NoDir
  MaxConcurrentRuns = 2
  MaxRetries = 1
  MaxCrashes = 2
  MaxLost = 1
  MaxPanics = 1
  Overlap = FALSE
  Supervised = TRUE
SYMMETRY Symmetry
INVARIANTS
  TypeOK
  DirExclusive
  GuardCoversRun
  RunningRecordIsLive
  AnsweredIsRecorded
  SingleWriterPerRun
  RecordMatchesExit
  TaskBacksFailure
  InterruptedOnlyAfterLoss
  InterruptedMeansDead
PROPERTIES
  TerminalIsFinal
  ImplementsContract
