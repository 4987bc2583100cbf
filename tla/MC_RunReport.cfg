SPECIFICATION FairSpec
CONSTANTS
  PipeCap = 1
  TailLines = 1
  StderrLines = 2
  MaxLines = 3
  MaxRetries = 1
INVARIANTS
  TypeOK
  LogComplete
  ReportIsTail
  VerdictMatchesOutput
  TaskTellsLastAttempt
  OneTaskPerRun
  RecordedFailureHasTask
PROPERTY
  Concludes
