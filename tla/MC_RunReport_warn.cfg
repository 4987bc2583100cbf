SPECIFICATION Spec
CONSTANTS
  PipeCap = 1
  TailLines = 2
  StderrLines = 1
  MaxLines = 2
  MaxRetries = 0
INVARIANT
  WarningIsNotTheLock
