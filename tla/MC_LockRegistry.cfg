SPECIFICATION Spec
CONSTANTS
  Dirs = {d1, d2, d3}
  Runs = {r1, r2, r3, r4}
  NoRun = NoRun
  NoDir = NoDir
  MaxConcurrentRuns = 2
INVARIANTS
  TypeOK
  GuardOwnsEntry
  PermitsConserved
  VerdictSound
PROPERTY
  ImplementsGate
