SPECIFICATION Spec
CONSTANTS
  srv = srv
  work = work
  worksecrets = worksecrets
  a = a
  b = b
  maintf = maintf
  alias = alias
  etc = etc
  gone = gone
  relative = relative
  badToken = badToken
  Token = Token
  NoToken = NoToken
  c1 = c1
  c2 = c2
  c3 = c3
  Paths <- AllPaths
  Malformed <- MalformedPaths
  Canon <- CanonOf
  Directories <- AllDirectories
  AllowedRoots <- ConfiguredRoots
  Requests <- Posted
  Nowhere = Nowhere
  Calls = {c1, c2, c3}
  NoRun = NoRun
  NoDir = NoDir
  MaxConcurrentRuns = 2
  MaxCrashes = 1
INVARIANTS
  TypeOK
  ResultIsOwnRun
  RefusalStartsNothing
  NeverSideBySide
