SPECIFICATION FairSpec
CONSTANTS
  example = example
  root = root
  A = A
  MX = MX
  q1 = q1
  q2 = q2
  None = None
  Queries = {q1, q2}
  Names = {example, root}
  Types = {A, MX}
  RootName = root
  TTLs = {1}
  MaxCacheTTL = 1
  MaxTime = 1
  Configs <- AllConfigs
INVARIANTS TypeOK CachedIsGiven AnsweredIsLogged RepeatIsHit
PROPERTIES ResolutionIsSound SettlesOrWaitsUpstream
CHECK_DEADLOCK FALSE
