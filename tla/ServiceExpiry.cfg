SPECIFICATION Spec
CONSTANTS
  example = example
  root = root
  A = A
  MX = MX
  q1 = q1
  q2 = q2
  None = None
  Queries = {q1, q2}
  Names = {example}
  Types = {A}
  RootName = root
  TTLs = {0, 1}
  MaxCacheTTL = 1
  MaxTime = 2
  Configs <- CacheOnly
PROPERTIES HitIsFresh
CHECK_DEADLOCK FALSE
