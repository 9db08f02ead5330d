SPECIFICATION FairSpec
CONSTANTS
  wiki = wiki
  shop = shop
  q1 = q1
  q2 = q2
  q3 = q3
  None = None
  Other = Other
  Queries = {q1, q2}
  Names = {wiki, shop}
  Ports <- HttpAndHttps
  SpaceSize = 102
  Configs <- AllConfigs
  MaxDrops = 2
  MaxOthers = 1
INVARIANTS TypeOK EntranceAllOrNothing SameSessionNoConflict ForwardedOverOpenConnection
  AnswersLeadHome MonitorIsLeft
PROPERTY NobodyWaitsForAnothersTarget
CHECK_DEADLOCK FALSE
