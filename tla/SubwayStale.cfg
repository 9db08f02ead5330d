SPECIFICATION Spec
CONSTANTS
  wiki = wiki
  shop = shop
  q1 = q1
  q2 = q2
  q3 = q3
  None = None
  Other = Other
  Queries = {q1, q2, q3}
  Names = {wiki, shop}
  Ports <- HttpAndHttps
  SpaceSize = 102
  Configs <- SharedSubnet
  MaxDrops = 1
  MaxOthers = 0
PROPERTY AnswerLeadsNowhereElse
CHECK_DEADLOCK FALSE
