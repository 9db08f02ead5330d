SPECIFICATION FactorySpec
CONSTANTS
  r1 = r1
  c1 = c1
  c2 = c2
  None = None
  Requests = {r1}
  Callers = {c1, c2}
  Names = {"default", "other"}
  Keys = {"host", "sub"}
  RequiredKeys = {"host"}
  GatewayKeys = {"sub"}
  MaxDepth = 2
  TemporaryName = "other"
  TemporaryProperties <- HostOnly
  Initial = "initial"
SYMMETRY CallerSymmetry
INVARIANTS FactoryTypeOK SettledInstanceIsShared GivenInstanceIsComplete
CHECK_DEADLOCK FALSE
