SPECIFICATION Spec
CONSTANTS
  r1 = r1
  r2 = r2
  Requests = {r1, r2}
  Names = {"default", "other"}
  Keys = {"host", "port"}
  Initial = "initial"
PROPERTIES CreateKeepsProperties
CHECK_DEADLOCK FALSE
