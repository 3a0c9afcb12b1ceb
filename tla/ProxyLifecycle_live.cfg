\* Fair goroutines; an HTTP port, so that Start does not wait for the login.
CONSTANTS
  p1 = p1
  p2 = p2
  None = None
  Ports = {p1}
  Configs <- OnlyHTTP
  MaxGen = 2
  Backends = {"Running"}
  EventBuf = 1
SPECIFICATION FairSpec
PROPERTIES OperationsReturn
CHECK_DEADLOCK FALSE
