\* Two ports, one pause and resume, and Close at any time.
CONSTANTS
  p1 = p1
  p2 = p2
  None = None
  Ports = {p1, p2}
  Configs <- Mixed
  MaxGen = 2
  Backends = {"Authenticating", "Running"}
  EventBuf = 1
SPECIFICATION Spec
SYMMETRY Symmetric
INVARIANTS PausedIsQuiet ClosedIsQuiet NotHalfResumed StatusFollowsNode
CHECK_DEADLOCK FALSE
