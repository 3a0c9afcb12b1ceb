\* After a resume.
CONSTANTS
  p1 = p1
  p2 = p2
  None = None
  Ports = {p1}
  Configs <- OnlyHTTP
  MaxGen = 2
  Backends = {"Authenticating", "Running"}
  EventBuf = 1
SPECIFICATION Spec
INVARIANTS ResumeReopens
CHECK_DEADLOCK FALSE
