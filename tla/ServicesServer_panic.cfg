SPECIFICATION Spec
CONSTANTS
  None = None
  Users = {u1, u2}
  Ports = {80, 443}
  HTTPS = {443}
  Configs <- MCConfigs
  MaxGen = 2
  QueueCap = 2
SYMMETRY Symmetric
INVARIANT NoPanic
CHECK_DEADLOCK FALSE
