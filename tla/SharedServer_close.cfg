\* A proxy is closed while another one keeps the node up.
CONSTANTS
  u1 = u1
  u2 = u2
  d1 = d1
  d2 = d2
  q1 = q1
  q2 = q2
  None = None
  Users = {u1, u2}
  Domains = {d1, d2}
  Ports = {q1, q2}
  Configs <- OnePort
  Starts <- OnePortStarts
  MaxGen = 1
  QueueCap = 1
SPECIFICATION FairSpec
PROPERTIES ProxyCloseReturns
CHECK_DEADLOCK FALSE
