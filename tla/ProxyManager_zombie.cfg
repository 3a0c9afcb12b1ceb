\* Start after Close.
CONSTANTS
  t1 = t1
  t2 = t2
  h1 = h1
  a1 = a1
  a2 = a2
  i1 = i1
  i2 = i2
  None = None
  Handlers = {a1, a2}
  Clients = {}
  Targets = {t1}
  Hosts = {h1}
  HostsOf <- SameHost
  WithDomain = {}
  Insts = {i1, i2}
  Metrics = FALSE
SPECIFICATION Spec
INVARIANTS NotStartedAfterClose
CHECK_DEADLOCK FALSE
