\* Two event handlers at a time, two targets that want one hostname.
CONSTANTS
  t1 = t1
  t2 = t2
  h1 = h1
  a1 = a1
  a2 = a2
  i1 = i1
  i2 = i2
  None = None
  Handlers = {a1, a2}
  Clients = {}
  Targets = {t1, t2}
  Hosts = {h1}
  HostsOf <- SameHost
  WithDomain = {h1}
  Insts = {i1, i2}
  Metrics = FALSE
SPECIFICATION Spec
INVARIANTS IndexSound Stoppable OneNodePerHost LockOrder CleansOwnRecord
           NothingLeftBehind
SYMMETRY Symmetric
CHECK_DEADLOCK FALSE
