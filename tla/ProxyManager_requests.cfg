\* An event handler, a restart from the dashboard, and the shutdown, all with
\* fair goroutines; StopAllProxies may never be called.
CONSTANTS
  t1 = t1
  t2 = t2
  h1 = h1
  a1 = a1
  c1 = c1
  i1 = i1
  i2 = i2
  None = None
  Handlers = {a1}
  Clients = {c1}
  Targets = {t1}
  Hosts = {h1}
  HostsOf <- SameHost
  WithDomain = {h1}
  Insts = {i1, i2}
  Metrics = TRUE
SPECIFICATION FairSpec
INVARIANTS NothingLeftBehind
PROPERTIES EveryoneReturns ShutdownEnds
CHECK_DEADLOCK FALSE
