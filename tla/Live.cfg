\* Three goroutines on two keys: an entry is deleted and recreated while the
\* previous object is still being unlocked.  One proxy on two nodes, one after
\* the other.  One page that may come again.
CONSTANTS
  p1 = p1
  p2 = p2
  p3 = p3
  k1 = k1
  k2 = k2
  e1 = e1
  e2 = e2
  e3 = e3
  Procs = {p1, p2, p3}
  Keys = {k1, k2}
  Entries = {e1, e2, e3}
  NoEntry = NoEntry
  NoProc = NoProc
  u1 = u1
  d1 = d1
  d2 = d2
  q1 = q1
  q2 = q2
  None = None
  Proxies = {u1}
  Domains = {d1, d2}
  Ports = {q1, q2}
  Configs <- OnePort
  Starts <- OnePortStarts
  MaxGen = 2
  QueueCap = 1
  g1 = g1
  g2 = g2
  Pages = {g1}
  MaxPages = 1
  ChanSize = 1
  PageQueue = 1
  MaxStatus = 1
  MaxHealth = 1
  MaxVisits = 2
SPECIFICATION LiveSpec
INVARIANTS LocksSound
PROPERTIES ImplementsKeyedMutex LockReturns CallsReturn PagesCatchUp
CHECK_DEADLOCK FALSE
