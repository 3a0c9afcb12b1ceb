\* Each part on its own small instance, named in its module.
CONSTANTS
  c1 = c1
  c2 = c2
  c3 = c3
  c4 = c4
  i1 = i1
  i2 = i2
  l1 = l1
  l2 = l2
  k1 = k1
  k2 = k2
  r1 = r1
  w1 = w1
  w2 = w2
  Domains = {"a", "b"}
  Conns = {c1, c2}
  MaxListeners = 2
  BufSize = 1
  Bytes = 2
  TConns = {c1, c2, c3}
  TMaxConns = 2
  TMaxRetries = 2
  Clients = {c1, c2}
  UMaxClients = 2
  UMaxSessions = 4
  HConns = {c1, c2, c3}
  HMaxConns = 2
  KPorts = {1, 2}
  KTargets = {k1, k2}
  Interval = 1
  Cooldown = 0
  FailThreshold = 2
  MaxBackoff = 4
  W = 6
  KMaxTime = 8
  KMaxMoves = 2
  Peers = {"100.64.0.1", "100.64.0.2"}
  Users = {"ann", "bob"}
  Claimed = {"bob"}
  PeerOwner <- MCPeerOwner
  IPs = {i1, i2}
  Lookups = {l1, l2}
  TTL = 2
  NegTTL = 1
  MaxEntries = 1
  WMaxTime = 3
  LClients = {c1, c2, c3, c4}
  LSize = 3
  LBurst = 1
  LMaxRequests = 5
  Readers = {r1}
  GSize = 2
  GMaxLines = 8
  Events = {"e1", "e2"}
  Hooks = {"h1", "h2"}
  Matches <- MCMatches
  Workers = {w1, w2}
  QueueSize = 2
  MaxRetries = 2
  EUsers = {"ann", "b/ob", "c/ee"}
  ESafe = {"ann"}
  EProxies = {"x", "y"}
  EMaxCalls = 4
  EMaxCrashes = 1
  Devs = {"d1", "d2", "d3"}
  Tags = {"t1"}
  NMaxAttempts = 2
  NMaxRuns = 3
  DomRetries = 1
  MaxWatchBackoff = 5
  TMaxChanges = 3
  TMaxLinks = 2
  QMaxChanges = 4
  QMaxQueue = 2
  FNames = {"a", "b"}
  FReloads = 2
  FMaxChanges = 2
  PortMax = 4
  RangeMax = 3
  LegacyPort = 4
  TPTargets <- MCTargets
SPECIFICATION PartsSpec
INVARIANTS RouterSafe TCPSafe UDPSafe HTTPSafe HealthSafe IdentitySafe BoundsKept
           WebhookSafe TargetsFollowed ListSafe PortsSafe PrefsSafe NodeSafe DomainSafe
CHECK_DEADLOCK FALSE
