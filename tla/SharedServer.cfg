\* Two proxies, two nodes one after the other, a channel that can be full.
CONSTANTS
  u1 = u1
  u2 = u2
  d1 = d1
  d2 = d2
  q1 = q1
  q2 = q2
  None = None
  Users = {u1, u2}
  Domains = {d1, d2}
  Ports = {q1, q2}
  Configs <- Mixed
  Starts <- MixedStarts
  MaxGen = 2
  QueueCap = 1
SPECIFICATION Spec
INVARIANTS HeldIsServed NoLeakedRoute ServerSound
CHECK_DEADLOCK FALSE
