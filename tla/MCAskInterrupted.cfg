SPECIFICATION FairSpec
CONSTANTS
  a1 = a1
  a2 = a2
  a3 = a3
  q1 = q1
  q2 = q2
  Asks = {a1, a2, a3}
  Probes = {p1}
  Questions = {q1, q2}
  Question <- MCQuestion
  Limit = 2
  CacheTTL = 1
  MaxTime = 1
  MaxUsed = 1
INVARIANT InterruptedHasRow
CHECK_DEADLOCK FALSE
