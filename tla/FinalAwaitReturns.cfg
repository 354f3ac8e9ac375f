SPECIFICATION GoSpec
CONSTANTS
  Values = {v1, v2, v3, v4}
  Consumers = {k1, k2, k3}
  Capacity = 2
  Nothing = Nothing
  Clients = {r1, r2, r3, r4}
  NoClient = NoClient
  Workers = {w1, w2, w3}
  JobCount = 4
  f1 = f1
  f2 = f2
  f3 = f3
  g1 = g1
  g2 = g2
  NoFuture = NoFuture
  c1 = c1
  c2 = c2
  Callers = {c1, c2, c3}
  Awaiters = {c1, c2}
  Futures = {f1, f2, f3, g1, g2}
  Previous <- TwoChains
  Via <- TwoLinks
  Target <- TwoEnds
  Conns = {n1, n2, n3, n4}
  NoConn = NoConn
  Max = 2
  FailureThreshold = 2
  OpenTimeout = 2
  Size = 2
  MaxRepeated = 2
  BucketCapacity = 4
  RefillPerSecond = 2
  Costs = {0, 1, 3, 5}
  MaxTime = 3
  MaxGrants = 5
  Limits = {0, 1, 4}
  InitialDelay = 1
  MaxDelay = 3
  Multiplier = 2
INVARIANT FinalAwaitReturns
CHECK_DEADLOCK FALSE
