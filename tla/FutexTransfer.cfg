SPECIFICATION Spec
CONSTANTS
  Waiters = {w1, w2}
  Timed = {w1}
  Callers = {c1}
  Addrs = {a, b}
  Stores = {a}
  Moves <- OneWay
  Matches <- Everyone
  WakeCounts = {1}
  MoveCounts <- OneAndOne
  Faults = TRUE
  MaxGen = 1
  Nobody = Nobody
  a = a
  b = b
INVARIANT SleeperIsReachable
