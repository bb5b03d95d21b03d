SPECIFICATION Spec
CONSTANTS
  Waiters = {w1, w2}
  Timed = {w1, w2}
  Callers = {c1, c2}
  Addrs = {a, b}
  Stores = {}
  Moves <- BothWays
  Matches <- Everyone
  WakeCounts = {}
  MoveCounts <- OneAndOne
  Faults = FALSE
  MaxGen = 1
  Nobody = Nobody
  a = a
  b = b
SYMMETRY Perms
INVARIANT NoWaitCycle
