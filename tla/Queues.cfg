SPECIFICATION QueuesSpec
CONSTANTS
  lone = lone
  DiskTasks = {d1, d2}
  NoCluster = NoCluster
  Waiters = {w1, w2}
  Timed = {w1, w2}
  Callers = {c1, c2}
  Addrs = {a, b}
  Stores = {}
  Moves <- OneWay
  Matches <- Everyone
  WakeCounts = {2}
  MoveCounts <- OneAndOne
  Faults = TRUE
  MaxGen = 1
  Nobody = Nobody
  a = a
  b = b
SYMMETRY Perms
INVARIANTS QueuesTypeOK ListsExact NoWaitCircle NoSleeperLost LockfreeExact BlockCacheExact BlockCacheKept
