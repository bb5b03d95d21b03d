SPECIFICATION Spec
CONSTANTS
  Threads = {p1, p2}
  Nodes = {n1, n2, n3}
  ID_PERIOD = 33554432
  MaxPush = 3
  MaxPop = 2
  Null = Null
INVARIANT ChainExact
