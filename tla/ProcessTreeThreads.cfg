SPECIFICATION Spec
CONSTANTS
  g = g
  a = a
  b = b
  c = c
  a2 = a2
  Procs = {g, a, b, c}
  initproc = g
  Tids = {g, a, a2, b, c}
  process <- Double
INVARIANTS NoSleepBesideZombie
SYMMETRY PermsChildren
CHECK_DEADLOCK FALSE
