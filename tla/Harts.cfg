SPECIFICATION HartsSpec
CONSTANTS
  Harts = {h1, h2, h3}
  Objs = {o1}
  MaxSeq = 2
  IrqHarts = {g1, g2}
  NLocks = 2
  Tasks = {t1, t2}
  MaxNest = 2
  Changers = {g1}
  Vas = {v1, v2}
  MAX_SPEC_SFENCE = 1
  MaxLen = 6
  Keys = {1, 2}
  Nothing = Nothing
SYMMETRY Perms
INVARIANTS HartsTypeOK RcuSafe SpinLocksSafe HartEnvSafe MailboxSafe HeapExact CowSafe SignalsSafe
PROPERTY SignalsKept
