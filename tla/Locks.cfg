SPECIFICATION LocksSpec
CONSTANTS
  Tasks = {t1, t2, t3}
  SemTasks = {t1, t2}
  Permits = 2
  Wants = {1, 2}
  Deltas <- OneUpOneDown
  MaxPermits = 2
  Harts = {h1, h2, h3}
  IMax = 4
  Width = 4
  watched = t1
  NoFile = NoFile
  watchedHart = h1
INVARIANTS LocksTypeOK SleepMutexSafe RwSleepMutexSafe SemaphoreSafe SpinCountersSafe FatListSafe
PROPERTIES ImplementsFifoLock EveryoneServed
