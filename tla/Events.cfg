SPECIFICATION EventsSpec
CONSTANTS
  Threads = {t1, t2}
  Others = {o1}
  Events = {sig, child}
  Updates <- SetsAndClears
  Nobody = Nobody
  Harts = {h1, h2}
  Tasks = {t1, t2}
  NoTask = NoTask
  watched = t1
  g = g
  a = a
  b = b
  c = c
  Procs = {g, a, b, c}
  initproc = g
  Tids = {g, a, b, c}
  process <- Single
  TimerTasks = {t1, t2}
  TimerHarts = {h1}
  Delays = {1}
  MaxTime = 2
INVARIANTS EventsTypeOK NodesSafe EventsKept ExecutorSafe ChildrenSafe NoSleepBesideZombie TimersSafe
PROPERTY EveryoneWoken
