SPECIFICATION LiveSpec
CONSTANTS
  Subjects = {"sched", "sleep", "smp"}
  c1 = c1
  c2 = c2
  k1 = k1
  k2 = k2
  i1 = i1
  i2 = i2
  i3 = i3
  i4 = i4
  Guard = g
  Stale = Stale
  Useless = Useless
  Core = {c1}
  Boot <- OneBoot
  Idle <- OneIdle
  User = {}
  Ops = {"exit", "yield"}
  Sleepers = {t1, t2, t3}
  Handle = {h1, h2}
  Awake = Awake
  MaxTime = 2
  MaxWakeUps = 1
  b0 = b0
  a1 = a1
  a2 = a2
  Bsp = b0
  Aps = {a1, a2}
  ApicId <- ApicNumbers
  NmiCores = {b0}
  IsoCounts = {1}
  FIRST_IRQ = 32
  LAST_IRQ = 40
  MAX_ID = 15
PROPERTIES
  ThreadsTakeTurns
  ExitedThreadsAreDropped
  DeadlinesAreKept
  CoresEnterKmain
CHECK_DEADLOCK FALSE
