CONSTANTS
  Threads = {t1, t2, t3}
  NoThread = NoThread
  Producers = {p1, p2}
  Consumers = {c1, c2}
  SeqMod = 4
  MaxItems = 2
  MaxInterrupts = 1
SPECIFICATION MCSpec
INVARIANTS MutualExclusion WaitReturnsLocked
PROPERTIES ImplementsLock NoLostWakeUp
CHECK_DEADLOCK FALSE
