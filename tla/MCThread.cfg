CONSTANTS
  Threads = {t1, t2, t3}
  WriteBit = 4
  Threshold = 3
  PhaseMod = 2
  MaxRounds = 3
  Joiners = {j1, j2, j3}
  Addresses = {a1, a2}
  Null = Null
SPECIFICATION ThreadSpec
INVARIANTS Exclusion NobodyProceedsEarly StackUnmappedOnce
PROPERTIES ReturnsAfterFunction WaitersReturn
CHECK_DEADLOCK FALSE
