CONSTANTS
  Threads = {t1, t2, t3}
  Threshold = 2
  PhaseMod = 4
  MaxRounds = 2
SPECIFICATION Spec
INVARIANTS ProceedInGroups
CHECK_DEADLOCK FALSE
