CONSTANTS
  Joiners = {j1, j2}
  Addresses = {a1}
  Null = Null
SPECIFICATION FairSpec
PROPERTIES JoinReturns
CHECK_DEADLOCK FALSE
