CONSTANTS
  ThreadCount = 2
  MaxClients = 0
SPECIFICATION ThreadedSpec
INVARIANTS JoinsOnlyCreated
CHECK_DEADLOCK FALSE
