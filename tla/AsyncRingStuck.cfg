CONSTANTS
  Tags = {a, b}
  Empty = Empty
  Entries = 2
  CqEntries = 2
  IndexMod = 4
  MaxResults = 1
SPECIFICATION FairSpec
PROPERTIES EveryOperationReaped
CHECK_DEADLOCK FALSE
