CONSTANTS
  SizeMod = 64
  PageSize = 8
  DefaultAlignment = 4
  Sizes = {0, 3, 9, 60, 63}
  Alignments = {1, 4, 32}
  Auxv <- MCAuxv
  MaxAllocs = 3
  MaxResets = 1
  Newline = Newline
  Other = Other
SPECIFICATION SystemSpec
INVARIANTS BlocksApart   NothingLeaks  StringsExact TimeExact ContextRestored 
PROPERTIES CallsEnd
CHECK_DEADLOCK FALSE
