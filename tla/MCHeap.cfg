CONSTANTS
  Threads = {t1, t2, t3}
  NoThread = NoThread
  Null = Null
  MaxSegments = 1
  PagesPerSegment = 2
  BlockCount = 2
  Callers = {c1, c2}
  Addresses = {a1, a2, a3}
  NoMapping = NoMapping
  MaxPages = 3
  CacheSize = 2
  Tids = {2, 4, 5}
  TableSize = 2
  MaxLocals = 4
  Nil = Nil
  NoTid = NoTid
  HeapBlocks = {b1, b2, b3}
  NoBlock = NoBlock
  Sizes = {0, 4, 7, 8, 31}
  SizeMod = 32
  MinShift = 2
  Doublings = 1
  HeaderSize = 1
  MaxCalls = 3
SPECIFICATION HeapSpec
SYMMETRY Symmetry
INVARIANTS BitmapExact PagesExact MappingsExact LocalsExact AccountsExact
 
