CONSTANTS
  Values = {v1, v2}
  Null = Null
  Threads = {t1, t2}
  Capacity = 2
  IndexMod = 4
  Full = Full
  Ok = Ok
  Empty = Empty
  k1 = k1
  k2 = k2
  k3 = k3
  k4 = k4
  k5 = k5
  k6 = k6
  InitialCapacity = 4
  LoadPercent = 75
  MaxCapacity = 8
  Garbage = Garbage
  SizeMod = 16
  ElementSize = 3
  MaxBytes = 12
  InitialSlots = 1
  Nodes = {n1, n2, n3}
  Lists = {A, B}
  NoNode = NoNode
  Signals = {TERM, INT}
  User = User
  MaxHandlers = 2
  MaxSignals = 3
  Fds = {f1, f2}
  NoFd = NoFd
  Nobody = Nobody
  MaxLines = 1
SPECIFICATION LibrarySpec
INVARIANTS IsTheMap SequencesExact ShutdownExact 
PROPERTIES ImplementsFifo ExitEnds
CHECK_DEADLOCK FALSE
