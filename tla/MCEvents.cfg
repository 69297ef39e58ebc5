CONSTANTS
  Capacity = 4
  CountMod = 8
  MainYields = FALSE
  Main = Main
  Wild = Wild
  Operations = {a, b, c}
  Empty = Empty
  MaxSlots = 2
  AcceptTag = AcceptTag
  NoSlot = NoSlot
  ThreadCount = 2
  MaxClients = 1
  Clients = {c1, c2, c3}
  NoFd = NoFd
  MaxConnections = 2
  Requests = {"index"}
SPECIFICATION EventsSpec
INVARIANTS ControlIsValid BookkeepingExact EachOperationOnce LoopExact JoinedAreGone ConnectionsOwned
PROPERTIES ReapedUnlessLeftBehind  
CHECK_DEADLOCK FALSE
