CONSTANTS
  Clients = {c1, c2}
  NoFd = NoFd
  MaxConnections = 1
  Requests = {"hello"}
SPECIFICATION HttpdFairSpec
PROPERTIES EveryClientClosed
CHECK_DEADLOCK FALSE
