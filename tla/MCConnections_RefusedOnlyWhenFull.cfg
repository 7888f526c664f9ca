SPECIFICATION Spec
CONSTANTS
  Peer = {p1, p2, p3}
  Foreign = {p3}
  MaxConnections = 3
  NULL = NULL
  Pieces = 1
  Room = 1
  MaxCalls = 1
PROPERTY RefusedOnlyWhenFull
CHECK_DEADLOCK FALSE
