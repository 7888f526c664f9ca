SPECIFICATION Spec
CONSTANTS
  Peer = {p1, p2, p3}
  Foreign = {p3}
  MaxConnections = 3
  NULL = NULL
  Pieces = 2
  Room = 2
  MaxCalls = 2
SYMMETRY Symmetry
INVARIANTS
  NoAssertionFails
  OwnBytes
  OneIdEach
PROPERTY ClosesAfterPeer
\* When every client has made its calls the server thread waits in poll.
CHECK_DEADLOCK FALSE
