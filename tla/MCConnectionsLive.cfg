SPECIFICATION FairSpec
CONSTANTS
  Peer = {p1, p2, p3}
  Foreign = {p3}
  MaxConnections = 3
  NULL = NULL
  Pieces = 1
  Room = 1
  MaxCalls = 1
PROPERTY CallAnswered
\* When every client has made its calls the server thread waits in poll.
CHECK_DEADLOCK FALSE
