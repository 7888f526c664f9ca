SPECIFICATION FairSpec
CONSTANTS
  Requests <- MCRequests
  Replies <- MCReplies
  BufferSize = 8
  SocketSize = 3
  NULL = NULL
INVARIANTS
  NothingOverlooked
  NothingDiscarded
PROPERTIES
  ImplementsCall
  CallReturns
\* A client whose request has lost its last byte waits for ever.
CHECK_DEADLOCK FALSE
