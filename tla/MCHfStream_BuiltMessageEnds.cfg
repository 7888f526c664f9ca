SPECIFICATION Spec
CONSTANTS
  Requests <- MCRequests
  Replies <- MCReplies
  BufferSize = 8
  SocketSize = 3
  NULL = NULL
INVARIANT BuiltMessageEnds
