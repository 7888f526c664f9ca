SPECIFICATION Spec
CONSTANTS
  Client = {c1, c2}
  Node = {n1, n2}
  Requests <- PathRequests
  DefaultTimeout = TRUE
  NULL = NULL
  NoWindow = NoWindow
  Garbage = Garbage
  Absent = Absent
  MaxRequests = 3
  MaxEvents = 2
SYMMETRY Symmetry
INVARIANTS
  TypeOK
  MutualExclusion
  ListsSound
  NeverBothAsleep
  LookupSeesWindows
  ScreenMatchesLists
PROPERTIES
  OwnerOnly
  LiveReplyNamesNotification
  ImplementsService
  ImplementsLists
