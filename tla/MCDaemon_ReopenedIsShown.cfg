SPECIFICATION FairSpec
CONSTANTS
  Client = {c1}
  Node = {n1}
  Requests <- LivenessRequests
  DefaultTimeout = TRUE
  NULL = NULL
  NoWindow = NoWindow
  Garbage = Garbage
  Absent = Absent
  MaxRequests = 2
  MaxEvents = 1
PROPERTY ReopenedIsShown
