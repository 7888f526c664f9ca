SPECIFICATION FairSpec
CONSTANTS
  Client = {c1, c2}
  Node = {n1, n2}
  Requests <- LivenessRequests
  DefaultTimeout = TRUE
  NULL = NULL
  NoWindow = NoWindow
  Garbage = Garbage
  Absent = Absent
  MaxRequests = 2
  MaxEvents = 1
PROPERTIES
  RequestAnswered
  TimedNotificationEnds
  AppendedIsOpened
