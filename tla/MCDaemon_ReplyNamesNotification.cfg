SPECIFICATION Spec
CONSTANTS
  Client = {c1}
  Node = {n1}
  Requests <- PathRequests
  DefaultTimeout = TRUE
  NULL = NULL
  NoWindow = NoWindow
  Garbage = Garbage
  Absent = Absent
  MaxRequests = 2
  MaxEvents = 1
PROPERTY ReplyNamesNotification
