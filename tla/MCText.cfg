SPECIFICATION Spec
CONSTANTS
  NULL = NULL
  NoLine = NoLine
  Words <- MCWords
  Values <- MCValues
  Ids = {1, 12}
  RawRequests <- MCRawRequests
  MaxInt = 511
  Strings <- OwnStrings
  Lines <- MCLines
  MaxRead = 10
  MaxLines = 5
  Decimal <- MCDecimal
  Hex <- MCHex
  MaxU16 = 65535
  Meant <- MCMeant
INVARIANTS
  ReadAsMeant
  ToldWhatWasDone
  ReadAsWritten
  IndicatorsHaveFrames
PROPERTIES
  WholeOrNothing
  ImplementsCycle
  EntriesSetFields
\* A file has an end.
CHECK_DEADLOCK FALSE
