SPECIFICATION Spec
CONSTANTS
  Ms = 2
  Sec = 3
  Period = 2
  MaxUl = 64
  Timeouts <- FewTimeouts
  Counts = {1, 3}
  MaxClock = 20
  MaxClicks = 1
  Node = {n1, n2, n3}
  Contents <- TwoContents
  Origins <- AllOrigins
  ScreenWidth = 40
  ScreenHeight = 30
  border_size = 1
  gap_size = 2
  x_offset = 3
  y_offset = 4
  x_padding = 1
  y_padding = 2
  Owner = {m1, m2}
  Fields = {"txt", "txt_font"}
  Pool = 2
  NULL = NULL
SYMMETRY Symmetry
INVARIANTS
  EndsOnTime
  Stacked
  DrawableUnlessRefused
  OneOwner
  NoLeak
PROPERTIES
  StepsOnTime
  FramesInTurn
\* A notification that has been closed is gone.
CHECK_DEADLOCK FALSE
