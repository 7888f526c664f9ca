SPECIFICATION HSpec
CONSTANTS
  Node = {n1, n2, n3, n4}
  NULL = NULL
SYMMETRY Symmetry
INVARIANTS
  Represents
  NoLeakNoDangling
  WalkSound
PROPERTY ImplementsLists
