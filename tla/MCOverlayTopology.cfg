CONSTANTS
  Node = {n1, n2, n3, n4, n5, n6}
  MaxNeighbors = 4
SYMMETRY Symmetry
SPECIFICATION Spec
INVARIANTS
  OverlayInv
  WellConnected
PROPERTIES
  FormKeepsLimit
  LinkedAreInstructed
