CONSTANTS
  Node = {n1, n2, n3, n4}
  MaxNeighbors = 2
  NoNode = NoNode
  Ack = Ack
  MaxCounter = 2
SPECIFICATION MCSpec
SYMMETRY Symmetry
INVARIANTS
  TrackerInv
  OwedAreAnswered
