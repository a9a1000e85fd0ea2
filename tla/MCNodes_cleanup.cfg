CONSTANTS
  a = a b = b c = c x = x y = y
  Node = {a, b}
  MaxNeighbors = 2
  NoNode = NoNode
  Ack = Ack
  MaxCounter = 6
  Offers <- MCOffers
  Nothing = Nothing
  Leaving = Leaving
  MaxFaults = 1
  MaxRuns = 3
  Peers = {a, b, c}
  Stream = {x, y}
  Part <- MCPart
  StreamOf <- MCStreamOf
  Within <- MCWithin
  Unknown = Unknown
  Malformed = Malformed
  MaxAge = 1
  MaxTime = 2
  p1 = p1 p2 = p2
  Peer = {p1, p2}
  None = None
  Instruction <- MCInstruction
  StatusSendCounterLimit = 1
  MaxSlots = 2
SPECIFICATION OnlyNodes
CHECK_DEADLOCK FALSE
PROPERTY CleansUp
