CONSTANTS
  Offerer = "o"
  Answerer = "a"
  None = None
  MaxConnections = 4
  Payload = {"m1", "m2", "big"}
  Large = {"big"}
  MaxSize = 2
  MaxTries = 2
  MaxBurst = 2
  High = 2
  Low = 0
  MaxPingAttempts = 1
  MaxOpened = 2
SPECIFICATION Spec
CHECK_DEADLOCK FALSE
INVARIANTS
  EndpointInv
  QueueInv
PROPERTIES
  PromisesSettle
