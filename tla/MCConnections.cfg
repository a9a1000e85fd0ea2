CONSTANTS
  None = None
  Reason = {"stream part", "signalling"}
  MaxSockets = 2
  a = a b = b s = s t = t
  Server = {a, b}
  Definition <- MCDefinitions
  NoProxies = NoProxies
  MaxTasks = 2
  MaxCalls = 2
  MaxLosses = 1
  Stream = {s, t}
  PartsOf <- MCPartsOf
  MaxBlocks = 3
SPECIFICATION MCSpec
CHECK_DEADLOCK FALSE
INVARIANTS
  ConnectionsInv
  NeverGoesBack
PROPERTIES
  SocketsSettle
  ProxiesAreReplaced
  AssignmentsSettle
