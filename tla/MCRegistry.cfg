CONSTANTS
  Provider = {p1, p2}
  Field = {f1, f2}
  MaxBlocks = 4
  Entity = {1, 2, 3}
  StreamOf <- MCStreamOf
  Query = {"list", "search", "assignments"}
  PageSize = 2
  MaxChain = 3
  Partition = {q0, q1}
  Malformed = Malformed
  LastPartition = 2
  Plugin = {a, b}
  Code = {c1}
  MaxMined = 3
  Client = {d1, d2}
  MaxSent = 1
  MaxHeld = 3
  MaxRows = 2
  Period = 2
  MaxDelay = 1
  MaxLate = 2
  MaxRecords = 2
  MaxClock = 7
  NoValue = NoValue
  KeyCall = {k1, k2}
  MaxWrites = 1
  MaxRestarts = 1
SPECIFICATION MCSpec
CHECK_DEADLOCK FALSE
INVARIANTS
  ChainViewInv
  ServicesInv
PROPERTIES
  ChainViewSettles
  ServicesGoOn
