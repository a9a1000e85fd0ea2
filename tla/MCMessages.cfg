CONSTANTS
  NoRef = NoRef
  Infinity = 99
  MaxTime = 4
  MaxSeqNo = 1
  MaxGaps = 2
  Number <- MCNumber
  Messages <- AnyMessages
  m1 = m1 m2 = m2 m3 = m3 s = s t = t
  Node = {a, b}
  Local = Local
  Message = {m1, m2, m3}
  Part = {s, t}
  PartOf <- MCPartOf
  MinTargets = 1
  MaxTasks = 2
  Ttl = 1
  MaxDeliveryFailures = 2
  MaxSends = 1
  NoKey = NoKey
  Pipeline = {"p", "q"}
  MaxTimestamp = 2
  MaxPublishes = 2
  MaxKeys = 2
  MaxFailures = 1
SPECIFICATION MessagesSpec
SYMMETRY Symmetry
CHECK_DEADLOCK FALSE
INVARIANTS
  DetectorInv
  ForklessInv
  PropagationInv
  PublishingInv
PROPERTIES
  EndedForAReason
