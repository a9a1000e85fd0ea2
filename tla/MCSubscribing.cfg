CONSTANTS
  Sub = {"s1", "s2"}
  NoSession = NoSession
  MaxSessions = 2
  Chain = {"a"}
  LengthOf <- MCLengthOf
  Bad <- MCBad
  Plain = {"p"}
  Resender = {"r"}
  Raw = {"w"}
  BufferSize = 1
  Nobody = Nobody
  Pusher = {"p"}
  Puller = {"q"}
  BufferLimit = 1
  MaxItems = 2
  Caller = {"c1", "c2"}
  Listener = {"l1", "l2"}
  Arg = {"x", "y"}
  NoArg = "none"
  MaxTriggers = 3
SPECIFICATION MCSpec
CHECK_DEADLOCK FALSE
INVARIANTS
  SubscriptionsInv
  PipelineInv
  StreamsInv
PROPERTIES
  EverythingGoesOn
