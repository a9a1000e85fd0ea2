CONSTANTS
  NoRef = NoRef
  Message <- MCMessage
  MaxRequestsPerGap = 2
  Receiver = {r1, r2}
  MaxHops = 1
  MaxChanges = 1
SPECIFICATION MCSpec
CHECK_DEADLOCK FALSE
INVARIANTS
  TasksAndGapsAgree
  StreamMessagesInv
PROPERTIES
  DeliversInOrder
  DroppedAfterLastRequest
  EventuallyDelivered
