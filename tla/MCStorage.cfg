CONSTANTS
  Message = {"m0", "m1", "m2"}
  Timestamp <- MCTimestamp
  SequenceNumber <- MCSequenceNumber
  BatchMaxRecords = 1
  BatchMaxRetries = 1
  MaxBucketRecords = 2
  MaxResendLast = 2
  ExpiredBefore = 3
  MaxBuckets = 3
  MaxCrashes = 1
  None = None
SPECIFICATION MCSpec
CHECK_DEADLOCK FALSE
INVARIANTS
  BucketsInv
  NothingLost
  QueriesFind
PROPERTIES
  EventuallySettled
