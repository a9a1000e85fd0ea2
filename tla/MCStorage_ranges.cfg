CONSTANTS
  Message = {"m1", "m2", "m3"}
  Timestamp <- MCTimestamp
  SequenceNumber <- MCSequenceNumber
  BatchMaxRecords = 1
  BatchMaxRetries = 1
  MaxBucketRecords = 2
  MaxResendLast = 2
  ExpiredBefore = 0
  MaxBuckets = 3
  MaxCrashes = 0
  None = None
SPECIFICATION Spec
CHECK_DEADLOCK FALSE
INVARIANT FromFindsFirst
