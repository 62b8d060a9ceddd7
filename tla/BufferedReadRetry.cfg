CONSTANTS
  Total = 4
  BufferCounts = {2}
  RetryTimes = 5
  MaxFaults = 1
SPECIFICATION Spec
INVARIANT EveryRecordRead
CHECK_DEADLOCK FALSE
