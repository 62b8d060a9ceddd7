CONSTANTS
  Total = 5
  BufferCounts = {0, 2}
  RetryTimes = 1
  MaxFaults = 3
SPECIFICATION Spec
INVARIANTS
  TypeOK
  OrderedOnce
  NoGapInBatches
  MissesOnlyBroken
CHECK_DEADLOCK FALSE
