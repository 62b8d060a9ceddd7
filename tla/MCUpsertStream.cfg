CONSTANTS
  k1 = k1
  k2 = k2
  Key = {k1, k2}
  Bucket <- MCBucket
  Hash <- MCHash
  SlotTables <- MCSlotTables
  RecordSizes <- MCRecordSizes
  TrailerSize = 1
  mSlotBufferSize = 1
  mMaxBufferSize = 1
  MaxRetries = 1
  mCommitTimeout = 1
  MaxWrites = 2
  MaxFaults = 2
SPECIFICATION Spec
INVARIANTS TypeOK NothingLost FlushDelivers NeverUndercounted CommitTruthful
PROPERTIES NeverOverwritesNewer CallsEnd
