CONSTANTS
  WordSize = 2
  ChunkSize = 3
  BatchSize = 2
  MaxData = 4
SPECIFICATION Spec
INVARIANT EndsOnlyAfterAll
CHECK_DEADLOCK FALSE
