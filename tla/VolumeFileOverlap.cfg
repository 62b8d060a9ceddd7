CONSTANTS
  ChunkSize = 2
  MaxData = 3
  MaxRead = 3
  MaxFaults = 1
SPECIFICATION Spec
INVARIANTS
  ReadsTheFile
CHECK_DEADLOCK FALSE
