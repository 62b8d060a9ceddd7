CONSTANTS
  WordSize = 4
  ChunkSize = 4
  MaxChunkSize = 5
  BatchSize = 3
  MaxData = 12
  MaxRead = 4
  Columns = 2
  Value = {"x"}
  Null = "null"
  BufferSize = 4
  MaxRecords = 2
  InputSize = 2
  SubSize = 3
  WindowSize = 2
  MaxBytes = 5
SPECIFICATION Spec
INVARIANTS
  ReadsOnlyWritten
  WholeUnlessDamaged
  MissesOnlyChunks
  EndMeansAll
PROPERTY ReadReturns
CHECK_DEADLOCK FALSE
