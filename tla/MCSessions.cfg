CONSTANTS
  Client = {c1, c2}
  n1 = n1
  n2 = n2
  Name <- MCName
  List <- MCList
  MaxRetry = 1
  MaxCalls = 2
  ChunkSize = 2
  MaxData = 3
  MaxRead = 3
  MaxFaults = 1
  MaxRow = 2
  WordSize = 2
  PieceSize = 3
  SessionTimeout = 2
  Task = {t1, t2}
  Timeout = {1, 3}
  Interval = {0, 1, 2}
  Word = 4
  MaxItem = 4
  PageSize = 2
SPECIFICATION Spec
INVARIANTS
  ReturnsAreTrue
  RefusesForReason
  FileHoldsWritten
  ReadsInOrder
PROPERTY CallsEnd
CHECK_DEADLOCK FALSE
