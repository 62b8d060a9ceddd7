CONSTANTS
  BufferSize = 2
  MaxWriteSize = 2
  DrainSize = 1
  SocketTimeout = 1
  MaxRetry = 2
  MaxBody = 3
  Codes = {200, 429}
SPECIFICATION Spec
INVARIANTS
  TypeOK
  BytesInOrder
  WrittenIsTaken
  EndIsEnd
PROPERTY CallsReturn
