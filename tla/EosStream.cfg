\* One stream, two servers, two batches, any two faults.
CONSTANTS
  Addr = {a1, a2}
  NoAddr = NoAddr
  Interval = 1
  MaxRetried = 1
  LastBatch = 2
  MaxFaults = 2
SPECIFICATION Spec
PROPERTIES
  StoresExactlyOnce
  EverythingWritten
CHECK_DEADLOCK FALSE
