CONSTANTS
  MaxBody = 5
  ChunkBytes = 2
  WireCap = 3
  MaxReply = 5
  AckCap = 2
  ReadSize = 2
SPECIFICATION Spec
INVARIANT FailureDeclared
CHECK_DEADLOCK FALSE
