SPECIFICATION Spec
CONSTANTS
  Chunk = 2
  Contents <- TwoChunks
  PushAttempts = 3
  MaxDrops = 0
  MaxWriteErrors = 1
INVARIANT LossIsReal
CHECK_DEADLOCK FALSE
