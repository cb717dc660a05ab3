SPECIFICATION FairSpec
CONSTANTS
  Chunk = 2
  Contents <- SmallContents
  PushAttempts = 3
  MaxDrops = 2
  MaxWriteErrors = 1
INVARIANTS Integrity NoFalseLoss Continues
PROPERTY StreamEnds
CHECK_DEADLOCK FALSE
