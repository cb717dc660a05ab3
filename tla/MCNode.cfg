SPECIFICATION MCSpec
CONSTANTS
  Devices = {d1, d2}
  Tracked = {d1}
  DeviceLists = {{}, {d2}}
  Requests <- SmallRequests
  MaxSize = 3
  Width = 1024
  Unit = 4
  Hundred = 10
  PoolSizes <- SmallSizes
  FreeSpaces <- SmallFree
  TransferChunk = 4
  Chunks = {0, 2, 3}
  LargePool = 512
  Resizers = {r1, r2}
  MaxFaults = 1
INVARIANTS NodeTypeOK AsAsked NeverInvalid AbsenceReal SafePool Authorised
PROPERTIES ShrinkOnlyAsked ResizeSafe StartsWhenSafe StopEnds
