SPECIFICATION Spec
CONSTANTS
  TransferIDs = {t1, t2, t3}
  Calls = {k1}
  MaxInbound = 2
  MaxStreams = 1
  MaxFaults = 1
  MaxRestarts = 1
  Overlap = FALSE
  NoTransfer = NoTransfer
SYMMETRY Symmetry
INVARIANTS LimitHolds NoOrphan
PROPERTIES OwnVolume LandedStays
CHECK_DEADLOCK FALSE
