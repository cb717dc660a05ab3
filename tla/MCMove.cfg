SPECIFICATION Spec
CONSTANTS
  Nodes = {a, b, c}
  TransferIDs = {t1, t2}
  PushAttempts = 2
  MaxFaults = 3
  Linger = FALSE
  DestroyRaces = FALSE
  EarlyDelete = FALSE
  NoNode = NoNode
  NoTransfer = NoTransfer
SYMMETRY Symmetry
INVARIANTS TypeOK SingleCopy RestsInactive
PROPERTIES NeverLost OneOwner
CHECK_DEADLOCK FALSE
