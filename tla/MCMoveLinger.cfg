SPECIFICATION Spec
CONSTANTS
  Nodes = {a, b}
  TransferIDs = {t1, t2}
  PushAttempts = 2
  MaxFaults = 3
  Linger = TRUE
  DestroyRaces = FALSE
  EarlyDelete = FALSE
  NoNode = NoNode
  NoTransfer = NoTransfer
INVARIANT SingleCopy
CHECK_DEADLOCK FALSE
