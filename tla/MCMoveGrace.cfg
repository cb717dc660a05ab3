SPECIFICATION Spec
CONSTANTS
  Nodes = {a, b}
  TransferIDs = {t1, t2}
  PushAttempts = 2
  MaxFaults = 3
  Linger = FALSE
  DestroyRaces = TRUE
  EarlyDelete = FALSE
  NoNode = NoNode
  NoTransfer = NoTransfer
PROPERTY NeverLost
CHECK_DEADLOCK FALSE
