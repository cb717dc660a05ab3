SPECIFICATION FairSpec
CONSTANTS
  Nodes = {a, b}
  TransferIDs = {t1, t2}
  PushAttempts = 2
  MaxFaults = 2
  Linger = FALSE
  DestroyRaces = FALSE
  EarlyDelete = FALSE
  NoNode = NoNode
  NoTransfer = NoTransfer
PROPERTY MovesEnd
CHECK_DEADLOCK FALSE
