SPECIFICATION FairSpec
CONSTANTS
  TransferIDs = {t1}
  Calls = {k1, k2}
  MaxInbound = 1
  MaxStreams = 1
  MaxFaults = 1
  MaxRestarts = 1
  Overlap = TRUE
  NoTransfer = NoTransfer
INVARIANT AnswersTrue
PROPERTIES IdsSpent SessionsEnd
CHECK_DEADLOCK FALSE
