SPECIFICATION FairSpec
CONSTANTS
  Tries = 3
  MaxFaults = 4
  MaxCrashes = 2
INVARIANTS TypeOK NothingLost CrashesHeal
PROPERTIES OKMeansDone CallEnds
CHECK_DEADLOCK FALSE
