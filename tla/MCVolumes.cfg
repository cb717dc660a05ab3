SPECIFICATION FairSpec
CONSTANTS
  Exports = {e1}
  ExportTargets = {"snap"}
  MaxFaults = 1
  MaxCrashes = 1
  Callers = "polling"
INVARIANTS TypeOK AttachedActive SnapshotsRest
PROPERTIES DoneMeansDone OperationsEnd
CHECK_DEADLOCK FALSE
