SPECIFICATION Spec
CONSTANTS
  Exports = {e1}
  ExportTargets = {"snap", "vol"}
  MaxFaults = 0
  MaxCrashes = 0
  Callers = "polling"
INVARIANT AttachedActive
CHECK_DEADLOCK FALSE
