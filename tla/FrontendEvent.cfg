CONSTANTS
  d1 = d1
  d2 = d2
  None = None
  Documents <- OneDocument
  Uploaded <- OneDocument
  FinalStatuses = {"FAILED"}
  MaxNotifications = 6
  Overtaking = {}
  MaxRows = 3
  MaxClicks = 2
  MaxBusy = 1
SPECIFICATION Spec
INVARIANTS
  ListLeavesProcessing
\* With every click and write spent, and everything answered, nothing is left to do.
CHECK_DEADLOCK FALSE
