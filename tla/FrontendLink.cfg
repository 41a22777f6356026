CONSTANTS
  d1 = d1
  d2 = d2
  None = None
  Documents <- TwoDocuments
  Uploaded <- TwoDocuments
  FinalStatuses = {"FAILED"}
  MaxNotifications = 6
  Overtaking = {}
  MaxRows = 3
  MaxClicks = 3
  MaxBusy = 1
SPECIFICATION Spec
INVARIANTS
  LinkIsOfShownDocument
\* With every click and write spent, and everything answered, nothing is left to do.
CHECK_DEADLOCK FALSE
