CONSTANTS
  d1 = d1
  d2 = d2
  None = None
  Documents <- TwoDocuments
  Uploaded <- OneDocument
  FinalStatuses = {"FAILED"}
  MaxNotifications = 1
  Overtaking = {"list", "detail", "process", "upload"}
  MaxRows = 3
  MaxClicks = 2
  MaxBusy = 1
SPECIFICATION Spec
INVARIANTS
  TypeOK
  ProcessOnce
  GuessIsTemporary
  DetailIsReal
  NewestDetailIsCurrent
\* With every click and write spent, and everything answered, nothing is left to do.
CHECK_DEADLOCK FALSE
