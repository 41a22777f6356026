CONSTANTS
  MaxLimit = 2
  BFF_DASHBOARD_PAGE_SIZE = 0
  BFF_DASHBOARD_MAX_DOCUMENTS = 5
  DocumentStatuses = {"UPLOADED", "PROCESSING"}
  MaxUploads = 6
  MaxMoves = 1
SPECIFICATION FairSpec
INVARIANTS
  TypeOK
  NothingIsSkipped
  TooManyIsIncomplete
  QuietSummaryIsExact
  CountsAreWitnessed
PROPERTIES
  SummaryEnds
\* When everything is uploaded and the summary served nothing is left to do.
CHECK_DEADLOCK FALSE
