CONSTANTS
  d1 = d1
  d2 = d2
  c1 = c1
  c2 = c2
  None = None
  Documents <- TwoDocuments
  Calls <- TwoCalls
  GatewayFaults <- GatewayFaultKinds
  MaxClock = 1
SPECIFICATION Spec
SYMMETRY Symmetry
INVARIANTS
  TypeOK
  ReplyIsRecorded
  EventFollowsCheck
  VerdictIsVouched
PROPERTIES
  LatestNeverGoesBack
\* Every check is asked for at most once: when all are served nothing is left.
CHECK_DEADLOCK FALSE
