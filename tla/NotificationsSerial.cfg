CONSTANTS
  d1 = d1
  r1 = r1
  r2 = r2
  p1 = p1
  None = None
  DocumentType <- TypeOf
  WebhookConfigured = TRUE
  Documents <- OneDocument
  Requests <- TwoRequests
  Pages <- OnePage
  Faults <- EndpointFaults
  GatewayFaults <- AllGatewayFaults
  ClientsWait = TRUE
  MaxClock = 1
SPECIFICATION NotificationsSpec
SYMMETRY Symmetry
INVARIANTS
  LatestCheckIsTheVerdict
  SettledStoresAgree
  HeardInOrder
  EventEndsProcessing
  LastHeardIsCurrent
PROPERTIES
  FollowsLifecycle
\* Every request is sent at most once: when all are served nothing is left to do.
CHECK_DEADLOCK FALSE
