CONSTANTS
  d1 = d1
  d2 = d2
  r1 = r1
  r2 = r2
  None = None
  DocumentType <- TypeOf
  WebhookConfigured = FALSE
  Documents <- TwoDocuments
  Requests <- TwoRequests
  Faults = {"gateway"}
  GatewayFaults <- HandledGatewayFaults
  ClientsWait = FALSE
  MaxClock = 0
SPECIFICATION PlatformFairSpec
INVARIANTS
  VerdictsMatchRules
PROPERTIES
  ProcessingEnds
\* Every request is sent at most once: when all are served nothing is left to do.
CHECK_DEADLOCK FALSE
