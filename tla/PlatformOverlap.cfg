CONSTANTS
  d1 = d1
  d2 = d2
  r1 = r1
  r2 = r2
  None = None
  WebhookConfigured = TRUE
  DocumentType <- TypeOf
  Documents <- OneDocument
  Requests <- TwoRequests
  Faults <- CompositionFaults
  GatewayFaults <- AllGatewayFaults
  ClientsWait = FALSE
  MaxClock = 1
SPECIFICATION PlatformSpec
SYMMETRY Symmetry
INVARIANTS
  PlatformTypeOK
  VerdictHasCheck
  DetailIsCoherent
PROPERTIES
  ImplementsProcessing
  ImplementsGateway
\* Every request is sent at most once: when all are served nothing is left to do.
CHECK_DEADLOCK FALSE
