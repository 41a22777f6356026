CONSTANTS
  d1 = d1
  r1 = r1
  r2 = r2
  r3 = r3
  None = None
  Documents <- OneDocument
  Requests <- TwoRequests
  Faults = {}
  ClientsWait = FALSE
  WebhookConfigured = TRUE
SPECIFICATION Spec
INVARIANTS
  OneRunAtATime
\* Every request is sent at most once: when all are served nothing is left to do.
CHECK_DEADLOCK FALSE
