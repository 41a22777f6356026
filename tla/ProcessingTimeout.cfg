CONSTANTS
  d1 = d1
  r1 = r1
  r2 = r2
  r3 = r3
  None = None
  Documents <- OneDocument
  Requests <- OneRequest
  Faults = {"gateway_timeout"}
  ClientsWait = TRUE
  WebhookConfigured = FALSE
SPECIFICATION FairSpec
PROPERTIES
  UnansweredCheckMarksFailed
\* Every request is sent at most once: when all are served nothing is left to do.
CHECK_DEADLOCK FALSE
