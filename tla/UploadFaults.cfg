CONSTANTS
  u1 = u1
  u2 = u2
  u3 = u3
  g1 = g1
  g2 = g2
  ana = ana
  None = None
  Uploads <- ThreeUploads
  Downloads <- TwoDownloads
  Users <- OneUser
  UploadFaults <- UploadFaultKinds
SPECIFICATION Spec
SYMMETRY Symmetry
INVARIANTS
  TypeOK
  UrlsLeadToObjects
  StoresAreExplained
  AnswerTellsStores
\* Every request is sent at most once: when all are served nothing is left to do.
CHECK_DEADLOCK FALSE
