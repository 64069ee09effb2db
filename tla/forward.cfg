SPECIFICATION FairSpec
CONSTANTS
  LocalIds = {13, 15}
  RemoteIds = {5, 6}
  StaleIds = {3}
  QueueCap = 1
  WireFails = FALSE
  MaxChunks = 0
  AuthRequired = TRUE
  KeyTrusted = TRUE
  StaleTraffic <- NoStaleFrames
  Workers = {1, 2}
  Servers = {1}
  Server <- OnePort
  ClientChunks = 2
CHECK_DEADLOCK FALSE
INVARIANTS
  OwnStream
  InputInOrder
PROPERTIES
  AuthenticateEnds
