SPECIFICATION Spec
CONSTANTS
  LocalIds = {13, 15}
  RemoteIds = {5}
  StaleIds = {3}
  QueueCap = 2
  WireFails = TRUE
  MaxChunks = 2
  AuthRequired = TRUE
  KeyTrusted = TRUE
  StaleTraffic <- StaleTraffics
  Workers = {1}
  Servers = {1}
  Server <- OnePort
  ClientChunks = 2
CHECK_DEADLOCK FALSE
INVARIANTS
  OutputInOrder
  NoStaleAfterConnect
  ConnectedMeansOnline
