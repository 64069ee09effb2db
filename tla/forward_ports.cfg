SPECIFICATION Spec
CONSTANTS
  LocalIds = {13, 15}
  RemoteIds = {5, 6}
  StaleIds = {3}
  QueueCap = 2
  WireFails = FALSE
  MaxChunks = 1
  AuthRequired = FALSE
  KeyTrusted = TRUE
  StaleTraffic <- NoStaleFrames
  Workers = {1, 2}
  Servers = {1, 2}
  Server <- TwoPorts
  ClientChunks = 1
CHECK_DEADLOCK FALSE
INVARIANT
  NoExpiredAnswer
