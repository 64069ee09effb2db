SPECIFICATION Spec
CONSTANTS
  LocalIds = {12, 14}
  RemoteIds = {5, 6}
  StaleIds = {3}
  QueueCap = 1
  WireFails = FALSE
  MaxChunks = 3
  AuthRequired = FALSE
  KeyTrusted = TRUE
  StaleTraffic <- StaleFrames
  Shells = {1, 2}
  Thread <- OneThread
  Blocking = {2}
CHECK_DEADLOCK FALSE
INVARIANTS
  StaleNeverDelivered
  OneWriteUnderWay
  OwnCommand
PROPERTY
  OutputIsReliable
