SPECIFICATION Spec
CONSTANTS
  LocalIds = {12, 14}
  RemoteIds = {5, 6}
  StaleIds = {3}
  QueueCap = 1
  WireFails = FALSE
  MaxChunks = 2
  AuthRequired = FALSE
  KeyTrusted = TRUE
  StaleTraffic <- NoStaleFrames
  Shells = {1, 2}
  Thread <- OneThread
  Blocking = {}
CHECK_DEADLOCK FALSE
INVARIANT
  FramesContiguous
