SPECIFICATION FairSessionSpec
CONSTANTS
  LocalIds = {12, 14}
  RemoteIds = {5, 6}
  StaleIds = {}
  QueueCap = 2
  WireFails = FALSE
  MaxChunks = 3
  AuthRequired = FALSE
  KeyTrusted = TRUE
  StaleTraffic <- NoStaleFrames
  Pushes = {1}
  FileChunks <- ShortFile
  BlockingPush = FALSE
  Shells = {1}
  Thread <- OneThread
  Blocking = {1}
CHECK_DEADLOCK FALSE
INVARIANTS
  RecordsInOrder
  EndedMeansFinished
  ShellOutputWhole
PROPERTY
  CallsEnd
