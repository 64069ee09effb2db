SPECIFICATION FairSpec
CONSTANTS
  ChunkLen = 2
  FileLens = {0, 3}
  Surpluses <- FileSurpluses
  MaxCalls = 3
  Refuses = TRUE
  EarlyTimeouts = TRUE
CHECK_DEADLOCK FALSE
INVARIANTS
  FlashedIsFile
  WrittenBeforeFlash
  OkayIsOwn
PROPERTY
  CallEnds
