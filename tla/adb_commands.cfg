SPECIFICATION FairSpec
CONSTANTS
  RemoteIds = {5, 6, 7}
  MaxChunks = 2
  ExtraClose = TRUE
  Programs <- MCPrograms
  MaxCommands = 4
  PushWrites = 2
  EarlyTimeouts = TRUE
CHECK_DEADLOCK FALSE
INVARIANTS
  OnePiece
  NoDoubleAck
  ResponseFromService
  InstalledIsPushed
PROPERTY
  CallEnds
