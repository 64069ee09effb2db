SPECIFICATION FairSpec
CONSTANTS
  MaxData = 10
  NameLen = 2
  ChunkLens <- ThreeChunks
  FailLen = 3
  ServiceFails = TRUE
CHECK_DEADLOCK FALSE
INVARIANTS
  RecordsInOrder
  PacketsFit
  ResultIsAnswer
PROPERTY
  SessionEnds
