SPECIFICATION FairSpec
CONSTANTS
  RemoteIds = {5, 6, 7, 8}
  MaxChunks = 3
  ExtraClose = TRUE
  MaxCalls = 4
  Records = 2
  Prompts <- SomePrompts
CHECK_DEADLOCK FALSE
INVARIANTS
  OutputIsOwn
  OutputWhole
  PushedWhole
  ResultIsOwn
PROPERTY
  CallEnds
