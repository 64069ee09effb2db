SPECIFICATION FairConnectSpec
CONSTANTS
  NumKeys = 3
  MaxAttempts = 3
CHECK_DEADLOCK FALSE
INVARIANTS
  ConnectedMeansOnline
  OfferMeansNoKeyWorks
PROPERTY
  RetryConnects
