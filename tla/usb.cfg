SPECIFICATION FairSpec
CONSTANTS
  Ports = {p1, p2}
  Matched = {p1}
  Handles = {h1, h2}
  Pool = pool
  Nobody = nobody
  Loose = {p1}
  MaxReplugs = 1
  MaxPackets = 1
CHECK_DEADLOCK FALSE
INVARIANTS
  OpenIsCached
  OpenAloneSucceeds
  RefreshIsComplete
  ClaimsArePooled
PROPERTY
  CallsEnd
