SPECIFICATION Spec
CONSTANTS
  Caller = {c1, c2}
  Ttl = 1
  MaxStale = 2
  Lifetime = 4
  Margin = 2
  Latency = 1
  MaxTime = 5
  MaxCalls = 3
  MaxClock = 2
  MaxMints = 2
  MaxRevocations = 1
SYMMETRY Symmetric
CHECK_DEADLOCK FALSE
INVARIANTS
  TypeOK
  ServedBriefIsRecent
  OnlyAnOverlappingFetchHidesANote
  NoTokenExpiresInFlight
PROPERTIES
  RefusedTokenIsNotOffered
