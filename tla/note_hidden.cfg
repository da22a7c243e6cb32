SPECIFICATION Spec
CONSTANTS
  Caller = {c1, c2}
  Ttl = 1
  MaxStale = 2
  Lifetime = 4
  Margin = 2
  Latency = 1
  MaxTime = 2
  MaxCalls = 2
  MaxClock = 2
  MaxMints = 1
  MaxRevocations = 0
CHECK_DEADLOCK FALSE
INVARIANTS
  NothingWaitsForANote
