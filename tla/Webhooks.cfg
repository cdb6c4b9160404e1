SPECIFICATION FairSpec
CONSTANTS
  d1 = d1  d2 = d2
  Deliveries = {d1, d2}
  Settings <- Mixed
  MaxActive = 1
  RetryCount = 2
  MaxFaults = 2
  Faults = {"crash", "stop", "db", "redis"}
INVARIANT LimiterSound
INVARIANT NothingVanishes
INVARIANT OneOutcome
PROPERTY EverySettles
CHECK_DEADLOCK FALSE
