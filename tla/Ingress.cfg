SPECIFICATION FairSpec
CONSTANTS
  d1 = d1
  Deliveries = {d1}
  Modes = {TRUE, FALSE}
  MaxAttempts = 2
  JobAttempts = 2
  MaxRows = 7
  RedriveRows = 1
  MaxFaults = 2
  Faults = {"crash", "stall", "redis", "db", "workerDb", "toggle", "noBackoff"}
INVARIANT NothingLost
INVARIANT OneDeadLetter
PROPERTY EverySettles
PROPERTY KeepsPromise
