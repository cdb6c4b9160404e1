SPECIFICATION FairSpec
CONSTANTS
  Versions = {1, 2, 3}
  Broken = {3}
  MaxOps = 3
  MaxFaults = 2
  Faults = {"crash", "worker", "fs"}
INVARIANT TypeOK
INVARIANT RuntimeAgrees
INVARIANT SurvivesUpdates
INVARIANT UpdateAtomic
 
PROPERTY RequestsEnd
CHECK_DEADLOCK FALSE
