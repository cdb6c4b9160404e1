SPECIFICATION FairSpec
CONSTANTS
  b1 = b1  c1 = c1  c2 = c2
  Batches = {b1}
  Cancels = {c1, c2}
  Sizes = {4}
  MaxBatches = 1
  SaveEvery = 2
  Faults = {"crash", "dbError", "foreignCancel"}
INVARIANT SlotsMatch
INVARIANT CountersAddUp
INVARIANT LateSends
PROPERTY TerminalIsFinal
PROPERTY EveryBatchSettles
