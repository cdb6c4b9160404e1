SPECIFICATION FairSpec
CONSTANTS
  m1 = m1
  Messages = {m1}
  Kinds = {"api", "bulk", "phone", "inbound"}
  Acks = {"DELIVERED", "READ"}
  Reactions = TRUE
  MaxFaults = 1
  Faults = {"crash", "db", "noId", "lateReject", "delete"}
INVARIANT AcceptedIsShown
INVARIANT InboundOnce
INVARIANT NoOrphanRows
PROPERTY StatusAdvances
PROPERTY PendingResolves
CHECK_DEADLOCK FALSE
