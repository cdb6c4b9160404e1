SPECIFICATION FairSpec
CONSTANTS
  s1 = s1  s2 = s2  n1 = n1  n2 = n2
  Ids = {s1}
  NameOf <- OneName
  Clients = {c1}
  Tasks = {t1}
  Engines = {e1, e2}
  NoEngine = NoEngine  NoProc = NoProc  NoId = NoId
  Verbs = {"start", "logout", "delete"}
  Faults = {"lost", "unlinked", "initError", "initTimeout", "teardownTimeout", "fenceTimeout", "statusTimeout"}
  MaxAttempts = 1
  MaxSessions = 2
  MaxWrites = 1
  Ordered = TRUE
PROPERTY CallsFinish
