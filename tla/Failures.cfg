SPECIFICATION Spec
CONSTANTS
  s1 = s1  s2 = s2  n1 = n1  n2 = n2
  Ids = {s1}
  NameOf <- OneName
  Clients = {c1, c2}
  Tasks = {}
  Engines = {e1, e2, e3}
  NoEngine = NoEngine  NoProc = NoProc  NoId = NoId
  Verbs = {"start", "stop", "logout", "delete"}
  Faults = {"engineError", "initError", "dbError", "initTimeout", "teardownTimeout", "fenceTimeout", "statusTimeout"}
  MaxAttempts = 1
  MaxSessions = 2
  MaxWrites = 2
  Ordered = TRUE
SYMMETRY Symmetry
PROPERTY CredentialFence
INVARIANT EnginesAccounted
