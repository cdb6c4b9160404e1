SPECIFICATION Spec
CONSTANTS
  s1 = s1  s2 = s2  n1 = n1  n2 = n2
  Ids = {s1, s2}
  NameOf <- TwoNames
  Clients = {c1, c2}
  Tasks = {}
  Engines = {e1, e2, e3}
  NoEngine = NoEngine  NoProc = NoProc  NoId = NoId
  Verbs = {"start", "stop", "logout", "forceKill"}
  Faults = {"fenceTimeout"}
  MaxAttempts = 1
  MaxSessions = 1
  MaxWrites = 2
  Ordered = TRUE
SYMMETRY Symmetry
INVARIANT SettledReady
INVARIANT PhoneSettled
INVARIANT CapHeld
