SPECIFICATION MCSpec
CONSTANTS
  Owner = o
  Stoppers = {}
  SlowStart = FALSE
  Requests = {r1}
  Managers = {m1, m2}
  NoHooks = nohooks
  MaxRuns = 2
  Ids = {i1}
  Clients = {c1}
  None = None
  Chats = {h1}
  Sessions = {e1}
  Own = own
  Models = {k1}
  Unnamed = unnamed
  Routes <- SomeRoutes
  Asked <- SomeRequests
  MaxRoutes = 0
  MaxMessages = 1
  MaxTold = 0
PROPERTY ApiStopEndsRun
\* the servers may be destroyed
CHECK_DEADLOCK FALSE
