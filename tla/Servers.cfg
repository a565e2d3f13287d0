SPECIFICATION MCSpec
CONSTANTS
  Owner = o
  Stoppers = {s}
  SlowStart = TRUE
  Requests = {r1}
  Managers = {m1, m2}
  NoHooks = nohooks
  MaxRuns = 2
  Ids = {i1, i2}
  Clients = {c1, c2}
  None = None
  Chats = {h1, h2}
  Sessions = {e1, e2}
  Own = own
  Models = {k1, k2}
  Unnamed = unnamed
  Routes <- SomeRoutes
  Asked <- SomeRequests
  MaxRoutes = 2
  MaxMessages = 2
  MaxTold = 2
INVARIANTS TypesOK RunningIsServing RequestsServed RoutesChosen SessionsApart TasksHold
PROPERTY ServersEnd
\* a destroyed server and a set of ended requests stop for good
CHECK_DEADLOCK FALSE
