SPECIFICATION MCSpec
CONSTANTS
  Threads = {t1}
  Keys = {k1}
  AnyKey = anykey
  Scoped = {c1, c2}
  MaxIds = 3
  MaxDepth = 2
  Owner = o
  Others = {x}
  Callbacks = {f, g}
  NoCallback = nocb
  MaxFired = 2
  MaxVersion = 2
  MaxTime = 4
  MaxText = 5
  MaxSize = 3
  MaxJobs = 2
  MaxPieces = 2
  MaxConversations = 2
  MaxOpened = 1
INVARIANTS EmissionExact StoppedIsJoined FiresTheLatest ChangesSeen ChunksFit RepliesInPlace
PROPERTIES TimerEnds WindowReturns
\* a destroyed timer, a text that is split and a window at its bounds stop for good
CHECK_DEADLOCK FALSE
