SPECIFICATION MCSpec
CONSTANTS
  None = None
  Scenes = {"config"}
  MaxIterations = 2
  MaxCalls = 2
  MaxOthers = 2
  MaxAgents = 3
  MinScore = 2
  MaxScore = 3
  MaxCorrections = 2
  Texts = {"a", "b"}
  MaxEvents = 3
  MaxBlocks = 2
  Pieces <- SomePieces
  Stops <- SomeStops
  ContextSize = 5
  MaxPrompt = 2
  MaxNew = 3
  MaxPrompts = 2
  Users = {u1, u2, u3}
  Torn = 99
  Free = free
  MaxConfigs = 3
  MaxUpdates = 3
  Tools = {t1, t2}
  MaxBatch = 2
  MaxCallbacks = 10
  MaxNesting = 4
  Widths = {200, 400}
  Height = 100
  MaxMessages = 2
  MaxSteps = 4
INVARIANT UrlIsWhole
\* what was asked for ends for good
CHECK_DEADLOCK FALSE
