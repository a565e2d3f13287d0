SPECIFICATION MCSpec
CONSTANTS
  None = None
  Chosen = {"short", "long", "sqlite", "caller", "retrieval"}
  Threads = {p, q}
  Texts = {x, y}
  NoExchange = none
  K = 2
  MaxMessages = 7
  Objects = {a, b}
  Sessions = {s1, s2}
  Msgs = {m1, bad}
  BadMsgs = {bad}
  Backends = {"json", "sqlite"}
  TornWrites = TRUE
  MaxMsgs = 2
  MaxClears = 1
  MaxMishaps = 2
  Ids = {i1, i2}
  Vals = {v1, v2, bad}
  BadVals = {bad}
  MaxDocs = 3
  Caller = caller
  Again = again
  MaxBatch = 2
  MaxFaults = 2
  Adders = {p, q}
  Embeddings = {1, 2, 4}
  Tags = {"x", "y"}
  Nobody = nobody
  MaxAdds = 3
  MaxDeletes = 1
SYMMETRY Symm
VIEW View
INVARIANTS TypesOK WindowIsSuffix WholeExchanges ReadsLog Durable StoreAgrees SearchesRank
PROPERTY SqliteOneLog
\* the callers may stop calling
CHECK_DEADLOCK FALSE
