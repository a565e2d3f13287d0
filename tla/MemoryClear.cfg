SPECIFICATION MCSpec
CONSTANTS
  None = None
  Chosen = {"long"}
  Threads = {p, q}
  Texts = {x, y}
  NoExchange = none
  K = 2
  MaxMessages = 7
  Objects = {a, b}
  Sessions = {s1, s2}
  Msgs = {m1}
  BadMsgs = {}
  Backends = {"json"}
  TornWrites = FALSE
  MaxMsgs = 2
  MaxClears = 1
  MaxMishaps = 0
  Ids = {i1, i2}
  Vals = {v1, v2, bad}
  BadVals = {bad}
  MaxDocs = 3
  Caller = caller
  Again = again
  MaxBatch = 2
  MaxFaults = 2
  Adders = {p, q}
  Embeddings = {1, 2, 4}
  Tags = {"x", "y"}
  Nobody = nobody
  MaxAdds = 3
  MaxDeletes = 1
SYMMETRY Symm
PROPERTY OneLogPerSession
\* the callers may stop calling
CHECK_DEADLOCK FALSE
