SPECIFICATION FairSpec
CONSTANTS
  Workers = {w1, w2}
  Clients = {c1}
  Calls = {t1, t2}
  Managers = {global, m1}
  Watched = {t1, t2}
  Throwing = {t2}
  None = None
INVARIANTS ReportedOnce SpansPaired
PROPERTY CallsEnd
\* the program may stop: calls are over and the pool is gone or idle
CHECK_DEADLOCK FALSE
