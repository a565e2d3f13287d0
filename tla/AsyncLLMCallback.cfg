SPECIFICATION Spec
CONSTANTS
  Workers = {w1}
  Clients = {c1}
  Calls = {t1, t2}
  Managers = {global}
  Watched = {t1, t2}
  Throwing = {t2}
  None = None
INVARIANT CompletesOnce
\* the program may stop: calls are over and the pool is gone or idle
CHECK_DEADLOCK FALSE
