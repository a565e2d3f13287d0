SPECIFICATION FairSpec
CONSTANTS
  Workers = {w1, w2}
  Clients = {c1, c2}
  Tasks = {t1, t2, t3}
  None = None
INVARIANTS TypeOK WorkConserving DrainedAtDestruction
PROPERTIES AcceptedCompletes ExecutorSpec
\* the pool may stop: after the destructor nothing is left to do
CHECK_DEADLOCK FALSE
