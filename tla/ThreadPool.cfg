SPECIFICATION FairSpec
CONSTANTS
  Tasks = {t1, t2, t3}
  Workers = {w1, w2}
  Callers = {c1, c2}
  NoTask = NoTask
CHECK_DEADLOCK FALSE
INVARIANTS TypeOK WorkConserving
PROPERTIES ImplementsTaskQueue TaskIsRun
