SPECIFICATION FairSpec
CONSTANTS
  Workers = {w1,w2}
  Requests = {q1,q2}
  MayFail <- MCMayFail
INVARIANTS PoolsOutliveWork RollbackIsComplete
PROPERTIES  ShutdownEnds
CHECK_DEADLOCK FALSE
