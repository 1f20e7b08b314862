SPECIFICATION Spec
CONSTANTS
  Workers = {w1,w2}
  Requests = {q1,q2}
  MayFail <- MCMayFail
INVARIANT CleanShutdown
CHECK_DEADLOCK FALSE
