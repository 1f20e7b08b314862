SPECIFICATION FairStreaming
CONSTANTS
  Connections = {c1}
  Chunks = 2
  MaxAttempts = 2
  Batch = 2
  Buffer = 1
  MaxFaults = 1
INVARIANTS OrderedReplay NeverOutOfOrder WholeAnswer
PROPERTY EventuallyOver
CHECK_DEADLOCK FALSE
