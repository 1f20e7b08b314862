SPECIFICATION FairPipeline
CONSTANTS
  alice = alice
  NoJob = NoJob
  Users <- MCUsers
  Owner <- MCOwner
  Jobs = {j1}
  Workers = {w1,w2}
  Recoverers = {r1}
  Lease = 1
  Capacity = 2
  MaxAttempts = 2
  MaxCrashes = 1
  MaxErrors = 1
  MaxStalls = 1
  MaxFaults = 2
INVARIANTS OnePlace CompletedIsEarned SoleOwner
PROPERTIES  EventuallyTerminal EventuallyClean
