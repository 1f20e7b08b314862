SPECIFICATION FairPipeline
CONSTANTS
  alice = alice
  NoJob = NoJob
  Users <- MCUsers
  Owner <- MCOwner
  Jobs = {j1}
  Workers = {w1,w2}
  Recoverers = {r1,r2}
  Lease = 1
  Capacity = 2
  MaxAttempts = 2
  MaxCrashes = 0
  MaxErrors = 0
  MaxStalls = 0
  MaxFaults = 2
INVARIANT ToldIsRecorded
PROPERTIES TerminalIsFinal EventuallySettled
