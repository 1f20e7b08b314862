SPECIFICATION OvertakingSpec
CONSTANTS
  alice = alice
  bob = bob
  a1 = a1
  a2 = a2
  b1 = b1
  Users <- MCUsers
  Jobs <- MCJobs
  Owner <- MCOwner
  Lease = 1
  Capacity = 1
  MaxTime = 2
  MaxRotation = 4
INVARIANTS ActiveIffPending OnePlace KeyGuardsResend ServedInTurn
PROPERTIES OnlyRecoveryExceedsCapacity FIFO ImplementsFairQueue
