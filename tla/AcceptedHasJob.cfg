SPECIFICATION Spec
CONSTANTS
  r1 = r1
  r2 = r2
  r3 = r3
  k1 = k1
  k2 = k2
  h1 = h1
  h2 = h2
  NoJob = NoJob
  Requests <- MCRequests
  Keys <- MCKeys
  Hashes <- MCHashes
  KeyOf <- RepeatKeyOf
  HashOf <- RepeatHashOf
  QueueCapacity = 1
  MaxErrors = 1
  MaxDelays = 0
  MaxExpiries = 0
INVARIANT AcceptedHasJob
CHECK_DEADLOCK FALSE
