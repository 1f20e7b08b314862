SPECIFICATION FairSubmission
CONSTANTS
  r1 = r1
  r2 = r2
  r3 = r3
  k1 = k1
  k2 = k2
  h1 = h1
  h2 = h2
  NoJob = NoJob
  Requests <- MCRequests
  Keys <- MCKeys
  Hashes <- MCHashes
  KeyOf <- RepeatKeyOf
  HashOf <- MixedHashOf
  QueueCapacity = 1
  MaxErrors = 1
  MaxDelays = 1
  MaxExpiries = 1
INVARIANTS  OneOpenJobPerHash   RejectedNeverRuns InFlightIsReal
PROPERTY EveryJobEnds
CHECK_DEADLOCK FALSE
