SPECIFICATION Spec
CONSTANTS
  r1 = r1
  r2 = r2
  r3 = r3
  NoTier = NoTier
  Tiers <- MCTiers
  Capacity <- MCCapacity
  FillRate <- MCFillRate
  BucketTTL <- MCBucketTTL
  MaxInput <- MCMaxInput
  MaxOutput <- MCMaxOutput
  ContextLength <- MCContextLength
  CacheTTL = 2
  Requests = {r1, r2, r3}
  Runes <- MCRunes
  ModelTiers <- MCModelTiers
  MaxLag = 1
  Openings = {0, 3}
  MaxTime = 4
  MaxUpdates = 1
  MaxErrors = 1
INVARIANTS Budget TierIsRecent
CHECK_DEADLOCK FALSE
