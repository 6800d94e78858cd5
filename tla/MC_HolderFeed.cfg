SPECIFICATION Spec
CONSTANTS
  Bps = 3
  SsrShare = 1
  HolderShare = 3
  PoolShares = {0, 2}
  Window = 2
  CollectMin = 1
  FeedMin = 2
  LegMin = 1
  Weight <- Weights
  MaxReceived = 3
  MaxFaults = 1
  a1 = a1
  a2 = a2
INVARIANTS
  TypeOK
  TrackedIsThere
  PoolWithinShare
  NeverAheadOfStream
  EveryUnitAccounted
PROPERTIES
  ReleasedNeverTakenBack
  StreamIsFed
