SPECIFICATION Spec
CONSTANTS
  Assets = {a1}
  U64Max = 4
  BpsDenominator = 10
  SecondsPerYear = 1
  MinSeedAmount = 1
  MaxReserveAssets = 1
  MinMintFeeBps = 1
  MinAnnualFeeBps = 1
  MaxMintFeeBps = 4
  MaxRedemptionFeeBps = 4
  MaxAnnualFeeBps = 4
  FeeConfigs <- MCFeeConfigs
  MaxTime = 2
  MaxPending = 2
INVARIANTS
  MintedSharesBacked
