SPECIFICATION Spec
CONSTANTS
  Assets = {a1, a2}
  U64Max = 3
  BpsDenominator = 10
  SecondsPerYear = 1
  MinSeedAmount = 1
  MaxReserveAssets = 2
  MinMintFeeBps = 1
  MinAnnualFeeBps = 1
  MaxMintFeeBps = 4
  MaxRedemptionFeeBps = 4
  MaxAnnualFeeBps = 4
  FeeConfigs <- MCFeeConfigs
  MaxTime = 2
  MaxPending = 1
INVARIANTS
  TypeOK
  FeeSharesBacked
  ClosedOwesNothing
  NeverOverbilled
  RedemptionNeverBlocked
  FeeSharesRedeemable
SYMMETRY AssetSymmetry
PROPERTIES
  BackingNeverDiluted
  LastShareTakesEverything
  AccrualWithinRate
  LedgerImplemented
