SPECIFICATION Spec
CONSTANTS
  Reserves = {r1, r2}
  Assets = {usdc, a1}
  Usdc = usdc
  NoReserve = NoReserve
  NoAsset = NoAsset
  MaxShares = 2
  MaxFaults = 2
  MaxRemovals = 1
INVARIANT
  TypeOK
PROPERTIES
  FeesNeverLost
  StagedIsSold
  HeldIsSold
  UsdcIsPaid
