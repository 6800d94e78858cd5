SPECIFICATION Spec
CONSTANTS
  Reserves = {r1, r2}
  Assets = {usdc, a1}
  Usdc = usdc
  NoReserve = NoReserve
  NoAsset = NoAsset
  MaxShares = 1
  MaxFaults = 1
  MaxRemovals = 1
INVARIANT
  FeesStayWithReserve
