SPECIFICATION Spec
CONSTANTS
    N = 1
    BatchSize = 2
    SlippageSteps = 2
    Funds = 3
    MaxFaults = 0
    MaxForeign = 0
    MaxTx = 4
    MaxReserves = 1
INVARIANTS BasketBoughtOnce
