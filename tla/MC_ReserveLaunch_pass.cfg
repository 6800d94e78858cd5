SPECIFICATION FairSpec
CONSTANTS
    N = 2
    BatchSize = 2
    SlippageSteps = 2
    Funds = 3
    MaxFaults = 1
    MaxForeign = 1
    MaxTx = 6
    MaxReserves = 1
INVARIANTS TypeOK ReportedActive PrefixRegistered GateOpen SeedFunded
PROPERTIES LaunchCompletes KeptUntilActive
