SPECIFICATION MCSpec
CONSTANTS
    Amount = {1, 2, 3}
    Fee = {0, 1}
    Other = Other
    MaxWts = 2
    MaxDeposits = 2
    MaxOutputs = 2
INVARIANTS
    FeeSplit
    SpendsShortestRun
CHECK_DEADLOCK FALSE
