SPECIFICATION MCSpec
CONSTANTS
    Amount = {4, 6}
    Fee = {1}
    Other = Other
    MaxWts = 2
    MaxDeposits = 2
    MaxOutputs = 2
INVARIANT ValidWT
CHECK_DEADLOCK FALSE
