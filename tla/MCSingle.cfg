SPECIFICATION FairSpec
CONSTANTS
    n1 = n1  n2 = n2  w1 = w1  w2 = w2  k1 = k1  k2 = k2
    Node = {n1}
    Deposit = {1, 2}
    Wt = {w1, w2}
    Key = {k1, k2}
    KeyOf <- DistinctKeys
    TAU = 2
    EnforceBIP34 = FALSE
    Gbt = {}
    RpcFails = FALSE
    MaxHeight = 4
    MaxCrash = 0
    Work = {1}
    MaxSetback = 0
    None = None
INVARIANTS
    WithdrawalsJoined
    PaidOnce
PROPERTY
    DepositsCredited
CHECK_DEADLOCK FALSE
