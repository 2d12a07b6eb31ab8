SPECIFICATION Spec
CONSTANTS
    n1 = n1  n2 = n2  w1 = w1  w2 = w2  k1 = k1  k2 = k2
    Node = {n1}
    Deposit = {1}
    Wt = {w1}
    Key = {k1}
    KeyOf <- OneWt
    TAU = 1
    EnforceBIP34 = TRUE
    Gbt = {n1}
    RpcFails = TRUE
    MaxHeight = 2
    MaxCrash = 1
    Work = {1}
    MaxSetback = 1
    None = None
INVARIANTS
    IndexCoversChain
    
CHECK_DEADLOCK FALSE
