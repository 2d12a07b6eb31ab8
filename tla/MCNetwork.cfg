SPECIFICATION Spec
CONSTANTS
    n1 = n1  n2 = n2  w1 = w1  w2 = w2  k1 = k1  k2 = k2
    Node = {n1, n2}
    Deposit = {1}
    Wt = {}
    Key = {}
    KeyOf <- NoWt
    TAU = 2
    EnforceBIP34 = TRUE
    Gbt = {}
    RpcFails = FALSE
    MaxHeight = 2
    MaxCrash = 0
    Work = {1, 2}
    MaxSetback = 0
    None = None
SYMMETRY NodeSymmetry
INVARIANTS
    CreditedAtMostOnce
CHECK_DEADLOCK FALSE
