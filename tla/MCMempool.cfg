SPECIFICATION Spec
CONSTANTS
    t1 = t1  t2 = t2  t3 = t3  t4 = t4  d = d  r = r  c1 = c1  k1 = k1  k2 = k2  k3 = k3  g = g
    Tx = {t1, t2, t3, t4, r, d, c1, k1, k2, k3}
    Vin <- Ins
    Vout <- Outs
    Fee <- Rates
    LockTime <- Locks
    OptIn = {t1}
    Base <- Coins
    CoinBase <- Coinbases
    Maturity = 2
    MaxPool = 4
    LimitAncestors = 4
    LimitDescendants = 4
    MaxVisit = 0
    MaxReplace = 3
    MinRelayFee = 1
    Prioritised = {t1, t3}
    Deltas = {2}
    MaxDelta = 2
    MaxBlock = 3
    MaxHeight = 3
INVARIANTS
    TypeOK
    LinksExact
    TotalsExact
    InputsAvailable
    Mineable
    SizeBounded
PROPERTY
    PaysForReplaced
CHECK_DEADLOCK FALSE
