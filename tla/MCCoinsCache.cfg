SPECIFICATION Spec
SYMMETRY OutSymmetry
CONSTANTS
    Txid = {t1, t2}
    Outs = {o1, o2}
    Heights = {1}
    Block = {b1, b2}
    Genesis = genesis
    Absent = Absent
    NoBlock = NoBlock
INVARIANTS
    FlagsHonest
PROPERTY
    ImplementsCoinsView
CHECK_DEADLOCK FALSE
