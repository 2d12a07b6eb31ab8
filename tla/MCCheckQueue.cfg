SPECIFICATION Spec
CONSTANTS
    Worker = {w1, w2}
    Master = m
    nBatchSize = 2
    MaxQueue = 4
INVARIANTS
    TypeOK
    IdleAtStart
PROPERTY
    ImplementsControl
CHECK_DEADLOCK FALSE
