SPECIFICATION Spec
CONSTANTS
    Hash = {b1, b2, b3, b4}
    Genesis = g
    Proof <- WorkOf
    BadContext = {}
    BadConnect = {b1}
    Heavy = {b2}
    Thread = {t1, t2}
    Keep = 1
    PruneAfter = 1
    Prunes = TRUE
    Commands = {}
    MaxCommands = 0
    None = None
SYMMETRY Interchangeable
INVARIANTS
    TypeOK
    LinkedExact
    CandidatesUseful
    CandidatesSettled
    UnlinkedExact
    FailedHasCause
CHECK_DEADLOCK FALSE
