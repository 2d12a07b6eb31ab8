SPECIFICATION FairSpec
CONSTANTS
    Hash = {b1, b2, b3}
    Genesis = g
    Proof <- WorkOf
    BadContext = {b2}
    BadConnect = {b1}
    Heavy = {}
    Thread = {t1, t2}
    Keep = 1
    PruneAfter = 1
    Prunes = FALSE
    Commands = {"invalidateblock", "reconsiderblock", "restart"}
    MaxCommands = 2
    None = None
INVARIANTS
    BestChain
    LinkedExact
    CandidatesSettled
PROPERTY ActivationEnds
CHECK_DEADLOCK FALSE
