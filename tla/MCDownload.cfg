SPECIFICATION FairSpec
CONSTANTS
    a1 = a1  a2 = a2  a3 = a3
    Hash = {a1, a2, a3}
    Genesis = g
    Branch <- Tree
    Bad = {a3}
    Peer = {p, q}
    Prompt = {p}
    Preferred = {p, q}
    MaxInTransit = 2
    Window = 1
    Keep = 2
    CatchUp = 1
    Recent = 1
    TimeoutBase = 0
    TimeoutPerPeer = 1
    StallTimeout = 0
    BanScore = 2
    MaxConnect = 2
    None = None
INVARIANTS
    InFlightExact
    TypeOK
    StallerOwes
    CommonBlockLinked
    PromptPeerKept
PROPERTY
    BlocksArrive
CHECK_DEADLOCK FALSE
