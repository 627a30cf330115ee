SPECIFICATION FairSpec
CONSTANTS
    monitor = monitor
    seed = seed
    Callers = {monitor, seed}
    Structured = {seed}
    ApiOf <- Mixed
    LookUps <- BitShares
    MaxConnections = 2
    MaxCalls <- TwiceAndOnce
INVARIANTS
    TypeOK
    RightAnswer
    OwnGrants
    HandedToLiveProtocol
PROPERTY
    Reconnects
