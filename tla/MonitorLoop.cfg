SPECIFICATION Spec
CONSTANTS
    Clients <- EveryClient
    Voters <- SharedName
INVARIANTS
    TypeOK
    ToldTheTruth
PROPERTIES
    NoRepeatedNotice
    OnlineKeepsPromise
    ConnectionsKeepPromise
