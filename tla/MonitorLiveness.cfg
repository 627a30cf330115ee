SPECIFICATION FairSpec
CONSTANTS
    Clients <- OneWitness
    Voters <- SharedName
PROPERTIES
    OutageIsReported
    StoppedChainIsReported
