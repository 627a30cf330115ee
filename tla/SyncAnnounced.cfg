SPECIFICATION Spec
CONSTANTS
    Clients <- OneWitness
    Voters <- SharedName
INVARIANT SyncAnnounced
