SPECIFICATION FairSpec
CONSTANTS
    bts = bts
    steem = steem
    alice = alice
    bob = bob
    carol = carol
    Settings <- EverySetting
INVARIANTS
    TypeOK
    Regular
    SlotKept
PROPERTY
    ChecksGoOn
CHECK_DEADLOCK FALSE
