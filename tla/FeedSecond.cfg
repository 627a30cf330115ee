SPECIFICATION Spec
CONSTANTS
    bts = bts
    steem = steem
    alice = alice
    bob = bob
    carol = carol
    Settings <- SecondPublisher
INVARIANT Regular
CHECK_DEADLOCK FALSE
