SPECIFICATION Spec
CONSTANTS
    alice = alice
    bob = bob
    usd = usd
    gold = gold
    Publishers <- Two
    Assets <- UsdAndGold
    Prices = {1, 2}
    MaxRounds = 1
INVARIANT ClaimIsTrue
CHECK_DEADLOCK FALSE
