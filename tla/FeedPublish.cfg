SPECIFICATION FeedsSpec
CONSTANTS
    alice = alice
    bob = bob
    usd = usd
    gold = gold
    bts = bts
    other = other
    steem = steem
    Configs <- EveryConfig
    Publishers <- One
    Assets <- UsdAndGold
    Prices = {1, 2}
    MaxRounds = 2
INVARIANTS TypeOK ClaimIsTrue OthersPublished PricesTypeOK PricedExactly OneUnit Recent
PROPERTY NothingStale
CHECK_DEADLOCK FALSE
