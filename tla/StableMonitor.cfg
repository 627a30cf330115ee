SPECIFICATION PartsSpec
CONSTANTS
    N = 3
    Values = {"online", "offline", "unauthorized"}
    Seeds = {s1, s2}
    Statuses = {"online", "offline"}
    Hosts = {h1, h2, h3}
    Self = h3
    Periods = {0, 1, 3}
    MaxLen = 3
    TimeSpans = {0, 2, 3, 4, 5, 6, 7, 8, 10}
INVARIANTS
    TypeOK
    PartsTypeOK
    SpanAsAsked
PROPERTIES
    KeepsPromise
    ShownAsSeen
    RoundsGoOn
    RateLimited
    KeepsTrying
