SPECIFICATION Spec
CONSTANTS
    w1 = w1
    w2 = w2
    Configs <- EveryConfig
INVARIANTS
    TypeOK
    Accounting
    NothingSkipped
    StreakIsTrue
PROPERTY
    OnlyViewsMislead
CHECK_DEADLOCK FALSE
