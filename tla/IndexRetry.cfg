SPECIFICATION Spec
CONSTANTS
    w1 = w1
    w2 = w2
    Configs <- OneWitness
INVARIANT RetriedThrice
CHECK_DEADLOCK FALSE
