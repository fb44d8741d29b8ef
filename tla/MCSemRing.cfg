SPECIFICATION SemFairSpec
CONSTANTS
    Size = 4
    MaxKills = 2
    MaxStarts = 2
CHECK_DEADLOCK FALSE
INVARIANTS
    SemOneTurn
PROPERTIES
    EveryTurn
    RingSpec
