SPECIFICATION PingSpec
CONSTANTS
    Limit = 6
    MaxStops = 2
    MaxRestarts = 2
CHECK_DEADLOCK FALSE
INVARIANTS
    Exclusive
    CountsUp
PROPERTIES
    Grows
    RingOfTwo
