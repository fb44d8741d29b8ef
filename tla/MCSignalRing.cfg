SPECIFICATION Spec
CONSTANTS
    N = 4
    Rounds = 3
    MaxRuns = 2
CHECK_DEADLOCK FALSE
INVARIANTS
    OneTurn
    NeighboursKnown
    PhasesApart
    QueueDrained
PROPERTIES
    Completes
