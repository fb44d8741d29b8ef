SPECIFICATION Spec
CONSTANTS
    Reads = 5
    QueueCap = 3
    Backlog = 2
INVARIANTS
    TurnHeld
PROPERTIES
    CaughtForGood
    Rotates
