SPECIFICATION Spec
CONSTANTS
    NClients = 3
    Messages = 2
    MaxStarts = 1
    MaxDeaths = 1
CHECK_DEADLOCK FALSE
INVARIANTS
    RightS1
    Balanced
PROPERTIES
    Served
