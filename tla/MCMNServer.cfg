SPECIFICATION Spec
CONSTANTS
    N = 2
    s1 = s1
    s2 = s2
    Servers <- MCServers
    None = None
    First <- MCFirst
    Last <- MCLast
    Running = {s1}
    Lines = {2, 3}
    MaxLines = 2
    MaxFaults = 1
CHECK_DEADLOCK FALSE
INVARIANTS
    InOrder
    InStep
    Survives
PROPERTIES
    Answered
