SPECIFICATION InterviewSpec
CONSTANTS
    NCandidates = 3
    Messages = 1
    MaxLeaves = 1
    SocketCap = 1
    MaxStarts = 1
CHECK_DEADLOCK FALSE
INVARIANTS
    NoInterview
PROPERTIES
    Opens
    Answered
