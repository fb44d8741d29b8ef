SPECIFICATION FairSpec
CONSTANTS
    N = 3
    t1 = t1
    t2 = t2
    t3 = t3
    NoTrain = NoTrain
    Trains <- MCTrains
    Dest <- MCDest
    QueueCap = 3
    MaxKills = 1
    MaxRestarts = 1
CHECK_DEADLOCK FALSE
INVARIANTS
    TypeOK
    RoutingCorrect
    InvitationIsCurrent
    StuckOnlyByDeath
    FlagsFree
PROPERTIES
    Served
