SPECIFICATION Spec
CONSTANTS
    Trains = {1, 2, 3}
    NoTrain = NoTrain
    Left <- MCLeft
    Station <- MCStation
    MaxTrains <- MCMaxTrains
    Accepted <- MCOne
CHECK_DEADLOCK FALSE
INVARIANTS
    RecvIsAnnouncement
