SPECIFICATION Spec
CONSTANTS
    Trains = {1, 2, 3}
    NoTrain = NoTrain
    Left <- MCLeft
    Station <- MCStation
    MaxTrains <- MCMaxTrains
    Accepted <- MCAccepted
CHECK_DEADLOCK FALSE
INVARIANTS
    HungOnlyAfterLoss
    OnePlace
PROPERTIES
    Served
