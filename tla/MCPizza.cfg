SPECIFICATION Spec
CONSTANTS
    Orders = 2
    MaxWs = 2
    MaxDs = 3
CHECK_DEADLOCK FALSE
INVARIANTS
    OneEach
    PaidFirst
PROPERTIES
    FirstDelivered
