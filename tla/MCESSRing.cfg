SPECIFICATION Spec
CONSTANTS
    Clients = {c1, c2, c3}
    NoOne = NoOne
    Bad = Bad
    Together = 2
    MaxGreets = 2
    MaxKinds <- MCMaxKinds
CHECK_DEADLOCK FALSE
SYMMETRY Sym
INVARIANTS
    SessionOnce
    GreetingAnswered
    RingClosed
