SPECIFICATION Spec
CONSTANTS
    Callers = {p1, p2, p3}
    Forgettable = {k1}
    Keys = {k1}
    Flights = {c1, c2, c3}
    MaxDups = 2
    NoFlight = NoFlight
    NoVal = NoVal
    Free = Free
SYMMETRY Symmetry
INVARIANTS
    SameResults
    SendNeverBlocks
PROPERTY
    ForgottenNotJoined
CHECK_DEADLOCK FALSE
