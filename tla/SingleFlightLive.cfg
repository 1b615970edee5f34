SPECIFICATION FairSpec
CONSTANTS
    Callers = {p1, p2}
    Forgettable = {k1}
    Keys = {k1, k2}
    Flights = {c1, c2}
    MaxDups = 1
    NoFlight = NoFlight
    NoVal = NoVal
    Free = Free
INVARIANT
    OneInFlightIfKept
PROPERTY
    EveryCallReturns
CHECK_DEADLOCK FALSE
