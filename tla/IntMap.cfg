SPECIFICATION Spec
CONSTANTS
    Keys = {k1, k2}
    Values = {v1}
    Procs = {p1, p2}
    Entries = {e1, e2, e3, e4}
    None = None
    NoEntry = NoEntry
    Nil = Nil
    Expunged = Expunged
    Free = Free
SYMMETRY Symmetry
INVARIANTS
    MapsConsistent
    WritesReachMap
PROPERTY
    Linearizable
