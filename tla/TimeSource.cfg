SPECIFICATION FairSpec
CONSTANTS
    c1 = c1
    c2 = c2
    c3 = c3
    a1 = a1
    a2 = a2
    k1 = k1
    Clients = {c1, c2, c3}
    Durations <- Durations12
    MaxTime = 2
    TimeTimers = {t1, t2}
    NoTimer = NoTimer
    Advancers = {a1, a2}
    Tickers = {k1}
    TickBuffer = 1
    Free = Free
    Programs <- SmallPrograms
INVARIANTS
    TimersWellFormed
    FiredByReturn
    TicksComplete
PROPERTIES
    KeepsContract
    TimeMoves
    ResetReturns
    TickArrives
