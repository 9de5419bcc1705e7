SPECIFICATION Spec
CONSTANTS
    k1 = k1  k2 = k2  s1 = s1  r1 = r1  r2 = r2
    Nobody = Nobody
    Signal = {}
    Recovered <- MCOneKey
    Symbol <- MCSymbol
    SymbolOf <- MCSymbolOf
    Refresher <- MCRefresher
    Outcomes <- MCOutcomes
    Reopenable = {}
    MaxTime = 1
    DayOf <- MCDayOf
    SyncLag = 0
    RiskPool = 3
    LossLimit = 1
    ReadFaults = FALSE
    MaxStarts = 1
SYMMETRY MCSymmetry
INVARIANTS
    TypeOK
PROPERTIES
    BreakerSticky
    LimitSeenMeansBreakerOn
CHECK_DEADLOCK FALSE
