SPECIFICATION FairReservationSpec
CONSTANTS
    k1 = k1  k2 = k2  k3 = k3  k4 = k4  x1 = x1
    s1 = s1  s2 = s2  s3 = s3
    c1 = c1  c2 = c2  r1 = r1
    Nobody = Nobody
    Signal <- MCTwoSignals
    Recovered = {}
    Symbol <- MCTwoSignals
    SymbolOf <- MCOwnSymbolOf
    Refresher <- MCRefresher
    Caller <- MCOneCaller
    Outcomes <- MCOutcomes
    Reopenable = {}
    MaxTime = 0
    DayOf <- MCDayOf
    SyncLag = 0
    RiskPool = 5
    LossLimit = 1
    ReadFaults = TRUE
    MaxStarts = 1
    ActiveLimit = 2
    Cooldown = 0
    RowLocks = TRUE
PROPERTIES
    NoAdmissionUnderHardStop
    BreakerStopsBot
CHECK_DEADLOCK FALSE
