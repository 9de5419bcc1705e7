SPECIFICATION ReservationSpec
CONSTANTS
    k1 = k1  k2 = k2  k3 = k3  k4 = k4  x1 = x1
    s1 = s1  s2 = s2  s3 = s3
    c1 = c1  c2 = c2  r1 = r1
    Nobody = Nobody
    Signal <- MCFourSignals
    Recovered <- MCRecovered
    Symbol <- MCSymbol
    SymbolOf <- MCSymbolOf
    Refresher = {}
    Caller <- MCCaller
    Outcomes = {0}
    Reopenable <- MCReopenable
    MaxTime = 0
    DayOf <- MCDayOf
    SyncLag = 0
    RiskPool = 3
    LossLimit = 1
    ReadFaults = FALSE
    MaxStarts = 0
    ActiveLimit = 2
    Cooldown = 0
    RowLocks = TRUE
SYMMETRY MCSymmetry
INVARIANTS
    ReservationTypeOK
    CapacityHeld
PROPERTIES
    ImplementsAdmission
CHECK_DEADLOCK FALSE
