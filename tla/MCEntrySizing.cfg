SPECIFICATION Spec
CONSTANTS
    Caller <- MCCaller
    Worker <- MCWorker
    Symbol <- MCSymbol
    Signals <- MCSignals
    Tick = 4
    Contract <- MCContract
    Equity = 40000
    HeldMargins <- MCHeld
    FeeBps = 6
    SlipBps = 2
    PaidBps <- MCPaid
    Drifts <- MCDrifts
    Spreads <- MCSpreads
    MaxAttempts = 2
CHECK_DEADLOCK FALSE
INVARIANTS
    TypeOK
    KeptWithinRisk
    ExposureWithinCap
    SizingIsExact
