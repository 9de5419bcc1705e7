SPECIFICATION FairSpec
CONSTANTS
    Scenarios <- MCScenarios
    Initial = 8
    Step = 1
    Tick = 0
    Risk = 3
    BreakEven = 1
    TP1 = 5
    TP2 = 6
    Target = 8
    Prices <- MCPrices
    None = None
INVARIANTS
    TypeOK
    RecordedProtectionIsReal
    StagesAreReal
PROPERTIES
    NativeOwnsTargets
    RestIsProtected
    ProfitIsLocked
CHECK_DEADLOCK FALSE
