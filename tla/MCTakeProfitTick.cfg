SPECIFICATION Spec
CONSTANTS
    Scenarios <- MCScenarios
    Initial = 8
    Step = 1
    Tick = 100
    Risk = 3
    BreakEven = 1
    TP1 = 5
    TP2 = 6
    Target = 8
    Prices <- MCPrices
    None = None
INVARIANT
    StagesFollowOrders
CHECK_DEADLOCK FALSE
