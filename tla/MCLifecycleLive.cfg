CONSTANTS
    k1 = k1
    k2 = k2
    None = None
    Signals = {k1}
    WriteFaults = TRUE
    MaxCrashes = 1
    MaxCloses = 0
SPECIFICATION FairSpec
INVARIANT
    ExposureIsReserved
PROPERTIES
    PositionIsManaged
    TradesSettle
CHECK_DEADLOCK FALSE
