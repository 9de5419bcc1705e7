CONSTANTS
    k1 = k1

    None = None
    Signals = {k1}
    WriteFaults = FALSE
    MaxCrashes = 0
    MaxCloses = 0
SPECIFICATION LegacySpec
INVARIANT
    ExposureStaysReserved
CHECK_DEADLOCK FALSE
