CONSTANTS
    k1 = k1
    k2 = k2
    None = None
    Signals = {k1, k2}
    WriteFaults = FALSE
    MaxCrashes = 0
    MaxCloses = 1
SPECIFICATION Spec
CONSTRAINT OneAlone
INVARIANTS
    TypeOK
    ExposureIsReserved
    OneExposure
CHECK_DEADLOCK FALSE
SYMMETRY Symmetry
