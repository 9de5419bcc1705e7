SPECIFICATION FairSpec
CONSTANTS
    Lots = 2
    MaxLag = 1
INVARIANTS
    TypeOK
    EvidenceIsOwn
PROPERTIES
    CloseIsWhole
    PartialsSettle
    ClosesSettle
CHECK_DEADLOCK FALSE
