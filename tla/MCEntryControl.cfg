SPECIFICATION FairSpec
CONSTANTS
    MaxAge = 1
    Ttl = 2
    MaxSignals = 2
    Setups <- MCSetups
INVARIANTS
    TypeOK
    OneLateEntry
PROPERTIES
    FreshEntries
    ScannerRecovers
