SPECIFICATION FairSpec
CONSTANTS
    Tolerance = 2
    MaxFaults = 2
    Setups <- MCSetups
INVARIANTS
    TypeOK
    ChangeIsRequested
PROPERTIES
    NakedPositionBlocks
    SettledUnblocks
