SPECIFICATION FairSpec
CONSTANTS
    Root <- MCRoot
    Names <- MCNames
    Clean <- MCClean
    Bad <- MCBad
    Drive <- MCDrive
    Sessions <- MCSessions
    Disks <- MCDisks
    MaxRecords = 4
    MaxDeep = 6
    MaxWild = 4
CHECK_DEADLOCK FALSE
INVARIANTS
    InStep
    NoStandstill
    LandsInPlace
PROPERTIES
    ImplementsCopy
    BothEnd
