SPECIFICATION FairSpec
CONSTANTS
    a = a
    b = b
    c = c
    Procs = {a, b, c}
    NoProc = NoProc
    StaleSecs = 1
    MaxTries = 3
    MaxClock = 3
    MaxCrashes = 1
INVARIANTS
    TypeOK
    CatalogWhole
    NoEffectBeforeRename
    ExclusiveUntilSecondSteal
PROPERTY
    EveryUpdateEnds
CHECK_DEADLOCK FALSE
