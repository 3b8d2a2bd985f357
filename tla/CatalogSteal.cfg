SPECIFICATION Spec
CONSTANTS
    a = a
    b = b
    c = c
    Procs = {a, b, c}
    NoProc = NoProc
    StaleSecs = 1
    MaxTries = 3
    MaxClock = 3
    MaxCrashes = 1
INVARIANT
    NoLostUpdate
CHECK_DEADLOCK FALSE
