SPECIFICATION FairSpec
CONSTANTS
    small = small
    big = big
    huge = huge
    r1 = r1
    r2 = r2
    r3 = r3
    p1 = p1
    p2 = p2
    Cids = {small, huge}
    Size <- MCSize
    MaxBytes = 2
    DefaultTtl = 1
    NegTtl = 1
    MaxTombs = 2
    U64Max = 4
    Conns = {r1, r2, r3}
    Proofs = {p1}
    GuardCap = 1
    MaxObjectCfg = 0
    InflightCap = 0
    MaxLocks = 5
    MaxClock = 1
    MaxRequests = 3
    NoConn = NoConn
    NoCid = NoCid
    NoProof = NoProof
PROPERTY
    EventuallyAnswered
CHECK_DEADLOCK FALSE
