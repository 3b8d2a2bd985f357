SPECIFICATION Spec
CONSTANTS
    c0 = c0
    c1 = c1
    c2 = c2
    c3 = c3
    Cids = {c0, c1, c2, c3}
    Size <- MCSize
    MaxBytes = 2
    DefaultTtl = 1
    NegTtl = 1
    MaxTombs = 1
    U64Max = 3
    Times = {0, 3}
    Ttls = {0, 1}
    MaxTick = 4
    MaxNegHits = 1
INVARIANTS
    TypeOK
    BytesExact
    WithinBounds
    RecencyStrict
    CountersBalance
    ExpiryNotBeforeInsertion
    EvictionIsTheLoop
PROPERTY
    ImplementsLru
