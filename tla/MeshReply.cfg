SPECIFICATION Spec
CONSTANTS
    open = open
    big = big
    k1 = k1
    store = store
    pull = pull
    all = all
    part = part
    drop = drop
    probe = probe
    Cids = {open, big}
    Size <- MCSize
    MaxBytes = 2
    DefaultTtl = 1
    NegTtl = 1
    MaxTombs = 1
    U64Max = 3
    Tokens = {store, all}
    RequestOf <- MCRequestOf
    Caps = {k1}
    NoCap = NoCap
    Grants <- MCGrants
    PublicCids = {open}
    SeenCap = 2
    RefreshEvery = 2
    TickWrap = 3
    MaxMeshObject = 1
    MaxClock = 3
    MaxHandled = 4
INVARIANTS
    ReplyWithinCeiling
CHECK_DEADLOCK FALSE
