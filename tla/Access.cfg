SPECIFICATION Spec
CONSTANTS
    a = a
    b = b
    client = client
    publisher = publisher
    root = root
    r1 = r1
    r2 = r2
    Cids = {a, b}
    PublicCids = {b}
    Keys = {client, publisher}
    ZeroId = ZeroId
    PresignKeys = {publisher}
    Roots = {root}
    Chains <- MCChains
    Conns = {r1, r2}
    GuardCap = 1
    MaxProofTtl = 1
    MaxPresignTtl = 2
    MaxCapsLen = 1
    U64Max = 3
    MaxClock = 3
    MaxMinted = 2
    MaxRequests = 4
    MaxRestarts = 1
    None = None
SYMMETRY ConnSymmetry
INVARIANTS
    TypeOK
    PrivateOnlyOnAuthority
    ReplayNeedsBurst
    NoFalseReplay
CHECK_DEADLOCK FALSE
