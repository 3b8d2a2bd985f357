SPECIFICATION FairSpec
CONSTANTS
    a = a
    e1 = e1
    e2 = e2
    e3 = e3
    cli = cli
    daemon = daemon
    Cids = {a}
    Edges = {e1, e2, e3}
    Clis = {cli}
    Daemons = {daemon}
    Signals <- MCSignals
    Refusing = {e1}
    ReadAt = {e3}
    Announcing = {e2}
    Targets = {1, 3}
    TagsOf <- MCTagsOf
    MaxCommands = 2
    MaxFaults = 1
    U64Max = 1
    NoCid = NoCid
INVARIANTS
    TypeOK
    PurgeLeavesNoReplica
PROPERTIES
    MeasuredWhileRunning
    NoResurrection
    DroppedForCause
    MaintenanceSettles
