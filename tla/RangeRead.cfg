SPECIFICATION Spec
CONSTANTS
    Totals = {0, 1, 3, 4, 5}
    Strides = {1, 2, 3}
    Offsets = {0, 1, 2, 3, 4, 5, 6}
    MaxObject = 4
    MaxRange = 3
INVARIANTS
    TypeOK
    ExactBytes
    OnlyCoveringChunks
    MeshBounded
    RefusedForAReason
CHECK_DEADLOCK FALSE
