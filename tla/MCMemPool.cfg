SPECIFICATION MemSpec
CONSTANTS
    Item = {x1, x2, x3, x4}
    NULL = NULL
    Storage = {"vector", "queue"}
    InitialSize = 3
    MaxAllocs = 9
    EndRanges = FALSE
    ExplicitClear = {"queue"}
SYMMETRY Symmetry
INVARIANTS
    ListIsOrder
    OneOwner
CHECK_DEADLOCK FALSE
