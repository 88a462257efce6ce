SPECIFICATION MemSpec
CONSTANTS
    Item = {x1, x2, x3, x4}
    NULL = NULL
    Storage = {"vector"}
    InitialSize = 2
    MaxAllocs = 6
    EndRanges = TRUE
    ExplicitClear = {}
SYMMETRY Symmetry
INVARIANTS
    RangeAsserts
CHECK_DEADLOCK FALSE
