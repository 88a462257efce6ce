SPECIFICATION Spec
CONSTANTS
    Thread = {ui, a}
    UI = ui
    Audio = a
    MaxThreads = 3
    MaxEntries = 3
    MaxFrames = 2
    MaxRegions = 1
    MaxCallStack = 2
    MaxRuns = 2
    MaxBegun = 6
SYMMETRY Symmetry
INVARIANTS
    SlotsExclusive
    StackMatchesScopes
    ParentsEnclose
    ShownThreadsInitialized
