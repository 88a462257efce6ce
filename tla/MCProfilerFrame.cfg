SPECIFICATION Spec
CONSTANTS
    Thread = {ui, a, b}
    UI = ui
    Audio = a
    MaxThreads = 3
    MaxEntries = 2
    MaxFrames = 1
    MaxRegions = 1
    MaxCallStack = 2
    MaxRuns = 1
    MaxBegun = 6
INVARIANTS
    FrameThreadsFit
