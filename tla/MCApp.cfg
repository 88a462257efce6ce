SPECIFICATION FairSpec
CONSTANTS
    Timeouts = {0, 2}
    MaxStarts = 2
    MaxDepth = 2
    File = {f1, f2}
    NoFile = NoFile
    MaxMessages = 2
INVARIANTS
    OnceForAStart
    IndexAgrees
PROPERTIES
    StartedTriggers
    EventGetsFrame
    QuitEnds
CHECK_DEADLOCK FALSE
