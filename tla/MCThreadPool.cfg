SPECIFICATION FairSpec
CONSTANTS
    Worker = {w1, w2, w3}
    Client = {c1}
    Owner = Owner
    MaxTasks = 3
    MaxSpurious = 1
INVARIANTS
    StartedInOrder
    JoinedMeansDrained
PROPERTIES
    QueuedStarts
    StopReturnsIfHeard
CHECK_DEADLOCK FALSE
