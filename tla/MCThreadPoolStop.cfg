SPECIFICATION FairSpec
CONSTANTS
    Worker = {w1, w2}
    Client = {c1, c2}
    Owner = Owner
    MaxTasks = 3
    MaxSpurious = 1
PROPERTIES StopReturns
CHECK_DEADLOCK FALSE
