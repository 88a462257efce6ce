SPECIFICATION FairSpec
CONSTANTS
    Item = {x1, x2, x3}
    NULL = NULL
    Producer = {p1}
    Consumer = {c1}
    Expirer = {e1}
    NoThread = NoThread
    Time = {0, 2}
    Duration = {0, 4}
    Clock = {0, 5}
    SecondsOld = {0, 2}
    RecentWindow = 4
    InitialSize = 1000
    MaxAllocs = 2
INVARIANTS
    ExpireComplete
PROPERTIES
    ImplementsEventQueue
    MutexReleased
CHECK_DEADLOCK FALSE
