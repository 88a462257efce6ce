SPECIFICATION Spec
CONSTANTS
    Item = {x1, x2, x3}
    NULL = NULL
    Producer = {p1, p2}
    Consumer = {c1}
    Expirer = {e1}
    NoThread = NoThread
    Time = {0, 1}
    Duration = {0}
    Clock = {0, 1}
    SecondsOld = {0}
    RecentWindow = 1
    InitialSize = 1000
    MaxAllocs = 3
SYMMETRY Symmetry
INVARIANTS
    ListWellFormed
    OneOwner
    TimeOrdered
    ResultsComplete
CHECK_DEADLOCK FALSE
