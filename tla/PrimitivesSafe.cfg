SPECIFICATION Spec
CONSTANTS
    c1 = c1
    c2 = c2
    c3 = c3
    l1 = l1
    l2 = l2
    Coros = {c1, c2, c3}
    Loops = {l1, l2}
    Homes <- AllHomes
    Programs <- AllPrograms
    NoCoro = NoCoro
    MaxHold = 2
    MaxWait = 2
    Permits = 1
    MaxPosts = 1
    MaxSets = 1
    Futures = {f1}
    MoveOnly = {f1}
INVARIANTS MutualExclusion NeverLeaked Conservation NoMissedSignal
PROPERTY ReturnsForReason
CONSTRAINT Unraced
CHECK_DEADLOCK FALSE
