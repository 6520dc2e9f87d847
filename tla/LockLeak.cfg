SPECIFICATION Spec
CONSTANTS
    c1 = c1
    c2 = c2
    c3 = c3
    l1 = l1
    l2 = l2
    Coros = {c1, c2, c3}
    Loops = {l1, l2}
    Homes <- AllHomes
    Programs <- LockOnly
    NoCoro = NoCoro
    MaxHold = 1
    MaxWait = 2
    Permits = 1
    MaxPosts = 1
    MaxSets = 1
    Futures = {f1}
    MoveOnly = {f1}
INVARIANT NeverLeaked
CHECK_DEADLOCK FALSE
