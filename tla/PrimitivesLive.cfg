SPECIFICATION FairSpec
CONSTANTS
    c1 = c1
    c2 = c2
    c3 = c3
    l1 = l1
    l2 = l2
    Coros = {c1, c2, c3}
    Loops = {l1}
    Homes <- OneHome
    Programs <- LivePrograms
    NoCoro = NoCoro
    MaxHold = 1
    MaxWait = 1
    Permits = 1
    MaxPosts = 0
    MaxSets = 1
    Futures = {f1}
    MoveOnly = {f1}
PROPERTIES EveryWaitEnds
CHECK_DEADLOCK FALSE
