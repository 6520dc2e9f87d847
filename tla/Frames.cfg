SPECIFICATION FairSpec
CONSTANTS
    Addrs = {a1, a2}
    NoAddr = NoAddr
    MaxGen = 3
    MaxWait = 2
INVARIANTS ResumesItsFrame AbandonedIsReclaimed ResumesItsWait NoDanglingWaiter
PROPERTY CancelDelivered
CHECK_DEADLOCK FALSE
