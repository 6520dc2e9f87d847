SPECIFICATION Spec
CONSTANTS
    bounded = bounded
    direct = direct
    Coros = {c1, c2, c3}
    Chans = {bounded, direct}
    capacity <- Capacity
    Programs <- AllPrograms
    MaxSends = 3
    Limits = {0, 1, 2}
    max_idle = 1
INVARIANTS OnePlace InOrder Matched PoolExact WakeUpsSuffice
PROPERTY OneBranchCommits
SYMMETRY Symmetry
CHECK_DEADLOCK FALSE
