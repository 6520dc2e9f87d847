SPECIFICATION PoolFairSpec
CONSTANTS
    Jobs = {j1, j2, j3}
    Workers = {w1, w2}
    None = none
    Limits = {0, 1}
PROPERTIES IsExecutor Answered
CHECK_DEADLOCK FALSE
