SPECIFICATION SchedulerFairSpec
CONSTANTS
    MaxTasks = 3
    Joiners = {j1}
    NumWorkers = 2
    Owner = owner
INVARIANTS WaitAllExact JoinExact
PROPERTY WaitsEnd
CHECK_DEADLOCK FALSE
