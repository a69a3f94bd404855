SPECIFICATION FairSpec
CONSTANTS
    t1 = t1
    t2 = t2
    NoTask = NoTask
    Task <- TwoTasks
    Schedules <- EveryKind
    MaxRetries = 1
    MaxTime = 2
    MaxCreates = 3
    MaxRestarts = 1
INVARIANT TypeOK
PROPERTY SchedulesStay
PROPERTY DueIsServed
PROPERTY OnceSettles
CHECK_DEADLOCK FALSE
