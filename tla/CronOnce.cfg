SPECIFICATION Spec
CONSTANTS
    t1 = t1
    t2 = t2
    NoTask = NoTask
    Task <- TwoTasks
    Schedules <- EveryKind
    MaxRetries = 1
    MaxTime = 2
    MaxCreates = 2
    MaxRestarts = 0
INVARIANT OnceOnly
CHECK_DEADLOCK FALSE
