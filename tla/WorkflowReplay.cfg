SPECIFICATION Spec
CONSTANTS
    r1 = r1
    r2 = r2
    NoRun = NoRun
    Run <- TwoRuns
    NSteps = 2
    MaxRetries = 0
    MaxWorkflows = 1
    MaxSteps = 1
    MaxQueue = 2
    Compensates = FALSE
    MaxTasks = 2
    MaxRestarts = 0
    RunErrors = FALSE
    LockExpiry = TRUE
INVARIANT ReplayRunsOnward
CHECK_DEADLOCK FALSE
