SPECIFICATION FairSpec
CONSTANTS
    r1 = r1
    r2 = r2
    NoRun = NoRun
    Run <- OneRun
    NSteps = 2
    MaxRetries = 1
    MaxWorkflows = 2
    MaxSteps = 2
    MaxQueue = 2
    Compensates = TRUE
    MaxTasks = 3
    MaxRestarts = 1
    RunErrors = TRUE
    LockExpiry = TRUE
 
INVARIANT CallsExclusive
PROPERTY EveryRunSettles
CHECK_DEADLOCK FALSE
