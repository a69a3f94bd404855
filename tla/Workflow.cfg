SPECIFICATION Spec
CONSTANTS
    r1 = r1
    r2 = r2
    NoRun = NoRun
    Run <- TwoRuns
    NSteps = 2
    MaxRetries = 0
    MaxWorkflows = 2
    MaxSteps = 1
    MaxQueue = 2
    Compensates = TRUE
    MaxTasks = 2
    MaxRestarts = 1
    RunErrors = TRUE
    LockExpiry = FALSE
SYMMETRY Symmetry
INVARIANT TypeOK
INVARIANT SlotsAccounted
INVARIANT Attended
INVARIANT InOrder
INVARIANT DoneIsComplete
PROPERTY CompletedStays
CHECK_DEADLOCK FALSE
