SPECIFICATION FairSpec
CONSTANTS
    p1 = p1
    NoJob = NoJob
    Probe <- OneProbe
    Queue <- Queues
    Next <- Route
    First = "radar"
    Last = "harvest"
    Limit = 1
    Attempts = 2
    Threshold = 2
    MaxCopies = 3
    LastDay = 1
    MaxFaults = 2
INVARIANT TypeOK
INVARIANT BudgetHeld
INVARIANT HandedOn
PROPERTY QueuesDrain
CHECK_DEADLOCK FALSE
