SPECIFICATION Spec
CONSTANTS
    j1 = j1
    j2 = j2
    n1 = n1
    n2 = n2
    n3 = n3
    s1 = s1
    None = None
    Job <- TwoJobs
    Node <- OneNode
    Seeded <- OneNode
    Slot <- OneSlot
    MaxNodes = 2
    Verdicts <- OkOrUnhealthy
    Env <- JobsAndHealth
INVARIANT NoDoubleAllocation
