SPECIFICATION FairSpec
CONSTANTS
    j1 = j1
    j2 = j2
    n1 = n1
    n2 = n2
    n3 = n3
    s1 = s1
    None = None
    Job <- TwoJobs
    Node <- ThreeNodes
    Seeded <- OneNode
    Slot <- OneSlot
    MaxNodes = 2
    Verdicts <- OkOrUnhealthy
    Env <- LockedOnly
INVARIANT HeldNodeIsMine
INVARIANT SlotsMatchRecords
PROPERTY ImplementsLease
PROPERTY LeakedBusyNodeReclaimed
