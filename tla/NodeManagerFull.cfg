SPECIFICATION Spec
CONSTANTS
    j1 = j1
    j2 = j2
    n1 = n1
    n2 = n2
    n3 = n3
    s1 = s1
    None = None
    Job <- OneJob
    Node <- OneNode
    Seeded <- OneNode
    Slot <- OneSlot
    MaxNodes = 2
    Verdicts <- OkOrUnhealthy
    Env <- Turmoil
INVARIANT TypeOK
INVARIANT LeaseExclusive
INVARIANT CacheCoherent
INVARIANT IdleRecordIsClean
