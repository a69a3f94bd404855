SPECIFICATION FairSpec
CONSTANTS
    m1 = m1
    m2 = m2
    e1 = e1
    e2 = e2
    None = None
    Msg <- TwoMsgs
    Edge <- TwoEdges
    Modes <- BothModes
    MaxRetries = 2
    PullLimit = 1
    BatchSize = 2
    AgentAcks = TRUE
    WebhookAcks = FALSE
    Lossy = TRUE
INVARIANT TypeOK
INVARIANT NoPhantomDelivery
INVARIANT RetryBudget
PROPERTY Implements
PROPERTY EverySettles
CHECK_DEADLOCK FALSE
