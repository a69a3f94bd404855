SPECIFICATION Spec
CONSTANTS
    prepare = prepare
    render = render
    audit = audit
    w1 = w1
    w2 = w2
    NoWorker = NoWorker
    Task <- Steps
    Depends <- Chain
    Worker <- Workers
    MaxAttempts = 2
    MaxEnqueues = 2
SYMMETRY Symmetry
INVARIANT TypeOK
INVARIANT ChainHeld
INVARIANT ExecutionsBounded
CHECK_DEADLOCK FALSE
