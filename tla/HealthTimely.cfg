SPECIFICATION Spec
CONSTANTS
    n1 = n1
    n2 = n2
    None = None
    Node <- TwoNodes
    Interval = 3
    Threshold = 5
SYMMETRY Symmetric
INVARIANT TypeOK
INVARIANT PassesNeverOverlap
INVARIANT MarkedInTime
INVARIANT ClearedInTime
PROPERTY SilenceIsAbsence
