SPECIFICATION Spec
CONSTANTS
    p = p
    c1 = c1
    c2 = c2
    c3 = c3
    Providers <- MCProviders
    Callers <- MCCallers
    MaxConcurrency = 1
    Lapses = {}
    MaxVersion = 2
SYMMETRY MCSymmetry
INVARIANTS
    TypeOK
    SingleFlight
    SnapshotIsCurrent
