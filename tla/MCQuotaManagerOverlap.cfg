SPECIFICATION Spec
CONSTANTS
    p = p
    c1 = c1
    c2 = c2
    c3 = c3
    Providers <- MCProviders
    Callers <- MCTwoCallers
    MaxConcurrency = 1
    Lapses = {"overlap"}
    MaxVersion = 2
INVARIANTS
    SnapshotIsCurrent
