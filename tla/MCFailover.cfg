SPECIFICATION MCSpec
CONSTANTS
    a = a
    b = b
    c = c
    r1 = r1
    r2 = r2
    Nobody = Nobody
    Providers <- MCThreeProviders
    InitialOrder <- MCFirstAlone
    MappedModel <- MCMappedModel
    Requests <- MCTwoRequests
    TimedKinds <- MCTimedKinds
    MaxLeft = 1
    MaxEdits = 2
    SaveOutcomes = {TRUE}
SYMMETRY MCSymmetry
INVARIANTS
    TypeOK
    FailoverIsSound
PROPERTIES
    CredentialSticks
    ImplementsDefaultProvider
