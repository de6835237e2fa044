SPECIFICATION FairSpec
CONSTANTS
    a = a
    b = b
    c = c
    r1 = r1
    r2 = r2
    Nobody = Nobody
    Requests = {r1, r2}
    Providers = {a, b, c}
    Routed <- MCRouted
    Limit <- MCLimit
    Places <- MCPlaces
    Attempts <- MCAttempts
INVARIANTS
    TypeOK
    SlotsFollowRequests
PROPERTIES
    RequestsEnd
