SPECIFICATION Spec
CONSTANTS
    p1 = p1
    p2 = p2
    all = all
    All = all
    Projects <- MCProjects
    MaxRequests = 5
CHECK_DEADLOCK TRUE
INVARIANTS
    TypeOK
    ShownListFits
    SpinnerHasRequest
PROPERTIES
    ImplementsLatestWins
