SPECIFICATION Spec
CONSTANTS
    Filters <- MCFilters
    First = "all"
    Sizes <- MCSizes
    Small = 1
    MaxRows = 2
    MaxLoads = 3
    MaxActs = 5
INVARIANTS
    TypeOK
    ShownFitsFilters
    ChartFollows
CHECK_DEADLOCK FALSE
