SPECIFICATION FairSpec
CONSTANTS
    p = p
    c1 = c1
    c2 = c2
    c3 = c3
    Providers <- MCProviders
    Callers <- MCTwoCallers
    MaxConcurrency = 1
    Lapses = {"secondSecret"}
    MaxVersion = 2
PROPERTIES
    QueriesReturn
