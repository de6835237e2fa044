SPECIFICATION FairListSpec
CONSTANTS
    p1 = "p1"
    p2 = "p2"
    p3 = "p3"
    p4 = "p4"
    p5 = "p5"
    p6 = "p6"
    p7 = "p7"
    p8 = "p8"
    p9 = "p9"
    First <- MCFirst
    Fresh <- MCFresh
    File <- MCFile
    None = "nobody"
    MaxCalls = 2
    OtherEdits <- MCOtherEdits
    MaxActs = 2
    MaxFails = 1
INVARIANTS
    ListTypeOK
PROPERTIES
    ReorderKeepsDefault
    FormClosesWhenStored
    ListConverges
