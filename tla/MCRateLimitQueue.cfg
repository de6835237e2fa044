SPECIFICATION FairSpec
CONSTANTS
    c1 = c1
    c2 = c2
    c3 = c3
    c4 = c4
    Callers <- MCCallers
    Limits <- MCLimits
    Sizes <- MCSizes
INVARIANTS
    TypeOK
    SlotConservation
    NoLostWakeup
    LineAgreesWithCallers
PROPERTIES
    ImplementsSlotPool
    QueuedAreServed
