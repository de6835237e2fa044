SPECIFICATION MCSpec
CHECK_DEADLOCK FALSE
CONSTANTS
    transparent = "transparent"
    tunnel = "tunnel"
    Transparent = "transparent"
    Modes <- MCModes
    MaxNavs = 4
    MaxLogouts = 1
    MaxSaves = 1
    MaxOthers = 1
    MaxChoices = 1
INVARIANTS
    TypeOK
    TimersHaveOwner
    StagedForThisVisit
    StaleModeHasCause
    ChoiceSticks
PROPERTIES
    ModeConverges
