SPECIFICATION Spec
CONSTANTS
    Configs <- OneConfig
    EnvConfig = "nil"
    MaxUid = 1
    MaxEdits = 2
    MaxOthers = 2
    MaxFaults = 0
PROPERTIES
    OthersAreLeftAlone
CHECK_DEADLOCK FALSE
