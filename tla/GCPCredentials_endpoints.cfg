SPECIFICATION Spec
CONSTANTS
    Configs <- OneConfig
    EnvConfig = "nil"
    MaxUid = 1
    MaxEdits = 2
    MaxOthers = 0
    MaxFaults = 1
PROPERTIES
    CorrectEndpointsAreKept
CHECK_DEADLOCK FALSE
