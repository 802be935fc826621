SPECIFICATION FairSpec
CONSTANTS
    Configs <- TwoConfigs
    EnvConfig = "nil"
    MaxUid = 2
    MaxEdits = 3
    MaxOthers = 2
    MaxFaults = 1
INVARIANTS
    TypeOK
PROPERTIES
    DeletedOnlyWhenUnmounted
    ForeignNeverOverwritten
    CredentialsConverge
CHECK_DEADLOCK FALSE
