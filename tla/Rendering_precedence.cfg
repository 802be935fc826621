SPECIFICATION Spec
CONSTANTS
    Components <- AllComponents
    CAVolume <- MCVolume
    CADir <- MCDir
    CANames <- MCNames
    Inputs <- MCInputs
INVARIANTS
    UserVariableWins
    UserArgumentWins
    MountsHaveVolumes
    CADirsAreMounted
    ProviderIsTheIntendedOne
    CredentialsReachTheOperator
PROPERTIES
    OtherVolumesKept
CHECK_DEADLOCK FALSE
