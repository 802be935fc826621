SPECIFICATION Spec
CONSTANTS
    Components <- KedaComponents
    CAVolume <- MCVolume
    CADir <- MCDir
    CANames <- MCNames
    Inputs <- OneArgument
INVARIANTS
    UserArgumentIsUsed
CHECK_DEADLOCK FALSE
