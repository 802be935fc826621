SPECIFICATION FairSpec
CONSTANTS
    Orders <- MCOrders
    MaxWrites <- MCMaxWrites
    MaxInstalls = 1
    MaxFaults = 1
INVARIANTS
    TypeOK
PROPERTIES
    SumNeverGoesBack
    OutcomeKept
    SumsConverge
CHECK_DEADLOCK FALSE
