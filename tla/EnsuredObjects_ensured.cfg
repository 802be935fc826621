SPECIFICATION Spec
CONSTANTS
    Policies = {"p", "q"}
    Rejected = {"q"}
    Contested = {"audit", "binding"}
    MaxEdits = 1
    MaxOthers = 2
    MaxFaults = 1
INVARIANT TypeOK
PROPERTIES
    ControllerKept
    WorkingBindingKept
    EnsuredInTheEnd
