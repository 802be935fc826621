SPECIFICATION Spec
CONSTANTS
    Procs = {"p", "q"}
    None = "nobody"
    APIServers <- MCAPIServers
    Installed <- MCInstalled
    Resolve <- MCResolve
    Known = {"a", "b"}
    MaxEdits = 2
    MaxFaults = 1
PROPERTIES
    DeletionIsFinal
    AnnotatedOnlyAfterCreation
    UserKedaControllerKept
    BootstrapSettles
    ProfileConverges
CHECK_DEADLOCK FALSE
