SPECIFICATION Spec
CONSTANTS
    Names = {"keda"}
    Keda = "keda"
    Specs <- MCSpecs
    DefaultSpec <- Plain
    Objects <- MCObjects
    Manifest <- MCManifest
    Deployments <- MCDeployments
    Owned <- MCOwned
    EgressPolicy = "egress"
    MonitoringCRDs = TRUE
    ClusterMonitoring = FALSE
    MaxUid = 2
    MaxEdits = 3
    MaxFaults = 1
INVARIANTS
    DisabledAddonIsRemoved
CHECK_DEADLOCK FALSE
