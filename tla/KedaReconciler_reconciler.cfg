SPECIFICATION FairSpec
CONSTANTS
    Names = {"keda", "other"}
    Keda = "keda"
    Specs <- MCSpecsAll
    DefaultSpec <- Plain
    Objects <- MCObjects
    Manifest <- MCManifest
    Deployments <- MCDeployments
    Owned <- MCOwned
    EgressPolicy = "egress"
    MonitoringCRDs = TRUE
    ClusterMonitoring = TRUE
    MaxUid = 2
    MaxEdits = 3
    MaxFaults = 1
INVARIANTS
    TypeOK
    FinalizerProtects
    
PROPERTIES
    ForgetAddonOnlyWhenGone
    SucceededIsTrue
    ImplementsLifecycle
    Converges
    FailureIsReported
    DeletionCompletes
    Quiesces
CHECK_DEADLOCK FALSE
