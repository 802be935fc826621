SPECIFICATION Spec
CONSTANTS
    KedaManifests <- MCKedaManifests
    HTTPAddonManifest <- Addon
    InterceptorNames <- MCInterceptorNames
    ScalerNames <- MCScalerNames
    Namespaces = {"keda", "openshift-keda"}
    Pods <- MCPods
INVARIANT LocalsAreOwned
