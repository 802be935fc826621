-------------------------- MODULE MCKedaReconciler --------------------------
(* KedaReconciler on a small cluster in namespace keda: the operands that      *)
(* differ in kind, ownership or treatment, and the specs that take every       *)
(* branch.                                                                     *)
EXTENDS KedaReconciler

MCManifest ==
    [general    |-> <<"egress">>,
     controller |-> <<"operator">>,
     metrics    |-> <<"apiservice">>,
     webhooks   |-> <<"vwc">>,
     monitoring |-> <<"podmonitor">>,
     addon      |-> <<"addonOperator", "addonScaler">>,
     prometheus |-> <<>>]

MCObjects == UNION {{MCManifest[g][i] : i \in 1..Len(MCManifest[g])} : g \in Group}

\* The cluster-scoped operands cannot be owned by a namespaced resource.
MCOwned == MCObjects \ {"vwc", "apiservice"}

MCDeployments == {"operator", "addonOperator", "addonScaler"}

Plain == [httpAddon |-> "disabled", egress |-> "allow", gcp |-> "ok"]
WithAddon == [Plain EXCEPT !.httpAddon = "enabled"]
AddonDenied == [WithAddon EXCEPT !.egress = "deny"]
Broken == [Plain EXCEPT !.gcp = "invalid"]

MCSpecs == {Plain, WithAddon}
MCSpecsAll == {Plain, AddonDenied, Broken}
=============================================================================
