------------------------------ MODULE Manifests ------------------------------
(***************************************************************************)
(* What becomes of the embedded manifests: how they are split into the     *)
(* operand groups when the operator starts, and how their resources are    *)
(* rendered, applied and deleted, one API call at a time                   *)
(* (kedacontroller_controller.go, kedacontroller_finalizer.go,             *)
(* transform/transform.go, resources/resources_handler.go).                *)
(*                                                                         *)
(* A resource is its identity (kind, name, ns), the namespace its body     *)
(* refers to (a Service or a subject), the pod selector of the NetworkPolicy *)
(* keda-allow-egress-to-all (one set of values per match expression) and   *)
(* whether it carries an owner reference.                                  *)
(*                                                                         *)
(* KedaReconciler says when the stages run; here every stage runs in the   *)
(* order of Reconcile, the add-on enabled and the monitoring CRDs served.  *)
(* The garbage collector and uids are left to KedaReconciler.              *)
(***************************************************************************)
EXTENDS Lists

CONSTANTS
    KedaManifests,      \* keda.yaml with keda-olm-operator.yaml, in some order
    HTTPAddonManifest,  \* keda-http-addon.yaml
    InterceptorNames,   \* the names that contain "interceptor"
    ScalerNames,        \* the names that contain "scaler"
    Namespaces,         \* where the operator may be installed
    Pods                \* the pods keda-allow-egress-to-all selects

Resource ==
    [kind : STRING, name : STRING, ns : STRING, ref : STRING,
     exprs : Seq(SUBSET Pods), owned : BOOLEAN]

ASSUME ManifestsAssumption ==
    /\ KedaManifests \subseteq Seq(Resource)
    /\ HTTPAddonManifest \in Seq(Resource)
    /\ Namespaces \subseteq STRING
    /\ Pods = {"keda-operator", "keda-metrics-apiserver"}

VARIABLES
    yaml,     \* the manifest this operator was built with
    ns,       \* the namespace of operator and KedaController
    groups,   \* the operand manifests, <<>> before SetupWithManager
    cluster,  \* the resources at the API server
    life,     \* the KedaController: "live", "deleting" or "gone"
    egress,   \* the pods its spec lets reach everything
    inst,     \* the same, in the copy this reconcile works on
    todo,     \* the API calls this reconcile still makes
    pc        \* "idle", "install", "installed" or "finalize"

vars == <<yaml, ns, groups, cluster, life, egress, inst, todo, pc>>

-----------------------------------------------------------------------------
(* Parsing *)

ControllerNames == {"keda-operator", "keda:edit", "keda:view"}
WebhookNames == {"keda-admission-webhooks", "keda-admission"}

GroupOfByKind(r) ==
    CASE r.kind \in {"APIService", "ValidatingWebhookConfiguration"} -> "metrics"
      [] r.kind \in {"ClusterRole", "ClusterRoleBinding", "Deployment", "Role",
                     "RoleBinding", "Service"} ->
            CASE r.name \in ControllerNames -> "controller"
              [] r.name \in WebhookNames -> "webhooks"
              [] OTHER -> "metrics"
      [] r.kind \in {"ServiceAccount", "NetworkPolicy"} -> "general"
      [] r.kind \in {"PodMonitor", "ServiceMonitor"} -> "monitoring"
      [] OTHER -> "dropped"

\* The switch over kinds in parseManifestsFromFile.
GroupOf(r) ==
    CASE r.kind \in {"APIService", "ValidatingWebhookConfiguration"} ->
            IF r.name \in WebhookNames THEN "webhooks" ELSE "metrics"
      [] r.kind \in {"ClusterRole", "ClusterRoleBinding", "Deployment", "Role",
                     "RoleBinding", "Service"} ->
            CASE r.name \in ControllerNames -> "controller"
              [] r.name \in WebhookNames -> "webhooks"
              [] OTHER -> "metrics"
      [] r.kind = "Secret" -> "controller"
      [] r.kind \in {"ServiceAccount", "NetworkPolicy"} -> "general"
      [] r.kind \in {"PodMonitor", "ServiceMonitor"} -> "monitoring"
      [] OTHER -> "dropped"

Rank(r) ==
    CASE r.kind = "ClusterRole" -> 0
      [] r.kind = "RoleBinding" -> 1
      [] r.kind = "ClusterRoleBinding" ->
            IF r.name = "keda-hpa-controller-external-metrics" THEN 2 ELSE 3
      [] r.kind = "Service" -> 4
      [] r.kind = "Deployment" -> 5
      [] r.kind = "APIService" -> 6
      [] OTHER -> 7

sortMetricsResourcesNot(list) == list

\* A stable sort by rank.
sortMetricsResources(list) ==
    LET Ranked(k) == Only(list, {r \in ToSet(list) : Rank(r) = k})
    IN Ranked(0) \o Ranked(1) \o Ranked(2) \o Ranked(3)
         \o Ranked(4) \o Ranked(5) \o Ranked(6) \o Ranked(7)

KedaGroups == {"general", "controller", "metrics", "webhooks", "monitoring"}
AddonGroups == {"addonOperator", "interceptor", "scaler"}

parseManifestsFromFile(m) ==
    LET In(g) == Only(m, {r \in ToSet(m) : GroupOf(r) = g})
    IN [g \in KedaGroups |->
          IF g = "metrics" THEN sortMetricsResources(In(g)) ELSE In(g)]

\* By what the name contains, "interceptor" first.
AddonGroupOf(r) ==
    IF r.name \in InterceptorNames THEN "interceptor"
    ELSE IF r.name \in ScalerNames THEN "scaler" ELSE "addonOperator"

parseHTTPAddonManifests(m) ==
    [g \in AddonGroups |-> Only(m, {r \in ToSet(m) : AddonGroupOf(r) = g})]

Parsed ==
    [g \in KedaGroups \cup AddonGroups |->
       IF g \in KedaGroups THEN parseManifestsFromFile(yaml)[g]
       ELSE parseHTTPAddonManifests(HTTPAddonManifest)[g]]

-----------------------------------------------------------------------------
(* The transformers that concern identity, ownership and the egress policy *)

InjectOwnerEverywhere(r) == [r EXCEPT !.owned = @ \/ r.ns # ""]

\* An owner reference, only in the namespace of the owner; manifestival's own
\* InjectOwner leaves cluster-scoped resources alone.
InjectOwner(r) == [r EXCEPT !.owned = @ \/ r.ns = ns]

\* Every entry "namespace: keda", the metadata's and those in the body.
ReplaceAllNamespaces(r) ==
    [r EXCEPT !.ns = IF @ = "keda" THEN ns ELSE @,
              !.ref = IF @ = "keda" THEN ns ELSE @]

\* The metrics RoleBinding is pointed at kube-system, where the embedded file has it
\* already.
ReplaceNamespace(r) ==
    [r EXCEPT !.ns = IF r.name = "keda-auth-reader" THEN "kube-system" ELSE @]

IsEgressPolicy(r) == r.kind = "NetworkPolicy" /\ r.name = "keda-allow-egress-to-all"

\* The pod leaves every match expression; an expression without values goes.
RemoveNetworkPolicyPodSelector(r, pod) ==
    IF IsEgressPolicy(r)
    THEN [r EXCEPT !.exprs = Only([i \in DOMAIN @ |-> @[i] \ {pod}],
                                  (SUBSET Pods) \ {{}})]
    ELSE r

IsEmptyByValues(r) ==
    IsEgressPolicy(r) /\ \E i \in DOMAIN r.exprs : r.exprs[i] = {}

\* getIsEmptyKedaAllowEgressToAllNetworkPolicyPredicate.
IsEmptyEgressPolicy(r) ==
    IsEgressPolicy(r) /\ (r.exprs = <<>> \/ \E i \in DOMAIN r.exprs : r.exprs[i] = {})

\* networkEgressAllowAll of the pod's component is "false".
DenyEgress(r, pod, allowed) ==
    IF pod \in allowed THEN r ELSE RemoveNetworkPolicyPodSelector(r, pod)

Rendering(g, allowed, r) ==
    LET placed == ReplaceAllNamespaces(InjectOwner(r))
    IN CASE g = "general" ->
              DenyEgress(DenyEgress(placed, "keda-metrics-apiserver", allowed),
                         "keda-operator", allowed)
         [] g = "metrics" -> ReplaceNamespace(placed)
         [] OTHER -> placed

renderForDeleteAsParsed(g, r) ==
    IF g = "metrics" THEN ReplaceNamespace(r) ELSE r

\* Only what identifies the resource is needed to delete it.
renderForDelete(g, r) ==
    IF g = "metrics" THEN ReplaceNamespace(ReplaceAllNamespaces(r))
    ELSE ReplaceAllNamespaces(r)

Call(verb, r) == [verb |-> verb, r |-> r]
Calls(verb, list) == [i \in DOMAIN list |-> Call(verb, list[i])]

\* A stage transforms its manifest and applies it in order; the general one
\* deletes an egress policy that would select nothing, and so everything.
InstallCalls(g, allowed) ==
    LET rendered == [i \in DOMAIN groups[g] |-> Rendering(g, allowed, groups[g][i])]
        empty == {r \in ToSet(rendered) : IsEmptyEgressPolicy(r)}
    IN Calls("delete", Only(rendered, empty))
         \o Calls("apply", Only(rendered, ToSet(rendered) \ empty))

\* Delete goes through a manifest backwards.
DeleteCalls(g) ==
    Calls("delete", Reverse([i \in DOMAIN groups[g] |-> renderForDelete(g, groups[g][i])]))

InstallOrder == <<"general", "controller", "metrics", "webhooks", "monitoring",
                  "addonOperator", "interceptor", "scaler">>

\* deleteHTTPAddon and then the three deleteOperand of finalizeKedaController.
FinalizeOrder == <<"scaler", "interceptor", "addonOperator",
                   "general", "controller", "metrics">>

\* The kinds with a case in parseManifestsFromFile.
HandledKinds ==
    {"APIService", "ValidatingWebhookConfiguration", "ClusterRole", "ClusterRoleBinding",
     "Deployment", "Role", "RoleBinding", "Service", "Secret", "ServiceAccount",
     "NetworkPolicy", "PodMonitor", "ServiceMonitor"}

\* What the files under resources/ have in common with every manifest the code is
\* written for.  A name is used once per kind; nothing is owned by anybody yet; what
\* the parser drops, OLM installs, and the add-on has none of it; the
\* egress policy names both pods in one expression; the metrics API is served by a
\* Service and a Deployment of the release.
ASSUME EmbeddedAssumption ==
    \A m \in KedaManifests :
      LET addon == ToSet(HTTPAddonManifest)
          keda == ToSet(m)
      IN /\ keda \cap addon = {}
         /\ \A r, q \in keda \cup addon : r.kind = q.kind /\ r.name = q.name => r = q
         /\ \A r \in keda \cup addon :
              ~r.owned /\ (r.name = "keda-auth-reader" => r.ns = "kube-system")
         /\ \A r \in keda : r.kind \in {"Namespace", "CustomResourceDefinition"} \cup HandledKinds
         /\ \A r \in addon : r.kind \notin {"Namespace", "CustomResourceDefinition",
                                            "NetworkPolicy", "APIService"}
         /\ \A r \in keda : IsEgressPolicy(r) => r.exprs = <<Pods>>
         /\ \A r \in keda : r.kind = "APIService" =>
              /\ r.name \notin WebhookNames /\ r.ref = "keda"
              /\ \A kind \in {"Service", "Deployment"} : \E s \in keda :
                    s.kind = kind /\ s.name = "keda-metrics-apiserver" /\ s.ns = "keda"

-----------------------------------------------------------------------------
Init ==
    /\ yaml \in KedaManifests /\ ns \in Namespaces
    /\ groups = <<>> /\ cluster = {}
    /\ life = "gone" /\ egress = Pods /\ inst = Pods
    /\ todo = <<>> /\ pc = "idle"

\* The manifests are loaded and split once per process.
SetupWithManager ==
    /\ groups = <<>>
    /\ groups' = Parsed
    /\ UNCHANGED <<yaml, ns, cluster, life, egress, inst, todo, pc>>

BeginInstall ==
    /\ groups # <<>> /\ pc = "idle" /\ life = "live"
    /\ pc' = "install" /\ inst' = egress
    /\ todo' = FlattenSeq([i \in DOMAIN InstallOrder |-> InstallCalls(InstallOrder[i], egress)])
    /\ UNCHANGED <<yaml, ns, groups, cluster, life, egress>>

BeginFinalize ==
    /\ groups # <<>> /\ pc = "idle" /\ life = "deleting"
    /\ pc' = "finalize"
    /\ todo' = FlattenSeq([i \in DOMAIN FinalizeOrder |-> DeleteCalls(FinalizeOrder[i])])
    /\ UNCHANGED <<yaml, ns, groups, cluster, life, egress, inst>>

SameResource(r, q) == r.kind = q.kind /\ r.name = q.name /\ r.ns = q.ns

\* One call: the API server knows a resource by kind, name and namespace.
APICall ==
    /\ todo # <<>>
    /\ LET call == Head(todo)
           others == {r \in cluster : ~SameResource(r, call.r)}
       IN cluster' = IF call.verb = "apply" THEN others \cup {call.r} ELSE others
    /\ todo' = Tail(todo)
    /\ pc' = IF pc = "install" /\ todo' = <<>> THEN "installed" ELSE pc
    /\ UNCHANGED <<yaml, ns, groups, life, egress, inst>>

InstallDone ==
    /\ pc = "installed"
    /\ pc' = "idle"
    /\ UNCHANGED <<yaml, ns, groups, cluster, life, egress, inst, todo>>

\* Everything is deleted: the finalizer goes, and with it the KedaController.
FinalizeDone ==
    /\ pc = "finalize" /\ todo = <<>>
    /\ pc' = "idle" /\ life' = "gone"
    /\ UNCHANGED <<yaml, ns, groups, cluster, egress, inst, todo>>

\* A call fails, or the process ends: the reconcile starts over later, in the
\* second case after the manifests were parsed again.
Abort(parsed) ==
    /\ pc # "idle"
    /\ pc' = "idle" /\ todo' = <<>> /\ groups' = parsed
    /\ UNCHANGED <<yaml, ns, cluster, life, egress, inst>>

UserCreate ==
    /\ life = "gone"
    /\ life' = "live"
    /\ UNCHANGED <<yaml, ns, groups, cluster, egress, inst, todo, pc>>

\* networkEgressAllowAll of the operator and of the metrics server.
UserEdit(allowed) ==
    /\ allowed # egress
    /\ egress' = allowed
    /\ UNCHANGED <<yaml, ns, groups, cluster, life, inst, todo, pc>>

UserDelete ==
    /\ life = "live"
    /\ life' = "deleting"
    /\ UNCHANGED <<yaml, ns, groups, cluster, egress, inst, todo, pc>>

Next ==
    \/ SetupWithManager
    \/ BeginInstall \/ InstallDone
    \/ BeginFinalize \/ FinalizeDone
    \/ APICall
    \/ Abort(groups) \/ Abort(<<>>)
    \/ UserCreate \/ UserDelete
    \/ \E allowed \in SUBSET Pods : UserEdit(allowed)

Spec == Init /\ [][Next]_vars

-----------------------------------------------------------------------------
(* Properties *)

\* OLM installs the CRDs from the bundle, and the namespace exists before.
Operands ==
    {r \in ToSet(yaml) \cup ToSet(HTTPAddonManifest) :
        r.kind \notin {"Namespace", "CustomResourceDefinition"}}

\* Once a reconcile went through, the cluster has every resource of the embedded
\* manifests, each once, in the namespace of the KedaController (cluster-scoped
\* ones and the RoleBinding of kube-system where they belong), and a policy that
\* lets exactly the pods of the spec reach everything, or none at all
\* (parseManifestsFromFile to installHTTPAddon).
InstalledIsComplete ==
    LET placed(r) == ReplaceAllNamespaces(r)
        wanted == {r \in Operands : IsEgressPolicy(r) => inst # {}}
    IN pc = "installed" =>
         /\ \A r \in wanted : \E q \in cluster : SameResource(q, placed(r))
         /\ \A q \in cluster : \E r \in wanted : SameResource(q, placed(r))
         /\ \A q \in cluster : IsEgressPolicy(q) => q.exprs = <<inst>>

\* With the KedaController gone nothing of what finalizeKedaController deletes
\* is left in any namespace, whatever was installed half or deleted half before
\* (renderForDelete: "or the affected object will be left behind on delete").
FinalizerFindsEverything ==
    life = "gone" /\ groups # <<>> =>
      \A i \in DOMAIN FinalizeOrder : \A r \in ToSet(groups[FinalizeOrder[i]]) :
         ~\E q \in cluster : q.kind = r.kind /\ q.name = r.name

\* The API aggregator finds a server for the external metrics API whenever it is
\* registered: the APIService is there only together with the Service it refers
\* to and the Deployment behind it, in the middle of an installation and of a
\* deletion too, whatever order the manifest had (sortMetricsResources).
ServedOnlyWhileRunning ==
    \A a \in cluster : a.kind = "APIService" =>
      \A kind \in {"Service", "Deployment"} :
         \E s \in cluster : /\ s.kind = kind /\ s.name = "keda-metrics-apiserver"
                            /\ s.ns = a.ref

\* keda-allow-egress-to-all never stands without a selector: an empty selector
\* matches every pod of the namespace (the two steps of installGeneralResources
\* and the two transformers that take pods out of the selector).
EgressIsSelective ==
    \A r \in cluster : IsEgressPolicy(r) => r.exprs # <<>>

\* An owner reference leads to the resource's own namespace: a dependent in
\* another namespace would be collected as an orphan (InjectOwner).
OwnersAreLocal ==
    \A r \in cluster : r.owned => r.ns = ns

\* InjectOwner: "adds an OwnerReference pointing to `owner`, but only if the
\* object is in the same namespace as `owner`": what is installed into the
\* namespace of the KedaController is owned by it.
LocalsAreOwned ==
    \A r \in cluster : r.ns = ns => r.owned
=============================================================================
