---------------------------- MODULE KedaReconciler ----------------------------
(***************************************************************************)
(* The life of the KedaController resources of one watched namespace and   *)
(* the single worker that reconciles them                                  *)
(* (internal/controller/keda/kedacontroller_controller.go and              *)
(* kedacontroller_finalizer.go).                                           *)
(*                                                                         *)
(* The API server holds the resources (cr) and the operands (obj).  The    *)
(* worker reads the resource from the manager's cache, which lags behind   *)
(* the API server, keeps that copy for the whole reconcile, and walks      *)
(* through the install stages or through the finalizer.  Users edit and    *)
(* delete resources at any moment, API calls fail, the operator is         *)
(* restarted, and the garbage collector removes dependents.                *)
(*                                                                         *)
(* An operand is abstracted to whether it exists, the spec it was rendered *)
(* from and the uid of the KedaController that owns it.                    *)
(***************************************************************************)
EXTENDS Naturals, Sequences, FiniteSets

CONSTANTS
    Names,              \* names of KedaControllers in the watched namespace
    Keda,               \* kedaControllerResourceName
    Specs,              \* the specs users write
    DefaultSpec,        \* the spec of initializeDefaultController
    Objects,            \* the operands of the two embedded manifests
    Manifest,           \* Group -> the operands of a manifest, in apply order
    Deployments,        \* the operands that are Deployments
    Owned,              \* the operands InjectOwner gives an owner reference
    EgressPolicy,       \* NetworkPolicy keda-allow-egress-to-all
    MonitoringCRDs,     \* are ServiceMonitor and PodMonitor served?
    ClusterMonitoring,  \* OpenShift, with cluster monitoring on the namespace?
    MaxUid,             \* bound: incarnations of each resource
    MaxEdits,           \* bound: user operations
    MaxFaults           \* bound: API errors, restarts, outside interference

\* The manifests the reconciler splits its resources into.  "addon" is the
\* three HTTP Add-on manifests in install order (Operator, Interceptor, Scaler).
Group == {"general", "controller", "metrics", "webhooks", "monitoring",
          "addon", "prometheus"}

\* The operands finalizeKedaController deletes.
FinalizedGroups == {"general", "controller", "metrics", "addon"}

SpecType == [httpAddon : {"enabled", "disabled"},
             egress    : {"allow", "deny"},
             gcp       : {"ok", "invalid"}]

Operands(g) == {Manifest[g][i] : i \in 1..Len(Manifest[g])}

ASSUME NamesAssumption == Keda \in Names
ASSUME SpecsAssumption == Specs \subseteq SpecType /\ DefaultSpec \in Specs
ASSUME ManifestAssumption ==
    /\ Manifest \in [Group -> Seq(Objects)]
    /\ \A g, h \in Group : g # h => Operands(g) \cap Operands(h) = {}
ASSUME ClusterAssumption ==
    /\ Deployments \subseteq Objects
    /\ Owned \subseteq Objects
    /\ EgressPolicy \in Operands("general")
    /\ MonitoringCRDs \in BOOLEAN
    /\ ClusterMonitoring \in BOOLEAN
ASSUME BoundsAssumption ==
    MaxUid \in Nat /\ MaxEdits \in Nat /\ MaxFaults \in Nat

VARIABLES
    cr,      \* Names -> the resource at the API server
    cache,   \* Names -> the resource in the manager's cache
    queue,   \* the work queue: names with a pending request
    obj,     \* Objects -> the operand at the API server
    pc,      \* what the worker does next
    req,     \* the request being reconciled
    inst,    \* the copy of the resource this reconcile works on
    status,  \* the status this reconcile will write
    edits,   \* user operations so far
    faults   \* faults so far

worker == <<pc, req, inst, status>>
vars == <<cr, cache, queue, obj, pc, req, inst, status, edits, faults>>

-----------------------------------------------------------------------------
(* The resources *)

Fin == "finalizer.kedacontroller.keda.sh"
Foreground == "foregroundDeletion"

Phases == {"", "Succeeded", "Failed", "Ignored"}
AddonPhases == {"nil", "Succeeded", "Failed"}

CRType == [uid : 0..MaxUid, life : {"absent", "live", "deleting"},
           finalizers : SUBSET {Fin, Foreground}, spec : Specs,
           phase : Phases, addon : AddonPhases]

Gone(u) == [uid |-> u, life |-> "absent", finalizers |-> {},
            spec |-> DefaultSpec, phase |-> "", addon |-> "nil"]

\* The API server removes a deleted resource when its last finalizer goes.
Settle(c) == IF c.life = "deleting" /\ c.finalizers = {} THEN Gone(c.uid) ELSE c
SetFinalizers(c, new) == Settle([c EXCEPT !.finalizers = new])
MarkDeleted(c, extra) == [c EXCEPT !.life = "deleting", !.finalizers = @ \cup extra]
Created(u, s) == [Gone(u) EXCEPT !.life = "live", !.spec = s]

StatusType == [phase : Phases, addon : AddonPhases]
StatusOf(c) == [phase |-> c.phase, addon |-> c.addon]

\* A "removed" operand does not exist either: others removed it after the operator
\* wrote it last, and nothing tells the operator.
ObjType == [state : {"absent", "present", "removed"}, spec : Specs, owner : 0..MaxUid]
NoObj == [state |-> "absent", spec |-> DefaultSpec, owner |-> 0]
Removed == [NoObj EXCEPT !.state = "removed"]

Present(o) == obj[o].state = "present"

PCs == {"idle", "ignore", "addFinalizer", "general", "controller", "metrics",
        "webhooks", "monitoring", "addon", "prometheus", "succeed", "fail",
        "delAddon", "delGeneral", "delController", "delMetrics",
        "removeFinalizer"}

TypeOK ==
    /\ cr \in [Names -> CRType]
    /\ cache \in [Names -> CRType]
    /\ queue \subseteq Names
    /\ obj \in [Objects -> ObjType]
    /\ pc \in PCs
    /\ req \in Names
    /\ inst \in CRType
    /\ status \in StatusType
    /\ edits \in 0..MaxEdits
    /\ faults \in 0..MaxFaults

Init ==
    /\ cr = [n \in Names |-> Gone(0)]
    /\ cache = cr
    /\ queue = {}
    /\ obj = [o \in Objects |-> NoObj]
    /\ pc = "idle" /\ req = Keda /\ inst = Gone(0)
    /\ status = StatusOf(Gone(0))
    /\ edits = 0 /\ faults = 0

-----------------------------------------------------------------------------
(* Building blocks of a reconcile *)

NoFault == faults' = faults
Fault == faults < MaxFaults /\ faults' = faults + 1

\* The reconcile returns; an error puts the request back into the queue.
Return(pending) ==
    /\ pc' = "idle" /\ req' = Keda /\ inst' = Gone(0)
    /\ status' = StatusOf(Gone(0))
    /\ queue' = pending
Requeue == Return(queue \cup {req})

DoneButRequeued == Requeue
Done == Return(queue)

Goto(next) == pc' = next /\ UNCHANGED <<req, inst, status>>

MarkInstallFailedSwapped(addon) ==
    /\ pc' = "fail"
    /\ status' = [phase |-> addon, addon |-> "Failed"]
    /\ UNCHANGED <<req, inst>>

\* A stage failed: Reconcile marks the status and goes on to write it.
MarkInstallFailed(addon) ==
    /\ pc' = "fail"
    /\ status' = [phase |-> "Failed", addon |-> addon]
    /\ UNCHANGED <<req, inst>>

RenderedOwnedDeployments(o) ==
    [state |-> "present", spec |-> inst.spec,
     owner |-> IF o \in Deployments THEN inst.uid ELSE 0]

\* What the transformers render from the spec and the identity of inst.  It is a
\* function of the two: a spec with several CA ConfigMaps or with an audit log
\* volume, whose rendering also depends on map order or time, is not covered.
Rendered(o) == [state |-> "present", spec |-> inst.spec,
                owner |-> IF o \in Owned THEN inst.uid ELSE 0]

\* Operands that are deleted instead of applied, see
\* getIsEmptyKedaAllowEgressToAllNetworkPolicyPredicate.
Unwanted(spec) == IF spec.egress = "deny" THEN {EgressPolicy} ELSE {}

\* Apply goes through a manifest in order and stops at the first error, so the
\* first k operands are written.
FirstOf(g, k) == {Manifest[g][i] : i \in 1..k}
\* Delete goes through it backwards: the operands after the k-th are removed.
AfterOf(g, k) == {Manifest[g][i] : i \in (k + 1)..Len(Manifest[g])}

\* The request is queued when a watched Deployment changes (Owns).
Write(new) ==
    /\ obj' = new
    /\ queue' = IF \E o \in Deployments \cap Owned : new[o] # obj[o]
                THEN queue \cup {Keda} ELSE queue

Apply(g, k) ==
    Write([o \in Objects |->
             IF o \in FirstOf(g, k) \ Unwanted(inst.spec) THEN Rendered(o)
             ELSE obj[o]])

Delete(g, k) ==
    Write([o \in Objects |-> IF o \in AfterOf(g, k) THEN NoObj ELSE obj[o]])

InstallStageIgnoringErrors(g, next) ==
    \E k \in 0..Len(Manifest[g]) :
       /\ Apply(g, k) /\ Goto(next)
       /\ IF k = Len(Manifest[g]) THEN NoFault ELSE Fault

\* An install stage either applies its whole manifest or fails part way; the
\* call that fails may have taken effect.
InstallStage(g, next) ==
    \/ /\ Apply(g, Len(Manifest[g]))
       /\ Goto(next) /\ NoFault
    \/ \E k \in 0..Len(Manifest[g]) :
          /\ Apply(g, k)
          /\ MarkInstallFailed(status.addon) /\ Fault

\* UpdateKedaControllerStatus: a merge patch of the fields in which new differs
\* from the copy the reconcile started from; the others keep the live value.
StatusPatch(c, new) ==
    [c EXCEPT !.phase = IF new.phase # inst.phase THEN new.phase ELSE @,
              !.addon = IF new.addon # inst.addon THEN new.addon ELSE @]

\* The patch is refused: the resource is gone, or the call fails.
PatchFails ==
    \/ cr[req].life = "absent" /\ NoFault
    \/ Fault

\* A merge patch that replaces the finalizers with those computed from inst.
\* The API server refuses new finalizers on a resource being deleted.
FinalizerPatch(new) ==
    LET accepted == \/ cr[req].life = "live"
                    \/ cr[req].life = "deleting" /\ new \subseteq cr[req].finalizers
    IN \/ /\ accepted
          /\ cr' = [cr EXCEPT ![req] = SetFinalizers(@, new)]
          /\ Done /\ NoFault
       \/ /\ \/ ~accepted /\ NoFault
             \/ Fault
          /\ Requeue /\ UNCHANGED cr

-----------------------------------------------------------------------------
(* Reconcile *)

isInteresting(n) == n = Keda

DispatchSilently(n, c) ==
    CASE c.life = "absent" \/ ~isInteresting(n) -> "idle"
      [] c.life = "deleting" /\ isInteresting(n) ->
            IF Fin \in c.finalizers THEN "delAddon" ELSE "idle"
      [] c.life = "live" /\ isInteresting(n) ->
            IF Fin \notin c.finalizers THEN "addFinalizer"
            ELSE IF c.spec.gcp = "invalid" THEN "idle" ELSE "general"

DispatchIgnoringDeletion(n, c) ==
    CASE c.life = "absent" -> "idle"
      [] c.life # "absent" /\ ~isInteresting(n) -> "ignore"
      [] c.life # "absent" /\ isInteresting(n) ->
            IF Fin \notin c.finalizers THEN "addFinalizer"
            ELSE IF c.spec.gcp = "invalid" THEN "fail" ELSE "general"

\* Where a reconcile of copy c of resource n goes after the read.
Dispatch(n, c) ==
    CASE c.life = "absent" -> "idle"
      [] c.life # "absent" /\ ~isInteresting(n) -> "ignore"
      [] c.life = "deleting" /\ isInteresting(n) ->
            IF Fin \in c.finalizers THEN "delAddon" ELSE "idle"
      [] c.life = "live" /\ isInteresting(n) ->
            IF Fin \notin c.finalizers THEN "addFinalizer"
            ELSE IF c.spec.gcp = "invalid" THEN "fail" ELSE "general"

\* The worker takes a request and reads the resource from the cache.
Begin(n) ==
    /\ pc = "idle" /\ n \in queue
    /\ queue' = queue \ {n}
    /\ LET next == Dispatch(n, cache[n]) IN
         \/ /\ next = "idle"
            /\ UNCHANGED worker
         \/ /\ next # "idle"
            /\ pc' = next /\ req' = n /\ inst' = cache[n]
            /\ status' = IF next = "fail"
                         THEN [StatusOf(cache[n]) EXCEPT !.phase = "Failed"]
                         ELSE StatusOf(cache[n])
    /\ UNCHANGED <<cr, cache, obj, edits, faults>>

\* The read fails with an error other than NotFound.
BeginFails(n) ==
    /\ pc = "idle" /\ n \in queue
    /\ Fault
    /\ UNCHANGED <<cr, cache, queue, obj, worker, edits>>

\* A resource with another name is marked Ignored and otherwise left alone.
MarkIgnored ==
    /\ pc = "ignore"
    /\ \/ /\ cr[req].life # "absent"
          /\ cr' = [cr EXCEPT ![req] =
                      StatusPatch(@, [status EXCEPT !.phase = "Ignored"])]
          /\ Done /\ NoFault
       \/ PatchFails /\ Requeue /\ UNCHANGED cr
    /\ UNCHANGED <<cache, obj, edits>>

\* The next event of the resource, with the finalizer, continues from here.
addFinalizer ==
    /\ pc = "addFinalizer"
    /\ FinalizerPatch(inst.finalizers \cup {Fin})
    /\ UNCHANGED <<cache, obj, edits>>

\* Deletes the unwanted egress policy, then applies the rest.
installGeneralResources ==
    /\ pc = "general"
    /\ LET deleted(o) == IF o \in Unwanted(inst.spec) THEN NoObj ELSE obj[o]
           upTo(k) == [o \in Objects |->
                         IF o \in FirstOf("general", k) \ Unwanted(inst.spec)
                         THEN Rendered(o) ELSE deleted(o)]
       IN \/ /\ Write(upTo(Len(Manifest["general"])))
             /\ Goto("controller") /\ NoFault
          \/ /\ \/ Write(obj)
                \/ \E k \in 0..Len(Manifest["general"]) : Write(upTo(k))
             /\ MarkInstallFailed(status.addon) /\ Fault
    /\ UNCHANGED <<cr, cache, edits>>

installController ==
    /\ pc = "controller"
    /\ InstallStage("controller", "metrics")
    /\ UNCHANGED <<cr, cache, edits>>

installMetricsServer ==
    /\ pc = "metrics"
    /\ InstallStage("metrics", "webhooks")
    /\ UNCHANGED <<cr, cache, edits>>

installAdmissionWebhooks ==
    /\ pc = "webhooks"
    /\ InstallStage("webhooks", "monitoring")
    /\ UNCHANGED <<cr, cache, edits>>

\* Skipped when the monitoring CRDs are missing; isGvkPresent also says
\* "missing" when the List call fails.
installMonitoring ==
    /\ pc = "monitoring"
    /\ \/ MonitoringCRDs /\ InstallStage("monitoring", "addon")
       \/ /\ IF MonitoringCRDs THEN Fault ELSE NoFault
          /\ Goto("addon") /\ UNCHANGED <<obj, queue>>
    /\ UNCHANGED <<cr, cache, edits>>

disableHTTPAddonForgetful ==
    /\ status.addon # "nil"
    /\ \/ /\ Delete("addon", 0)
          /\ pc' = "prometheus" /\ status' = [status EXCEPT !.addon = "nil"]
          /\ UNCHANGED <<req, inst>> /\ NoFault
       \/ \E k \in 0..Len(Manifest["addon"]) :
             Delete("addon", k) /\ MarkInstallFailed("nil") /\ Fault

\* Disabled: delete what the status remembers as installed, then forget it.
disableHTTPAddon ==
    \/ /\ status.addon = "nil"
       /\ Goto("prometheus") /\ NoFault /\ UNCHANGED <<obj, queue>>
    \/ /\ status.addon # "nil"
       /\ \/ /\ Delete("addon", 0)
             /\ pc' = "prometheus" /\ status' = [status EXCEPT !.addon = "nil"]
             /\ UNCHANGED <<req, inst>> /\ NoFault
          \/ \E k \in 0..Len(Manifest["addon"]) :
                Delete("addon", k) /\ MarkInstallFailed(status.addon) /\ Fault

\* Enabled: apply the three manifests in order and record the outcome.  (The error
\* for missing manifests cannot occur: the three files are embedded.)
enableHTTPAddon ==
    \/ /\ Apply("addon", Len(Manifest["addon"]))
       /\ pc' = "prometheus" /\ status' = [status EXCEPT !.addon = "Succeeded"]
       /\ UNCHANGED <<req, inst>> /\ NoFault
    \/ \E k \in 0..Len(Manifest["addon"]) :
          Apply("addon", k) /\ MarkInstallFailed("Failed") /\ Fault

installHTTPAddon ==
    /\ pc = "addon"
    /\ \/ inst.spec.httpAddon = "disabled" /\ disableHTTPAddon
       \/ inst.spec.httpAddon = "enabled" /\ enableHTTPAddon
    /\ UNCHANGED <<cr, cache, edits>>

\* A no-op unless on OpenShift with cluster monitoring; RunningOnOpenshift
\* says "no" when its List call fails.
ensurePrometheusMonitoringRBAC ==
    /\ pc = "prometheus"
    /\ \/ ClusterMonitoring /\ InstallStage("prometheus", "succeed")
       \/ /\ IF ClusterMonitoring THEN Fault ELSE NoFault
          /\ Goto("succeed") /\ UNCHANGED <<obj, queue>>
    /\ UNCHANGED <<cr, cache, edits>>

\* All stages are through: write the status of a successful install.
MarkInstallSucceeded ==
    /\ pc = "succeed"
    /\ \/ /\ cr[req].life # "absent"
          /\ cr' = [cr EXCEPT ![req] =
                      StatusPatch(@, [status EXCEPT !.phase = "Succeeded"])]
          /\ Done /\ NoFault
       \/ PatchFails /\ Requeue /\ UNCHANGED cr
    /\ UNCHANGED <<cache, obj, edits>>

\* Write the status of a failed reconcile and return the error either way.
ReportFailure ==
    /\ pc = "fail"
    /\ \/ /\ cr[req].life # "absent"
          /\ cr' = [cr EXCEPT ![req] = StatusPatch(@, status)] /\ NoFault
       \/ PatchFails /\ UNCHANGED cr
    /\ Requeue
    /\ UNCHANGED <<cache, obj, edits>>

-----------------------------------------------------------------------------
(* finalizeKedaController *)

FinalizeStageIgnoringErrors(g, next) ==
    \E k \in 0..Len(Manifest[g]) :
       /\ Delete(g, k) /\ Goto(next)
       /\ IF k = 0 THEN NoFault ELSE Fault

FinalizeStageNoRetry(g, next) ==
    \/ Delete(g, 0) /\ Goto(next) /\ NoFault
    \/ UNCHANGED obj /\ Done /\ Fault

\* One manifest of the finalizer: an error leaves the finalizer in place and
\* the whole finalization is tried again.
FinalizeStage(g, next) ==
    \/ /\ Delete(g, 0)
       /\ Goto(next) /\ NoFault
    \/ \E k \in 0..Len(Manifest[g]) :
          /\ obj' = [o \in Objects |-> IF o \in AfterOf(g, k) THEN NoObj ELSE obj[o]]
          /\ Requeue /\ Fault

deleteHTTPAddon ==
    /\ pc = "delAddon"
    /\ FinalizeStage("addon", "delGeneral")
    /\ UNCHANGED <<cr, cache, edits>>

deleteGeneral ==
    /\ pc = "delGeneral"
    /\ FinalizeStage("general", "delController")
    /\ UNCHANGED <<cr, cache, edits>>

deleteController ==
    /\ pc = "delController"
    /\ FinalizeStage("controller", "delMetrics")
    /\ UNCHANGED <<cr, cache, edits>>

deleteMetrics ==
    /\ pc = "delMetrics"
    /\ FinalizeStage("metrics", "removeFinalizer")
    /\ UNCHANGED <<cr, cache, edits>>

\* All of it is gone: let go of the resource.
RemoveFinalizer ==
    /\ pc = "removeFinalizer"
    /\ FinalizerPatch(inst.finalizers \ {Fin})
    /\ UNCHANGED <<cache, obj, edits>>

-----------------------------------------------------------------------------
(* The surroundings *)

CacheSyncOnGeneration(n) ==
    /\ cache[n] # cr[n]
    /\ cache' = [cache EXCEPT ![n] = cr[n]]
    /\ queue' = IF cache[n].spec # cr[n].spec \/ cache[n].life # cr[n].life
                THEN queue \cup {n} ELSE queue
    /\ UNCHANGED <<cr, obj, worker, edits, faults>>

\* The informer catches up with the API server; every event is queued.
CacheSync(n) ==
    /\ cache[n] # cr[n]
    /\ cache' = [cache EXCEPT ![n] = cr[n]]
    /\ queue' = queue \cup {n}
    /\ UNCHANGED <<cr, obj, worker, edits, faults>>

\* The operator process ends at any point and starts again: nothing in memory
\* survives, the cache is listed afresh and every resource found is queued.
Restart ==
    /\ Fault
    /\ cache' = cr
    /\ Return({n \in Names : cr[n].life # "absent"})
    /\ UNCHANGED <<cr, obj, edits>>

Edit == edits < MaxEdits /\ edits' = edits + 1

UserCreate(n, s) ==
    /\ Edit
    /\ cr[n].life = "absent" /\ cr[n].uid < MaxUid
    /\ cr' = [cr EXCEPT ![n] = Created(@.uid + 1, s)]
    /\ UNCHANGED <<cache, queue, obj, worker, faults>>

UserEdit(n, s) ==
    /\ Edit
    /\ cr[n].life # "absent" /\ cr[n].spec # s
    /\ cr' = [cr EXCEPT ![n].spec = s]
    /\ UNCHANGED <<cache, queue, obj, worker, faults>>

\* Background or foreground deletion.
UserDelete(n, extra) ==
    /\ Edit
    /\ cr[n].life = "live"
    /\ cr' = [cr EXCEPT ![n] = Settle(MarkDeleted(@, extra))]
    /\ UNCHANGED <<cache, queue, obj, worker, faults>>

\* Someone deletes an operand.  The operator watches the Deployments it owns and
\* learns nothing about the others until the next reconcile.
OutsideDelete(o) ==
    /\ Fault
    /\ Present(o)
    /\ Write([obj EXCEPT ![o] = IF o \in Deployments \cap Owned THEN NoObj ELSE Removed])
    /\ UNCHANGED <<cr, cache, worker, edits>>

\* The garbage collector removes an operand whose owner is gone, or whose
\* owner is deleted in the foreground.
Collectable(o) ==
    /\ Present(o) /\ obj[o].owner # 0
    /\ \/ cr[Keda].uid # obj[o].owner
       \/ cr[Keda].life = "absent"
       \/ cr[Keda].life = "deleting" /\ Foreground \in cr[Keda].finalizers

Collect(o) ==
    /\ Collectable(o)
    /\ Write([obj EXCEPT ![o] = NoObj])
    /\ UNCHANGED <<cr, cache, worker, edits, faults>>

\* Foreground deletion ends once no dependent is left.
ForegroundDone(n) ==
    /\ cr[n].life = "deleting" /\ Foreground \in cr[n].finalizers
    /\ \A o \in Objects : ~(n = Keda /\ Present(o) /\ obj[o].owner = cr[n].uid)
    /\ cr' = [cr EXCEPT ![n] = SetFinalizers(@, @.finalizers \ {Foreground})]
    /\ UNCHANGED <<cache, queue, obj, worker, edits, faults>>

-----------------------------------------------------------------------------
Install ==
    \/ installGeneralResources \/ installController \/ installMetricsServer
    \/ installAdmissionWebhooks \/ installMonitoring \/ installHTTPAddon
    \/ ensurePrometheusMonitoringRBAC
    \/ MarkInstallSucceeded \/ ReportFailure

Finalize ==
    \/ deleteHTTPAddon \/ deleteGeneral \/ deleteController \/ deleteMetrics
    \/ RemoveFinalizer

Reconcile ==
    \/ \E n \in Names : Begin(n) \/ BeginFails(n)
    \/ MarkIgnored \/ addFinalizer
    \/ Install \/ Finalize

\* Nobody reads the spec of a resource with another name: one stands for all.
User ==
    \/ \E n \in Names, s \in Specs :
          /\ isInteresting(n) \/ s = DefaultSpec
          /\ UserCreate(n, s) \/ UserEdit(n, s)
    \/ \E n \in Names, extra \in {{}, {Foreground}} : UserDelete(n, extra)

Collector ==
    \/ \E o \in Objects : Collect(o)
    \/ \E n \in Names : ForegroundDone(n)

Next ==
    \/ Reconcile
    \/ \E n \in Names : CacheSync(n)
    \/ Restart
    \/ User
    \/ \E o \in Objects : OutsideDelete(o)
    \/ Collector

Spec == Init /\ [][Next]_vars

\* The worker, the informer and the garbage collector keep running; users
\* and faults owe nothing.
Fairness ==
    /\ \A n \in Names : SF_vars(Begin(n))
    /\ WF_vars(MarkIgnored \/ addFinalizer \/ Install \/ Finalize)
    /\ \A n \in Names : WF_vars(CacheSync(n))
    /\ WF_vars(Collector)

FairSpec == Spec /\ Fairness

-----------------------------------------------------------------------------
(* Properties *)

\* The KedaController does not disappear, and does not lose its finalizer,
\* while an operand that finalizeKedaController has to delete still exists:
\* partial installs, partial deletions, restarts and stale reads included
\* (kedacontroller_controller.go, Reconcile: "If the finalization logic fails,
\* don't remove the finalizer so that we can retry").
FinalizerProtects ==
    \A g \in FinalizedGroups : \A o \in Operands(g) :
        Present(o) => cr[Keda].life # "absent" /\ Fin \in cr[Keda].finalizers

\* The stages in which a reconcile installs, or reports that it did.
InstallPCs == {"general", "controller", "metrics", "webhooks", "monitoring",
               "addon", "prometheus", "succeed", "fail"}

\* The life of the KedaController as the rest of the cluster sees it.
LifePhase ==
    LET c == cr[Keda] IN
    CASE c.life = "absent" -> "absent"
      [] c.life = "live" -> IF Fin \in c.finalizers THEN "held" ELSE "open"
      [] c.life = "deleting" ->
            IF Fin \notin c.finalizers THEN "released"
            ELSE IF /\ cache[Keda].life = "deleting" /\ cache[Keda].uid = c.uid
                    /\ pc \notin InstallPCs
            THEN "draining" ELSE "ending"

GuardedOperands == UNION {Operands(g) : g \in FinalizedGroups}

Life == INSTANCE Lifecycle WITH
          Guarded <- GuardedOperands,
          phase <- LifePhase,
          installed <- {o \in GuardedOperands : Present(o)}

\* The reconciler implements Lifecycle: nothing is installed for a KedaController
\* before it is held; once the operator has read that it is deleted and the reconcile
\* under way is over, no operand ever comes back, whatever fails, however often the
\* operator is restarted; and it is let go only when all are gone (Reconcile and
\* finalizeKedaController).
ImplementsLifecycle == Life!Spec

\* The HTTP Add-on entry of the status is the operator's only memory of having
\* installed the add-on (installHTTPAddon), so it is dropped only when nothing
\* of the add-on is left, whatever failed on the way.
ForgetAddonOnlyWhenGone ==
    [][ cr[Keda].addon # "nil" /\ cr'[Keda].addon = "nil"
          => \A o \in Operands("addon") : ~Present(o)' ]_vars

\* "Installation Succeeded" appears in the status only when every unconditional
\* operand carries the rendering this reconcile was about, or was removed by others
\* after this reconcile wrote it; a watched one that was removed has already queued
\* the next reconcile; a resource being deleted is excepted (Reconcile and
\* MarkInstallSucceeded).
SucceededIsTrue ==
    [][ cr[Keda].phase # "Succeeded" /\ cr'[Keda].phase = "Succeeded"
          => \/ Keda \in queue'
             \/ cr'[Keda].life = "deleting"
             \/ \A g \in {"general", "controller", "metrics", "webhooks"} :
                   \A o \in Operands(g) :
                      IF o \in Unwanted(inst.spec) THEN obj'[o] = NoObj
                      ELSE \/ obj'[o] = Rendered(o)
                           \/ obj'[o] = Removed /\ o \notin Deployments \cap Owned ]_vars

\* The operands the spec asks for, rendered from it, except for the unwatched ones
\* that others removed: these return with the next reconcile, whenever that is.
InPlace(o) == \/ Present(o) /\ obj[o].spec = cr[Keda].spec
              \/ obj[o] = Removed /\ o \notin Deployments \cap Owned

Installed ==
    /\ \A g \in {"general", "controller", "metrics", "webhooks"} :
          \A o \in Operands(g) :
             IF o \in Unwanted(cr[Keda].spec) THEN ~Present(o) ELSE InPlace(o)
    /\ cr[Keda].spec.httpAddon = "enabled" => \A o \in Operands("addon") : InPlace(o)

\* Once users and faults leave the system alone, a live KedaController with a
\* valid configuration is reported as installed and its operands are those of
\* its current spec, however stale the reads of the reconciles before were.
Converges ==
    <>[](cr[Keda].life = "live" /\ cr[Keda].spec.gcp = "ok"
            => cr[Keda].phase = "Succeeded" /\ Installed)

\* A configuration only the administrator can fix ends up reported as a failed
\* installation (Reconcile: "Fail visibly instead of installing KEDA without
\* cloud access").
FailureIsReported ==
    <>[](cr[Keda].life = "live" /\ cr[Keda].spec.gcp = "invalid"
            => cr[Keda].phase = "Failed")

\* A deleted KedaController goes away: the finalizer is always removed in the
\* end, also when the foreground finalizer is removed concurrently.
DeletionCompletes == <>[](\A n \in Names : cr[n].life # "deleting")

\* The writes of a reconcile queue further reconciles, but not for ever: the
\* queue drains unless the configuration is invalid.
Quiesces ==
    <>[](\/ cr[Keda].life = "live" /\ cr[Keda].spec.gcp = "invalid"
         \/ pc = "idle" /\ queue = {} /\ cache = cr)

\* Nothing is left to do for the operator, the informer or the collector.
Quiet ==
    /\ pc = "idle" /\ queue = {} /\ cache = cr
    /\ \A o \in Objects : ~Collectable(o)

\* api/keda/v1alpha1/kedacontroller_types.go: "When false (default), no HTTP
\* Add-on components are deployed."
DisabledAddonIsRemoved ==
    Quiet /\ cr[Keda].life = "live" /\ cr[Keda].phase = "Succeeded"
          /\ cr[Keda].spec.httpAddon = "disabled"
       => \A o \in Operands("addon") : ~Present(o)

\* What outlives the KedaController is only what has no owner and is in no manifest
\* of finalizeKedaController (the ValidatingWebhookConfiguration of the admission
\* webhooks): the finalizer and the garbage collector together remove the rest,
\* whatever failed, and whichever incarnation an operand was rendered for.
LeftoversAreUnowned ==
    Quiet /\ cr[Keda].life = "absent" =>
       \A o \in Objects : Present(o) => o \notin Owned /\ o \notin GuardedOperands
=============================================================================
