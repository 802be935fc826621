------------------------------- MODULE Startup -------------------------------
(***************************************************************************)
(* What a process of the operator decides once, when it starts: whether it *)
(* follows the cluster's TLS profile (SetupWithManager) and whether it     *)
(* creates the default KedaController (ensureKedaController, a goroutine   *)
(* that every process runs, leader or not); and how the process that leads *)
(* then keeps the Deployments at the profile (enqueueOnTLSProfileChange,   *)
(* clusterTLSProfile in kedacontroller_controller.go; util/tls.go).        *)
(*                                                                         *)
(* Two processes overlap while the operator is rolled out.  The goroutine  *)
(* retries nothing: an error ends it until the process is started again.   *)
(* A KedaController is who wrote it, a Deployment the TLS settings in its  *)
(* environment.  The cluster is OpenShift.                                 *)
(***************************************************************************)
EXTENDS Naturals

CONSTANTS
    Procs,       \* processes of the operator
    None,        \* nobody leads
    APIServers,  \* the values of apiserver/cluster: profile and adherence
    Installed,   \* the one a cluster is installed with
    Resolve,     \* GetTLSProfileSpec: profile -> min version and ciphers
    Known,       \* the ciphers with an IANA name
    MaxEdits,    \* bound: operations of users and administrators
    MaxFaults    \* bound: failing calls and processes that end

Deployments == {"operator", "metrics"}

ASSUME StartupAssumption ==
    /\ None \notin Procs /\ Installed \in APIServers
    /\ \A a \in APIServers : a.profile \in DOMAIN Resolve /\ a.adherence \in BOOLEAN
    /\ MaxEdits \in Nat /\ MaxFaults \in Nat

VARIABLES
    cr,         \* the KedaController: "absent", "default" or "user"
    annotated,  \* does the namespace carry the annotation?
    seen,       \* has there been a KedaController so far?
    boot,       \* Procs -> how far the goroutine is
    crCache,    \* Procs -> the KedaController in the process's cache
    inject,     \* Procs -> injectTLSEnvVars
    before,     \* the processes that read the namespace before the annotation
    leader,     \* the process that reconciles
    api,        \* apiserver/cluster
    apiCache,   \* the same in the leader's cache
    queued,     \* has the leader a pending request?
    pc,         \* "idle" or the Deployment the leader renders next
    tls,        \* Deployments -> the TLS settings they were applied with
    edits, faults

bounds == <<edits, faults>>
cluster == <<cr, annotated, seen>>
process == <<boot, crCache, inject, before>>
leading == <<leader, apiCache, queued, pc>>
vars == <<cluster, process, leading, api, tls, bounds>>

\* No TLS variables in the environment.
NoTLS == [min |-> "", ciphers |-> {}]
\* None either, because apiserver/cluster could not be read.
Unread == [min |-> "unread", ciphers |-> {}]
\* GetTLSProfileSpec returns an error.
Unresolved == [min |-> "error", ciphers |-> {}]

Init ==
    /\ cr = "absent" /\ annotated \in BOOLEAN /\ seen = FALSE
    /\ boot = [p \in Procs |-> "down"] /\ crCache = [p \in Procs |-> "absent"]
    /\ inject = [p \in Procs |-> FALSE] /\ before = {}
    /\ leader = None /\ api = Installed /\ apiCache = api
    /\ queued = FALSE /\ pc = "idle"
    /\ tls = [d \in Deployments |-> NoTLS]
    /\ edits = 0 /\ faults = 0

Fault == faults < MaxFaults /\ faults' = faults + 1
NoFault == UNCHANGED faults

-----------------------------------------------------------------------------
(* A process starts *)

\* RunningOnOpenshift says no when its call fails, and is not asked again.
SetupWithManager(p) ==
    /\ boot[p] = "down"
    /\ boot' = [boot EXCEPT ![p] = "sync"]
    /\ \/ inject' = [inject EXCEPT ![p] = TRUE] /\ NoFault
       \/ inject' = [inject EXCEPT ![p] = FALSE] /\ Fault
    /\ UNCHANGED <<cluster, crCache, before, leading, api, tls, edits>>

-----------------------------------------------------------------------------
(* ensureKedaController *)

At(p, here) == boot[p] = here
Continue(p, next) == boot' = [boot EXCEPT ![p] = next]

\* The goroutine logs the error and returns.
GiveUp(p) == Continue(p, "gaveUp")

WaitForCacheSync(p) ==
    /\ At(p, "sync")
    /\ \/ /\ Continue(p, "namespace") /\ NoFault
          /\ crCache' = [crCache EXCEPT ![p] = cr]
       \/ GiveUp(p) /\ Fault /\ UNCHANGED crCache
    /\ UNCHANGED <<cluster, inject, before, leading, api, tls, edits>>

ReadNamespaceAnyway(p) ==
    /\ At(p, "namespace")
    /\ Continue(p, "keda") /\ NoFault
    /\ before' = IF annotated THEN before ELSE before \cup {p}
    /\ UNCHANGED <<cluster, crCache, inject, leading, api, tls, edits>>

\* An annotated namespace ends it, whatever the value of the annotation.  The read
\* starts the informer of namespaces, so that it sees what there is.
ReadNamespace(p) ==
    /\ At(p, "namespace")
    /\ \/ annotated /\ Continue(p, "done") /\ NoFault /\ UNCHANGED before
       \/ ~annotated /\ Continue(p, "keda") /\ NoFault /\ before' = before \cup {p}
       \/ GiveUp(p) /\ Fault /\ UNCHANGED before
    /\ UNCHANGED <<cluster, crCache, inject, leading, api, tls, edits>>

ReadKedaControllerAnnotatingFirst(p) ==
    /\ At(p, "keda")
    /\ Continue(p, "create") /\ NoFault /\ annotated' = TRUE
    /\ UNCHANGED <<cr, seen, crCache, inject, before, leading, api, tls, edits>>

ReadKedaController(p) ==
    /\ At(p, "keda")
    /\ \/ Continue(p, IF crCache[p] = "absent" THEN "create" ELSE "annotate") /\ NoFault
       \/ GiveUp(p) /\ Fault
    /\ UNCHANGED <<cluster, crCache, inject, before, leading, api, tls, edits>>

CreateDefaultOverwriting(p) ==
    /\ At(p, "create")
    /\ cr' = "default" /\ seen' = TRUE /\ Continue(p, "annotate") /\ NoFault
    /\ UNCHANGED <<annotated, crCache, inject, before, leading, api, tls, edits>>

\* Create is refused when a KedaController exists after all, and then the
\* namespace is not annotated either.
CreateDefault(p) ==
    /\ At(p, "create")
    /\ \/ /\ cr = "absent" /\ cr' = "default" /\ seen' = TRUE
          /\ \/ Continue(p, "annotate") /\ NoFault
             \/ GiveUp(p) /\ Fault
       \/ cr # "absent" /\ GiveUp(p) /\ NoFault /\ UNCHANGED <<cr, seen>>
       \/ GiveUp(p) /\ Fault /\ UNCHANGED <<cr, seen>>
    /\ UNCHANGED <<annotated, crCache, inject, before, leading, api, tls, edits>>

AnnotateNever(p) ==
    /\ At(p, "annotate")
    /\ Continue(p, "done") /\ NoFault
    /\ UNCHANGED <<cluster, crCache, inject, before, leading, api, tls, edits>>

\* A patch of the annotation alone.
Annotate(p) ==
    /\ At(p, "annotate")
    /\ \/ annotated' = TRUE /\ Continue(p, "done") /\ NoFault
       \/ annotated' \in {annotated, TRUE} /\ GiveUp(p) /\ Fault
    /\ UNCHANGED <<cr, seen, crCache, inject, before, leading, api, tls, edits>>

ensureKedaController(p) ==
    \/ WaitForCacheSync(p) \/ ReadNamespace(p) \/ ReadKedaController(p)
    \/ CreateDefault(p) \/ Annotate(p)

-----------------------------------------------------------------------------
(* The leader follows the TLS profile *)

\* The informers list what there is and deliver a create event for each.
Lead(p) ==
    /\ leader = None /\ boot[p] \notin {"down", "sync"}
    /\ leader' = p /\ apiCache' = api /\ pc' = "idle"
    /\ crCache' = [crCache EXCEPT ![p] = cr]
    /\ queued' = (cr # "absent" \/ inject[p])
    /\ UNCHANGED <<cluster, boot, inject, before, api, tls, bounds>>

CacheSync(p) ==
    /\ boot[p] \notin {"down", "sync"} /\ crCache[p] # cr
    /\ crCache' = [crCache EXCEPT ![p] = cr]
    /\ queued' = IF p = leader THEN TRUE ELSE queued
    /\ UNCHANGED <<cluster, boot, inject, before, leader, apiCache, pc, api, tls, bounds>>

ProfileChangedOnly(old, new) ==
    Resolve[old.profile] = Unresolved \/ Resolve[old.profile] # Resolve[new.profile]

\* enqueueOnTLSProfileChange compares what the profiles resolve to.
ProfileChanged(old, new) ==
    \/ Resolve[old.profile] = Unresolved \/ Resolve[new.profile] = Unresolved
    \/ Resolve[old.profile] # Resolve[new.profile]
    \/ old.adherence # new.adherence

APIServerSync ==
    /\ leader # None /\ apiCache # api
    /\ apiCache' = api
    /\ queued' = (queued \/ (inject[leader] /\ ProfileChanged(apiCache, api)))
    /\ UNCHANGED <<cluster, process, leader, pc, api, tls, bounds>>

\* Unknown ciphers are dropped.
ConvertTLSProfileSpec(spec) == [min |-> spec.min, ciphers |-> spec.ciphers \cap Known]

clusterTLSProfile(a) ==
    IF a.adherence /\ Resolve[a.profile] # Unresolved
    THEN ConvertTLSProfileSpec(Resolve[a.profile]) ELSE NoTLS

Begin ==
    /\ leader # None /\ queued /\ pc = "idle"
    /\ queued' = FALSE
    /\ pc' = IF crCache[leader] = "absent" THEN "idle" ELSE "operator"
    /\ UNCHANGED <<cluster, process, leader, apiCache, api, tls, bounds>>

\* Each Deployment is rendered with the profile read for it; when the read fails, it
\* loses the settings it had, and the reconcile goes on and does not come back.
kedaTLSEnvVarTransforms ==
    /\ leader # None /\ pc \in Deployments
    /\ \/ inject[leader] /\ tls' = [tls EXCEPT ![pc] = clusterTLSProfile(apiCache)] /\ NoFault
       \/ inject[leader] /\ tls' = [tls EXCEPT ![pc] = Unread] /\ Fault
       \/ ~inject[leader] /\ tls' = [tls EXCEPT ![pc] = NoTLS] /\ NoFault
    /\ pc' = IF pc = "operator" THEN "metrics" ELSE "idle"
    /\ UNCHANGED <<cluster, process, leader, apiCache, queued, api, edits>>

-----------------------------------------------------------------------------
(* The surroundings *)

\* The process ends; what was in flight may have taken effect already.
Crash(p) ==
    /\ Fault /\ boot[p] # "down"
    /\ boot' = [boot EXCEPT ![p] = "down"] /\ before' = before \ {p}
    /\ crCache' = [crCache EXCEPT ![p] = "absent"]
    /\ inject' = [inject EXCEPT ![p] = FALSE]
    /\ IF p = leader THEN leader' = None /\ queued' = FALSE /\ pc' = "idle" /\ UNCHANGED apiCache
       ELSE UNCHANGED leading
    /\ UNCHANGED <<cluster, api, tls, edits>>

Edit == edits < MaxEdits /\ edits' = edits + 1

UserCreate ==
    /\ Edit /\ cr = "absent" /\ cr' = "user" /\ seen' = TRUE
    /\ UNCHANGED <<annotated, process, leading, api, tls, faults>>

UserDelete ==
    /\ Edit /\ cr # "absent" /\ cr' = "absent"
    /\ UNCHANGED <<annotated, seen, process, leading, api, tls, faults>>

AdminEdit(a) ==
    /\ Edit /\ a # api /\ api' = a
    /\ UNCHANGED <<cluster, process, leading, tls, faults>>

Operator ==
    \/ \E p \in Procs : SetupWithManager(p) \/ ensureKedaController(p)
                          \/ Lead(p) \/ CacheSync(p)
    \/ APIServerSync \/ Begin \/ kedaTLSEnvVarTransforms

Next ==
    \/ Operator
    \/ \E p \in Procs : Crash(p)
    \/ UserCreate \/ UserDelete
    \/ \E a \in APIServers : AdminEdit(a)

\* The processes are started and keep running, and somebody leads.
Fairness ==
    /\ \A p \in Procs : /\ WF_vars(SetupWithManager(p))
                        /\ WF_vars(ensureKedaController(p))
                        /\ WF_vars(CacheSync(p))
    /\ WF_vars(\E p \in Procs : Lead(p))
    /\ WF_vars(APIServerSync) /\ WF_vars(Begin) /\ WF_vars(kedaTLSEnvVarTransforms)

Spec == Init /\ [][Next]_vars /\ Fairness

-----------------------------------------------------------------------------
(* Properties *)

\* A user who deletes the KedaController keeps it deleted: once the namespace is
\* annotated, a process creates the default only if it had read the namespace
\* before the annotation, so never one that starts later
\* (kedaDefaultControllerAnnotation).
DeletionIsFinal ==
    [][ annotated /\ cr = "absent" /\ cr' = "default"
          => \E p \in before : boot[p] = "create" ]_vars

\* The operator annotates the namespace only when there has been a KedaController:
\* a process that ends between the two steps of ensureKedaController, or loses
\* against another one, never leaves a fresh cluster without the default for good.
AnnotatedOnlyAfterCreation ==
    [][~annotated /\ annotated' => seen]_vars

\* Whatever a user created is never replaced by the default, although the absence
\* was read from a cache.
UserKedaControllerKept ==
    [][cr = "user" => cr' # "default"]_vars

\* The bootstrap comes to an end: the namespace is annotated, unless every process
\* gave up on an error and is waiting for its next start.
BootstrapSettles ==
    <>[](annotated \/ \A p \in Procs : boot[p] = "gaveUp")

\* Once the administrator leaves the TLS profile alone, every Deployment of an
\* existing KedaController has the settings of the current profile, however the
\* change fell into a running reconcile, provided the leader recognised OpenShift
\* when it started (enqueueOnTLSProfileChange to kedaTLSEnvVarTransforms).  A
\* Deployment whose last rendering could not read the profile is left out: nothing
\* but the next reconcile, whatever causes it, gives it the settings.
ProfileConverges ==
    <>[](leader # None /\ inject[leader] /\ cr # "absent"
           => \A d \in Deployments : tls[d] \in {clusterTLSProfile(api), Unread})
=============================================================================
