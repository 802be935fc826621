---------------------------- MODULE EnsuredObjects ----------------------------
(***************************************************************************)
(* The objects a reconcile ensures one by one instead of applying them     *)
(* from a manifest: the ConfigMap for the OpenShift CA bundle, the         *)
(* ConfigMap with the audit policy, and the Role and RoleBinding that let  *)
(* Prometheus in (ensureOpenshiftCABundleConfigMap and                     *)
(* ensureMetricsServerAuditLogPolicyConfigMap in                           *)
(* kedacontroller_controller.go, prometheus_rbac.go).                      *)
(*                                                                         *)
(* Each is read from a cache that lags, created or updated, and never      *)
(* watched: a reconcile is caused by an edit of the KedaController, by an  *)
(* error or by the periodic resync.  The console and administrators write  *)
(* the same objects.  The cluster is OpenShift.                            *)
(*                                                                         *)
(* An object is abstracted to what the operator compares: its content, the *)
(* RoleRef of the RoleBinding, and whose controller reference it carries.  *)
(* Whether the cached copy has the current resourceVersion is fresh.       *)
(***************************************************************************)
EXTENDS Naturals

CONSTANTS
    Policies,   \* the audit settings users write, besides "off"
    Rejected,   \* the ones whose lifetime limits or claim the operator does not accept
    Contested,  \* the objects others write too
    MaxEdits,   \* bound: edits of the KedaController and of the namespace
    MaxOthers,  \* bound: writes of the objects by others
    MaxFaults   \* bound: failing calls and restarts

Objects == {"cabundle", "audit", "role", "binding"}

Contents == Policies \cup {"off", "right", "wrong", "nil"}

ASSUME BoundsAssumption ==
    /\ Contested \subseteq Objects /\ Rejected \subseteq Policies
    /\ Policies \cap {"off", "right", "wrong", "nil"} = {}
    /\ MaxEdits \in Nat /\ MaxOthers \in Nat /\ MaxFaults \in Nat

VARIABLES
    obj,      \* Objects -> the object at the API server
    cache,    \* Objects -> the cached copy
    fresh,    \* the objects whose cached copy has the current resourceVersion
    policy,   \* the audit policy of the spec
    label,    \* does the namespace ask for cluster monitoring?
    queued,   \* is a request pending?
    pc,       \* the next step of the reconcile
    inst,     \* the policy in the copy of the KedaController it works on
    edits, others, faults

bounds == <<edits, others, faults>>
objects == <<obj, cache, fresh>>
vars == <<objects, policy, label, queued, pc, inst, bounds>>

ObjType == [exists : BOOLEAN, content : Contents, roleRef : {"right", "wrong"},
            owner : {"none", "us", "other"}]

Absent == [exists |-> FALSE, content |-> "off", roleRef |-> "right", owner |-> "none"]

PCs == {"idle", "cabundle", "audit", "stages", "monitoring", "role", "binding",
        "recreate"}

TypeOK ==
    /\ obj \in [Objects -> ObjType] /\ cache \in [Objects -> ObjType]
    /\ fresh \subseteq Objects
    /\ policy \in Policies \cup {"off"} /\ inst \in Policies \cup {"off"}
    /\ label \in BOOLEAN /\ queued \in BOOLEAN
    /\ pc \in PCs
    /\ edits \in 0..MaxEdits /\ others \in 0..MaxOthers /\ faults \in 0..MaxFaults

Init ==
    /\ obj = [o \in Objects |-> Absent] /\ cache = obj /\ fresh = Objects
    /\ policy \in Policies \cup {"off"} /\ inst = "off" /\ label \in BOOLEAN
    /\ queued = TRUE /\ pc = "idle"
    /\ edits = 0 /\ others = 0 /\ faults = 0

-----------------------------------------------------------------------------
(* Calls *)

Fault == faults < MaxFaults /\ faults' = faults + 1
NoFault == UNCHANGED faults

Goto(next) == pc' = next /\ UNCHANGED queued
Error == pc' = "idle" /\ queued' = TRUE

DesiredUnset(o) == IF o = "audit" THEN "" ELSE "right"

\* What the code wants an object to hold.
Desired(o) == IF o = "audit" THEN inst ELSE "right"
New(o) == [exists |-> TRUE, content |-> Desired(o), roleRef |-> "right", owner |-> "us"]

Store(o, new) ==
    /\ obj' = [obj EXCEPT ![o] = new]
    /\ fresh' = IF new = obj[o] THEN fresh ELSE fresh \ {o}
    /\ UNCHANGED cache

\* The call has no effect and the reconcile returns the error.
Refused == Error /\ NoFault /\ UNCHANGED objects
Fails == Error /\ Fault /\ UNCHANGED objects

Create(o, next) ==
    \/ ~obj[o].exists /\ Store(o, New(o)) /\ Goto(next) /\ NoFault
    \/ ~obj[o].exists /\ Store(o, New(o)) /\ Error /\ Fault
    \/ obj[o].exists /\ Refused
    \/ Fails

UpdateBlindly(o, new, next) ==
    \/ obj[o].exists /\ Store(o, new) /\ Goto(next) /\ NoFault
    \/ ~obj[o].exists /\ Refused

\* Update carries the resourceVersion of the cached copy.
Update(o, new, next) ==
    \/ o \in fresh /\ Store(o, new) /\ Goto(next) /\ NoFault
    \/ o \in fresh /\ Store(o, new) /\ Error /\ Fault
    \/ o \notin fresh /\ Refused
    \/ Fails

\* Delete names the object and has no precondition.
Delete(o, next) ==
    \/ obj[o].exists /\ Store(o, Absent) /\ Goto(next) /\ NoFault
    \/ obj[o].exists /\ Store(o, Absent) /\ Error /\ Fault
    \/ ~obj[o].exists /\ Refused
    \/ Fails

\* AlreadyOwnedError is swallowed, and the rest of the object still written.
SetControllerReference(c) ==
    IF c.owner = "other" THEN c ELSE [c EXCEPT !.owner = "us"]

\* An object the operator controls is updated whether it changed or not.
UpdateExisting(o, next) ==
    LET new == SetControllerReference([cache[o] EXCEPT !.content = Desired(o)])
    IN \/ (new # cache[o] \/ new.owner = "us") /\ Update(o, new, next)
       \/ ~(new # cache[o] \/ new.owner = "us") /\ Goto(next) /\ NoFault /\ UNCHANGED objects

Ensure(o, next) ==
    \/ ~cache[o].exists /\ Create(o, next)
    \/ cache[o].exists /\ UpdateExisting(o, next)

-----------------------------------------------------------------------------
(* The reconcile *)

Begin ==
    /\ pc = "idle" /\ queued
    /\ pc' = "cabundle" /\ queued' = FALSE /\ inst' = policy
    /\ UNCHANGED <<objects, policy, label, bounds>>

\* RunningOnOpenshift says no when its call fails; the stage is then skipped.
Skip(next) == Fault /\ Goto(next) /\ UNCHANGED objects

ensureOpenshiftCABundleConfigMap ==
    /\ pc = "cabundle"
    /\ Ensure("cabundle", "audit") \/ Skip("audit")
    /\ UNCHANGED <<policy, label, inst, edits, others>>

\* Auditing is on when the policy is not empty.  A cached ConfigMap without data
\* makes the assignment into its nil map panic, which the manager turns into an
\* error.
ensureMetricsServerAuditLogPolicyConfigMap ==
    /\ pc = "audit"
    /\ \/ inst = "off" /\ Goto("stages") /\ NoFault /\ UNCHANGED objects
       \/ inst # "off" /\ cache["audit"].content = "nil" /\ Refused
       \/ inst # "off" /\ cache["audit"].content # "nil" /\ Ensure("audit", "stages")
    /\ UNCHANGED <<policy, label, inst, edits, others>>

\* The rest of the metrics server and the webhooks, monitoring and add-on stages do
\* not concern these objects, but their errors keep the reconcile from the next:
\* audit settings that are not accepted, in every reconcile, and calls that fail.
installStagesBetween ==
    /\ pc = "stages"
    /\ \/ inst \notin Rejected /\ Goto("monitoring") /\ NoFault /\ UNCHANGED objects
       \/ inst \in Rejected /\ Refused
       \/ Fails
    /\ UNCHANGED <<policy, label, inst, edits, others>>

\* The namespace is read before the Role is ensured.
ensurePrometheusMonitoringRBAC ==
    /\ pc = "monitoring"
    /\ \/ label /\ Goto("role") /\ NoFault
       \/ ~label /\ Goto("idle") /\ NoFault
       \/ Goto("idle") /\ Fault
       \/ Error /\ Fault
    /\ UNCHANGED <<objects, policy, label, inst, edits, others>>

ensurePrometheusRole ==
    /\ pc = "role"
    /\ Ensure("role", "binding")
    /\ UNCHANGED <<policy, label, inst, edits, others>>

DriftedIgnored(c) == FALSE
DriftedInAnyWay(c) == c # New("binding")

\* A RoleRef cannot be changed.
Drifted(c) == c.roleRef # "right"

ensurePrometheusRoleBinding ==
    /\ pc = "binding"
    /\ \/ ~cache["binding"].exists /\ Create("binding", "idle")
       \/ /\ cache["binding"].exists /\ Drifted(cache["binding"])
          /\ Delete("binding", "recreate")
       \/ /\ cache["binding"].exists /\ ~Drifted(cache["binding"])
          /\ UpdateExisting("binding", "idle")
    /\ UNCHANGED <<policy, label, inst, edits, others>>

recreatePrometheusRoleBinding ==
    /\ pc = "recreate"
    /\ Create("binding", "idle")
    /\ UNCHANGED <<policy, label, inst, edits, others>>

-----------------------------------------------------------------------------
(* The surroundings *)

CacheSync(o) ==
    /\ o \notin fresh
    /\ cache' = [cache EXCEPT ![o] = obj[o]] /\ fresh' = fresh \cup {o}
    /\ UNCHANGED <<obj, policy, label, queued, pc, inst, bounds>>

\* The periodic resync of the KedaController.
Resync ==
    /\ ~queued
    /\ queued' = TRUE
    /\ UNCHANGED <<objects, policy, label, pc, inst, bounds>>

Restart ==
    /\ Fault
    /\ pc' = "idle" /\ queued' = TRUE
    /\ cache' = obj /\ fresh' = Objects
    /\ UNCHANGED <<obj, policy, label, inst, edits, others>>

UserEdit(p) ==
    /\ edits < MaxEdits /\ edits' = edits + 1
    /\ p # policy /\ policy' = p /\ queued' = TRUE
    /\ UNCHANGED <<objects, label, pc, inst, others, faults>>

\* Nothing watches the label of the namespace.
UserLabel ==
    /\ edits < MaxEdits /\ edits' = edits + 1
    /\ label' = ~label
    /\ UNCHANGED <<objects, policy, queued, pc, inst, others, faults>>

\* Somebody else deletes an object, creates it, or writes it; the RoleRef of an
\* existing RoleBinding stays.
Other(o, new) ==
    /\ others < MaxOthers /\ others' = others + 1
    /\ new # obj[o] /\ Store(o, new)
    /\ UNCHANGED <<policy, label, queued, pc, inst, edits, faults>>

OtherForms(o) ==
    LET forms == [exists : {TRUE}, owner : {"none", "other"},
                  content : IF o = "audit" THEN {"wrong", "nil"} ELSE {"right", "wrong"},
                  roleRef : IF o # "binding" THEN {"right"}
                            ELSE IF obj[o].exists THEN {obj[o].roleRef}
                            ELSE {"right", "wrong"}]
    IN IF obj[o].exists THEN forms \cup {Absent} ELSE forms

Reconcile ==
    \/ ensureOpenshiftCABundleConfigMap
    \/ ensureMetricsServerAuditLogPolicyConfigMap \/ installStagesBetween
    \/ ensurePrometheusMonitoringRBAC \/ ensurePrometheusRole
    \/ ensurePrometheusRoleBinding \/ recreatePrometheusRoleBinding

Next ==
    \/ Begin \/ Reconcile
    \/ \E o \in Objects : CacheSync(o)
    \/ Resync \/ Restart
    \/ \E p \in Policies \cup {"off"} : UserEdit(p)
    \/ UserLabel
    \/ \E o \in Contested : \E new \in OtherForms(o) : Other(o, new)

\* The worker and the informers keep running and the resync comes again; nobody
\* else owes anything.
Fairness ==
    /\ WF_vars(Begin) /\ WF_vars(Reconcile) /\ WF_vars(Resync)
    /\ \A o \in Objects : WF_vars(CacheSync(o))

Spec == Init /\ [][Next]_vars /\ Fairness

-----------------------------------------------------------------------------
(* Properties *)

\* The objects the cluster and the spec call for; a spec that is not accepted keeps
\* the reconcile from the Role and the RoleBinding.
Wanted == {"cabundle"} \cup (IF policy = "off" THEN {} ELSE {"audit"})
            \cup (IF label /\ policy \notin Rejected THEN {"role", "binding"} ELSE {})

Holds(o) ==
    /\ obj[o].exists /\ obj[o].roleRef = "right"
    /\ obj[o].content = IF o = "audit" THEN policy ELSE "right"

\* Once users, others and faults leave the objects alone, each is there with the
\* content of the current spec, whoever owns it: after lost conflicts, after a
\* RoleBinding that was deleted and not yet created again, and although nothing
\* watches them.  Audit settings that are not accepted hold up only what comes after
\* them.  A ConfigMap without data is left out: it makes every reconcile with auditing
\* panic.
EnsuredInTheEnd ==
    <>[](\/ policy # "off" /\ obj["audit"].content = "nil"
         \/ \A o \in Wanted : Holds(o))

\* An object under somebody else's control is never taken over: the operator
\* becomes the controller only of what had none, of a deleted and re-created
\* object, or of its own, although it decides on a stale copy
\* (controllerutil.SetControllerReference and AlreadyOwnedError).
ControllerKept ==
    [][\A o \in Objects : obj[o].owner = "other" => obj'[o].owner # "us"]_vars

\* Prometheus does not lose access that works: the operator deletes a RoleBinding
\* only when the one it read had another RoleRef ("If it has drifted, we must
\* delete the RoleBinding and recreate it"); a working one goes only when it
\* replaced such a one behind a stale cache.
WorkingBindingKept ==
    [][ pc = "binding" /\ obj["binding"].exists /\ obj["binding"].roleRef = "right"
          /\ ~obj'["binding"].exists
        => "binding" \notin fresh \/ others' # others ]_vars
=============================================================================
