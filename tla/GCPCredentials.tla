---------------------------- MODULE GCPCredentials ----------------------------
(***************************************************************************)
(* The GCP credential Secret and its wiring into the keda-operator         *)
(* Deployment (internal/controller/keda/gcp_workload_identity.go and the   *)
(* part of installController that uses it).                                *)
(*                                                                         *)
(* The reconciler reads the Secret from the manager's cache, which lags    *)
(* behind the API server, and it is not woken up by changes of the Secret. *)
(* Users change the configuration and replace the KedaController; others   *)
(* create and delete Secrets of the same name; calls fail; the garbage     *)
(* collector removes what a KedaController that is gone has owned.         *)
(*                                                                         *)
(* The KedaController itself is read fresh here: that its copy is stale    *)
(* too is the subject of KedaReconciler, where installs and finalizations  *)
(* are steps of the one worker that never overlap.                         *)
(***************************************************************************)
EXTENDS Naturals

CONSTANTS
    Configs,      \* valid Workload Identity configurations
    EnvConfig,    \* what the operator's environment configures
    MaxUid,       \* bound: incarnations of the KedaController
    MaxEdits,     \* bound: user operations
    MaxOthers,    \* bound: what others do to the Secret
    MaxFaults     \* bound: failing calls and restarts

\* A configuration block is missing ("nil"), valid, or rejected ("invalid").
Blocks == Configs \cup {"nil", "invalid"}

ASSUME ConfigAssumption ==
    /\ "nil" \notin Configs /\ "invalid" \notin Configs /\ "other" \notin Configs
    /\ EnvConfig \in Blocks
ASSUME GCPBoundsAssumption ==
    MaxUid \in Nat /\ MaxEdits \in Nat /\ MaxOthers \in Nat /\ MaxFaults \in Nat

VARIABLES
    cr,      \* the KedaController keda
    queue,   \* pending requests
    secret,  \* Secret keda-gcp-credentials at the API server
    cache,   \* the same Secret in the manager's cache
    dep,     \* the credentials the keda-operator Deployment is wired to
    pc,      \* what the worker does next
    inst,    \* the copy of the KedaController this reconcile works on
    creds,   \* the credentials this reconcile computed
    report,  \* status.gcpWorkloadIdentity as this reconcile will write it
    edits, others, faults

worker == <<pc, inst, creds, report>>
counters == <<edits, others, faults>>
vars == <<cr, queue, secret, cache, dep, pc, inst, creds, report,
          edits, others, faults>>

Request == "keda"

\* The credential document depends on the configuration and on the endpoints
\* of the cloud: those of the cluster's platform or the public defaults.
Credentials == [cfg : Configs \cup {"nil", "other"}, cloud : {"cluster", "public"}]
NoCredentials == [cfg |-> "nil", cloud |-> "public"]

CRType == [uid : 0..MaxUid, life : {"absent", "live", "deleting"}, spec : Blocks,
           phase : {"", "Succeeded", "Failed"}, gcp : Configs \cup {"nil"}]
NoCR(u) == [uid |-> u, life |-> "absent", spec |-> "nil", phase |-> "", gcp |-> "nil"]

\* The controller of the Secret: nobody, a KedaController by uid, or Foreign.
Foreign == MaxUid + 1
SecretType == [state : {"absent", "present"}, owner : 0..MaxUid + 1,
               type : {"Opaque", "tls"}, data : Credentials]
NoSecret == [state |-> "absent", owner |-> 0, type |-> "Opaque", data |-> NoCredentials]

PCs == {"idle", "platform", "ensure", "apply", "delete", "succeed", "fail",
        "finalizeSecret", "finalizeOperands", "removeFinalizer"}

TypeOK ==
    /\ cr \in CRType /\ inst \in CRType
    /\ queue \subseteq {Request}
    /\ secret \in SecretType /\ cache \in SecretType
    /\ dep \in Credentials /\ creds \in Credentials
    /\ pc \in PCs
    /\ report \in Configs \cup {"nil"}
    /\ edits \in 0..MaxEdits /\ others \in 0..MaxOthers /\ faults \in 0..MaxFaults

Init ==
    /\ cr = NoCR(0) /\ inst = NoCR(0)
    /\ queue = {}
    /\ secret = NoSecret /\ cache = NoSecret
    /\ dep = NoCredentials /\ creds = NoCredentials
    /\ pc = "idle" /\ report = "nil"
    /\ edits = 0 /\ others = 0 /\ faults = 0

-----------------------------------------------------------------------------
NoFault == faults' = faults
Fault == faults < MaxFaults /\ faults' = faults + 1

Goto(next) == pc' = next /\ UNCHANGED <<inst, creds, report>>

Return(pending) ==
    /\ pc' = "idle" /\ inst' = NoCR(0) /\ creds' = NoCredentials /\ report' = "nil"
    /\ queue' = pending

\* Exactly one source applies; the two are never merged.
gcpWorkloadIdentityConfig(spec) == IF spec # "nil" THEN spec ELSE EnvConfig

StageForDeletingFirst(config) ==
    CASE config = "invalid" -> "fail"
      [] config = "nil" -> "delete"
      [] OTHER -> "platform"

\* Nothing to prepare without a configuration; the wiring goes with the apply.
StageFor(config) ==
    CASE config = "invalid" -> "fail"
      [] config = "nil" -> "apply"
      [] OTHER -> "platform"

\* The worker takes a request for a resource that is there no more.
BeginGone ==
    /\ pc = "idle" /\ Request \in queue /\ cr.life = "absent"
    /\ queue' = {}
    /\ UNCHANGED <<cr, secret, cache, dep, worker, counters>>

\* The worker takes the request, reads the resource and its configuration.
Begin ==
    /\ pc = "idle" /\ Request \in queue /\ cr.life = "live"
    /\ LET config == gcpWorkloadIdentityConfig(cr.spec) IN
         /\ pc' = StageFor(config)
         /\ report' = IF config = "nil" THEN "nil" ELSE cr.gcp
         /\ creds' = IF config \in {"nil", "invalid"} THEN NoCredentials
                     ELSE [cfg |-> config, cloud |-> "public"]
    /\ inst' = cr /\ queue' = {}
    /\ UNCHANGED <<cr, secret, cache, dep, counters>>

\* The resource is being deleted: finalizeKedaController starts.
BeginFinalize ==
    /\ pc = "idle" /\ Request \in queue /\ cr.life = "deleting"
    /\ pc' = "finalizeSecret" /\ inst' = cr /\ queue' = {}
    /\ UNCHANGED <<cr, secret, cache, dep, creds, report, counters>>

gcpPlatformUnset ==
    /\ pc = "platform"
    /\ creds' = [creds EXCEPT !.cloud = "unset"]
    /\ pc' = "ensure" /\ UNCHANGED <<inst, report>> /\ NoFault
    /\ UNCHANGED <<cr, queue, secret, cache, dep, edits, others>>

\* The cluster is an OpenShift on GCP, so the Infrastructure resource names the
\* endpoints.  A List that fails makes RunningOnOpenshift say "no"; a failed
\* read of the Infrastructure is an error.
gcpPlatform ==
    /\ pc = "platform"
    /\ \/ /\ creds' = [creds EXCEPT !.cloud = "cluster"]
          /\ pc' = "ensure" /\ UNCHANGED <<inst, report>> /\ NoFault
       \/ /\ Goto("ensure") /\ Fault
       \/ /\ Goto("fail") /\ Fault
    /\ UNCHANGED <<cr, queue, secret, cache, dep, edits, others>>

Desired == [state |-> "present", owner |-> inst.uid, type |-> "Opaque", data |-> creds]

\* Somebody else controls the Secret, or it is of a type that cannot change.  An
\* earlier KedaController keda counts as the same owner (referSameObject).
NotOurs(s, uid) ==
    s.state = "present" /\ s.owner # uid /\ (s.owner = Foreign \/ s.type # "Opaque")

UpdateAcceptedBlindly(s) == s.state = "present"

\* An Update carries the resourceVersion of the copy it was computed from.
UpdateAccepted(s) == s = secret

NeedsUpdateOwnerOnly(s) == s.owner # inst.uid
NeedsUpdate(s) == s.owner # inst.uid \/ s.data # creds

\* Create or update, judged by the cached Secret; the status entry is filled in
\* after it.  The read or the write fails, and a write that fails may have happened.
ensureGCPCredentialsSecret ==
    LET write ==
          \/ cache.state = "absent"
          \/ cache.state = "present" /\ ~NotOurs(cache, inst.uid) /\ NeedsUpdate(cache)
        accepted ==
          IF cache.state = "absent" THEN secret.state = "absent" ELSE UpdateAccepted(cache)
    IN /\ pc = "ensure"
       /\ \/ /\ \/ write /\ accepted /\ secret' = Desired
                \/ ~write /\ ~NotOurs(cache, inst.uid) /\ UNCHANGED secret
             /\ pc' = "apply" /\ report' = creds.cfg
             /\ UNCHANGED <<inst, creds>> /\ NoFault
          \/ /\ NotOurs(cache, inst.uid) \/ (write /\ ~accepted)
             /\ Goto("fail") /\ NoFault /\ UNCHANGED secret
          \/ /\ UNCHANGED secret \/ (write /\ accepted /\ secret' = Desired)
             /\ Goto("fail") /\ Fault
       /\ UNCHANGED <<cr, queue, cache, dep, edits, others>>

\* installController applies the Deployment, wired to the Secret or not; a
\* change of the Deployment queues a request.
ApplyDeployment ==
    /\ pc = "apply"
    /\ \/ dep' = creds /\ NoFault
          /\ Goto(IF creds = NoCredentials THEN "delete" ELSE "succeed")
       \/ dep' \in {dep, creds} /\ Fault /\ Goto("fail")
    /\ queue' = IF dep' # dep THEN {Request} ELSE queue
    /\ UNCHANGED <<cr, secret, cache, edits, others>>

\* Ours judged by the cached Secret, then deleted by name; NotFound is no error.
Ours(s) == s.state = "present" /\ s.owner = inst.uid
DeletedByName == IF Ours(cache) THEN NoSecret ELSE secret

deleteGCPCredentialsSecret ==
    /\ pc = "delete"
    /\ \/ /\ secret' = DeletedByName
          /\ Goto("succeed") /\ NoFault
       \/ /\ secret' \in {secret, DeletedByName}
          /\ Goto("fail") /\ Fault
    /\ UNCHANGED <<cr, queue, cache, dep, edits, others>>

\* A stage after installController fails; the Secret and the Deployment stay as they
\* are.
LaterStageFails ==
    /\ pc = "succeed"
    /\ Goto("fail") /\ Fault
    /\ UNCHANGED <<cr, queue, secret, cache, dep, edits, others>>

\* finalizeKedaController deletes the Secret, then the operands, and the worker
\* lets go of the resource; an error starts it all over.
finalizeSecret ==
    /\ pc = "finalizeSecret"
    /\ \/ /\ secret' = DeletedByName
          /\ Goto("finalizeOperands") /\ NoFault /\ UNCHANGED queue
       \/ /\ secret' \in {secret, DeletedByName}
          /\ Return({Request}) /\ Fault
    /\ UNCHANGED <<cr, cache, dep, edits, others>>

finalizeOperands ==
    /\ pc = "finalizeOperands"
    /\ \/ dep' = NoCredentials /\ Goto("removeFinalizer") /\ NoFault
          /\ queue' = IF dep' # dep THEN {Request} ELSE queue
       \/ dep' \in {dep, NoCredentials} /\ Return({Request}) /\ Fault
    /\ UNCHANGED <<cr, secret, cache, edits, others>>

RemoveFinalizer ==
    /\ pc = "removeFinalizer"
    /\ \/ cr' = NoCR(cr.uid) /\ Return({Request}) /\ NoFault
       \/ UNCHANGED cr /\ Return({Request}) /\ Fault
    /\ UNCHANGED <<secret, cache, dep, edits, others>>

\* UpdateKedaControllerStatus, a merge patch against the copy in inst.
Patched(phase) ==
    [cr EXCEPT !.phase = IF phase # inst.phase THEN phase ELSE @,
               !.gcp = IF report # inst.gcp THEN report ELSE @]

\* The reconcile ends: the status is written and an error requeues.
ReportStatus ==
    /\ pc \in {"succeed", "fail"}
    /\ \/ /\ cr' = Patched(IF pc = "succeed" THEN "Succeeded" ELSE "Failed")
          /\ Return(IF pc = "fail" \/ cr' # cr THEN {Request} ELSE queue)
          /\ NoFault
       \/ UNCHANGED cr /\ Return({Request}) /\ Fault
    /\ UNCHANGED <<secret, cache, dep, edits, others>>

-----------------------------------------------------------------------------
(* The surroundings *)

\* The Secret's informer catches up; nothing is queued for it.
CacheSync ==
    /\ cache # secret
    /\ cache' = secret
    /\ UNCHANGED <<cr, queue, secret, dep, worker, counters>>

\* The manager's cache re-delivers every KedaController periodically.
Resync ==
    /\ cr.life # "absent" /\ queue = {}
    /\ queue' = {Request}
    /\ UNCHANGED <<cr, secret, cache, dep, worker, counters>>

Restart ==
    /\ Fault
    /\ cache' = secret
    /\ Return(IF cr.life = "absent" THEN {} ELSE {Request})
    /\ UNCHANGED <<cr, secret, dep, edits, others>>

Edit == edits < MaxEdits /\ edits' = edits + 1

UserSets(block) ==
    /\ Edit
    /\ \/ /\ cr.life = "live" /\ cr.spec # block
          /\ cr' = [cr EXCEPT !.spec = block]
       \/ /\ cr.life = "absent" /\ cr.uid < MaxUid
          /\ cr' = [NoCR(cr.uid + 1) EXCEPT !.life = "live", !.spec = block]
    /\ queue' = {Request}
    /\ UNCHANGED <<secret, cache, dep, worker, others, faults>>

UserDeletes ==
    /\ Edit /\ cr.life = "live"
    /\ cr' = [cr EXCEPT !.life = "deleting"]
    /\ queue' = {Request}
    /\ UNCHANGED <<secret, cache, dep, worker, others, faults>>

Other == others < MaxOthers /\ others' = others + 1

OthersDelete ==
    /\ Other /\ secret.state = "present"
    /\ secret' = NoSecret
    /\ UNCHANGED <<cr, queue, cache, dep, worker, edits, faults>>

\* A Secret made by hand, by another controller, or of another type.
OthersCreate(owner, type) ==
    /\ Other /\ secret.state = "absent"
    /\ secret' = [state |-> "present", owner |-> owner, type |-> type,
                  data |-> [cfg |-> "other", cloud |-> "public"]]
    /\ UNCHANGED <<cr, queue, cache, dep, worker, edits, faults>>

\* The garbage collector removes the Secret of a KedaController that is gone.
Collect ==
    /\ secret.state = "present" /\ secret.owner \in 1..MaxUid
    /\ cr.life = "absent" \/ cr.uid # secret.owner
    /\ secret' = NoSecret
    /\ UNCHANGED <<cr, queue, cache, dep, worker, counters>>

-----------------------------------------------------------------------------
Reconcile ==
    \/ BeginGone \/ Begin \/ BeginFinalize \/ gcpPlatform
    \/ ensureGCPCredentialsSecret \/ ApplyDeployment
    \/ deleteGCPCredentialsSecret \/ LaterStageFails \/ ReportStatus
    \/ finalizeSecret \/ finalizeOperands \/ RemoveFinalizer

Next ==
    \/ Reconcile \/ CacheSync \/ Resync \/ Restart \/ Collect
    \/ \E block \in Blocks : UserSets(block)
    \/ UserDeletes
    \/ OthersDelete
    \/ \E owner \in {0, Foreign}, type \in {"Opaque", "tls"} : OthersCreate(owner, type)

Spec == Init /\ [][Next]_vars

\* The worker, the informer with its periodic resync and the collector keep
\* running.
FairSpec ==
    Spec /\ WF_vars(Reconcile) /\ WF_vars(CacheSync) /\ WF_vars(Resync) /\ WF_vars(Collect)

-----------------------------------------------------------------------------
(* Properties *)

\* The worker's own step out of a stage, as opposed to what others do meanwhile.
Leaves(stage) == pc = stage /\ pc' # stage

\* While the KedaController is installed, the operator deletes the credential
\* Secret only when the Deployment no longer mounts it, whatever failed in between
\* (installController: "Deleting it any earlier would leave the still-current
\* Deployment pointing at a missing Secret").
DeletedOnlyWhenUnmounted ==
    [][ Leaves("delete") /\ secret' # secret => dep = NoCredentials ]_vars

\* A Secret that somebody else controls, or that is of another type, is never
\* overwritten, even when the decision was made on a stale copy
\* (ensureGCPCredentialsSecret: "not ours to overwrite").
ForeignNeverOverwritten ==
    [][ Leaves("ensure") /\ NotOurs(secret, inst.uid) => secret' = secret ]_vars

\* Left alone, the Secret, the Deployment and the status entry all end up with
\* the configuration in effect, or the Secret is somebody else's and the failure
\* is reported; without a configuration, and without a KedaController, nothing of
\* it remains, even if the finalizer missed the Secret in its cache (README.md:
\* "Removing both the block and the variables removes the Secret and the
\* Deployment wiring again, and the status entry with them").
CredentialsConverge ==
    <>[](/\ cr.life = "absent" => secret.owner \notin 1..MaxUid
         /\ cr.life = "live" =>
           LET config == gcpWorkloadIdentityConfig(cr.spec) IN
             CASE config = "invalid" -> cr.phase = "Failed"
               [] config = "nil" ->
                    /\ dep = NoCredentials /\ cr.gcp = "nil"
                    /\ cr.phase = "Succeeded" /\ secret.owner # cr.uid
               [] OTHER ->
                    \/ NotOurs(secret, cr.uid) /\ cr.phase = "Failed"
                    \/ /\ dep = [cfg |-> config, cloud |-> "cluster"] /\ secret.data = dep
                       /\ secret.owner = cr.uid /\ cr.gcp = config
                       /\ cr.phase = "Succeeded")

\* gcp_workload_identity.go, gcpPlatform: "a transient API problem can't
\* overwrite a correct Secret with the wrong endpoints and roll the pods".
CorrectEndpointsAreKept ==
    [][ Leaves("ensure") /\ secret.state = "present" /\ secret.data.cloud = "cluster"
          => secret'.data.cloud = "cluster" ]_vars

\* gcp_workload_identity.go, deleteGCPCredentialsSecret: "Secrets of the same
\* name that belong to someone else are left alone", by an install without a
\* configuration and by the finalizer.
OthersAreLeftAlone ==
    [][ /\ Leaves("delete") \/ Leaves("finalizeSecret")
        /\ secret.state = "present" /\ secret.owner \in {0, Foreign}
        => secret' = secret ]_vars
=============================================================================
