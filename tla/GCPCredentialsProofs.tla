------------------------- MODULE GCPCredentialsProofs -------------------------
(***************************************************************************)
(* Proofs about GCPCredentials: what the reconciler may do to the Secret   *)
(* keda-gcp-credentials, for any number of configurations, incarnations of *)
(* the KedaController, foreign Secrets, failing calls and restarts.        *)
(***************************************************************************)
EXTENDS GCPCredentials, TLAPS

\* What a stage of the reconcile can rely on: credentials are only prepared for
\* a valid configuration, and the Secret is deleted after the wiring.
StageInv ==
    /\ pc \in {"platform", "ensure"} => creds.cfg \in Configs
    /\ pc = "delete" => dep = NoCredentials

GCPInv == TypeOK /\ StageInv

-----------------------------------------------------------------------------
(* Types *)

LEMMA NoTypes ==
  /\ NoCredentials \in Credentials /\ NoSecret \in SecretType
  /\ \A u \in 0..MaxUid : NoCR(u) \in CRType
  /\ 0 \in 0..MaxUid
<1>1. NoCredentials \in Credentials
  BY DEF NoCredentials, Credentials
<1>2. NoSecret \in SecretType
  BY <1>1, GCPBoundsAssumption DEF NoSecret, SecretType
<1>3. \A u \in 0..MaxUid : NoCR(u) \in CRType
  BY DEF NoCR, CRType, Blocks
<1> QED BY <1>1, <1>2, <1>3, GCPBoundsAssumption

LEMMA FaultType ==
  ASSUME TypeOK, Fault \/ NoFault
  PROVE  faults' \in 0..MaxFaults
BY GCPBoundsAssumption DEF TypeOK, Fault, NoFault

\* A configuration that is neither missing nor rejected is a valid one.
LEMMA ConfigTypes ==
  ASSUME NEW spec \in Blocks
  PROVE  /\ gcpWorkloadIdentityConfig(spec) \in Blocks
         /\ gcpWorkloadIdentityConfig(spec) \notin {"nil", "invalid"} =>
              gcpWorkloadIdentityConfig(spec) \in Configs
BY ConfigAssumption DEF gcpWorkloadIdentityConfig, Blocks

LEMMA ReturnType ==
  ASSUME TypeOK, NEW pending \in SUBSET {Request}, Return(pending)
  PROVE  /\ inst' \in CRType /\ creds' \in Credentials /\ pc' = "idle" /\ pc' \in PCs
         /\ report' \in Configs \cup {"nil"} /\ queue' \subseteq {Request}
         /\ StageInv'
BY NoTypes DEF Return, PCs, StageInv

LEMMA GotoType ==
  ASSUME TypeOK, NEW next \in PCs, Goto(next)
  PROVE  /\ inst' \in CRType /\ creds' \in Credentials /\ pc' \in PCs
         /\ report' \in Configs \cup {"nil"}
         /\ pc' = next /\ creds' = creds /\ inst' = inst
BY DEF Goto, TypeOK

LEMMA PatchedType ==
  ASSUME TypeOK, NEW phase \in {"Succeeded", "Failed"}
  PROVE  Patched(phase) \in CRType
<1> DEFINE p == IF phase # inst.phase THEN phase ELSE cr.phase
           g == IF report # inst.gcp THEN report ELSE cr.gcp
<1>1. p \in {"", "Succeeded", "Failed"} /\ g \in Configs \cup {"nil"}
  BY DEF TypeOK, CRType
<1>2. Patched(phase) = [cr EXCEPT !.phase = p, !.gcp = g]
  BY DEF Patched
<1> HIDE DEF p, g
<1> QED BY <1>1, <1>2 DEF TypeOK, CRType

LEMMA DesiredType == TypeOK => Desired \in SecretType
<1> SUFFICES ASSUME TypeOK PROVE Desired \in SecretType
  OBVIOUS
<1>1. inst.uid \in 0..MaxUid
  BY DEF TypeOK, CRType
<1>2. inst.uid \in 0..MaxUid + 1
  BY <1>1, GCPBoundsAssumption
<1> QED BY <1>2 DEF TypeOK, Desired, SecretType

LEMMA DeletedType == TypeOK => DeletedByName \in SecretType
BY NoTypes DEF TypeOK, DeletedByName

-----------------------------------------------------------------------------
(* Every action keeps the invariant *)

LEMMA InitKeeps == Init => GCPInv
<1> SUFFICES ASSUME Init PROVE GCPInv
  OBVIOUS
<1>1. TypeOK
  BY NoTypes, GCPBoundsAssumption DEF Init, TypeOK, PCs
<1>2. StageInv
  BY DEF Init, StageInv
<1> QED BY <1>1, <1>2 DEF GCPInv

LEMMA BeginKeeps ==
  ASSUME GCPInv, Begin \/ BeginGone \/ BeginFinalize
  PROVE  GCPInv'
<1> USE DEF GCPInv
<1>1. CASE BeginGone
  BY <1>1 DEF BeginGone, worker, counters, TypeOK, StageInv
<1>2. CASE BeginFinalize
  BY <1>2 DEF BeginFinalize, counters, TypeOK, PCs, StageInv
<1>3. CASE Begin
  <2> DEFINE config == gcpWorkloadIdentityConfig(cr.spec)
  <2>1. cr.spec \in Blocks /\ cr.gcp \in Configs \cup {"nil"}
    BY DEF TypeOK, CRType
  <2>2. config \in Blocks /\ (config \notin {"nil", "invalid"} => config \in Configs)
    BY <2>1, ConfigTypes
  <2>3. /\ pc' = StageFor(config)
        /\ report' = IF config = "nil" THEN "nil" ELSE cr.gcp
        /\ creds' = IF config \in {"nil", "invalid"} THEN NoCredentials
                    ELSE [cfg |-> config, cloud |-> "public"]
        /\ inst' = cr /\ queue' = {}
        /\ UNCHANGED <<cr, secret, cache, dep, edits, others, faults>>
    BY <1>3 DEF Begin, counters
  <2> HIDE DEF config
  <2>4. /\ pc' \in {"fail", "apply", "platform"}
        /\ pc' = "platform" => config \notin {"nil", "invalid"}
    BY <2>3 DEF StageFor
  <2>5. creds' \in Credentials /\ (config \notin {"nil", "invalid"} => creds'.cfg \in Configs)
    BY <2>2, <2>3, NoTypes DEF Credentials
  <2>6. TypeOK'
    BY <2>1, <2>3, <2>4, <2>5 DEF TypeOK, PCs
  <2>7. StageInv'
    BY <2>4, <2>5 DEF StageInv
  <2> QED BY <2>6, <2>7
<1> QED BY <1>1, <1>2, <1>3

LEMMA PlatformKeeps ==
  ASSUME GCPInv, gcpPlatform
  PROVE  GCPInv'
<1> USE DEF GCPInv
<1>1. UNCHANGED <<cr, queue, secret, cache, dep, edits, others>> /\ faults' \in 0..MaxFaults
  BY FaultType DEF gcpPlatform
<1>2. creds \in Credentials /\ creds.cfg \in Configs
  BY DEF TypeOK, StageInv, gcpPlatform
<1>3. CASE creds' = [creds EXCEPT !.cloud = "cluster"] /\ pc' = "ensure" /\ UNCHANGED <<inst, report>>
  <2>1. creds' \in Credentials /\ creds'.cfg = creds.cfg
    BY <1>2, <1>3 DEF Credentials
  <2>2. TypeOK'
    BY <1>1, <1>3, <2>1 DEF TypeOK, PCs
  <2>3. StageInv'
    BY <1>2, <1>3, <2>1 DEF StageInv
  <2> QED BY <2>2, <2>3
<1>4. CASE Goto("ensure") \/ Goto("fail")
  BY <1>1, <1>2, <1>4 DEF Goto, TypeOK, PCs, StageInv
<1> QED BY <1>3, <1>4 DEF gcpPlatform

\* ensureGCPCredentialsSecret leaves the Secret alone or writes the desired one
\* over none, or over one that is the operator's to write.
LEMMA EnsureCases ==
  ASSUME ensureGCPCredentialsSecret
  PROVE  /\ \/ secret' = secret
            \/ /\ secret' = Desired
               /\ \/ cache.state = "absent" /\ secret.state = "absent"
                  \/ cache = secret /\ ~NotOurs(cache, inst.uid)
         /\ \/ pc' = "apply" /\ report' = creds.cfg /\ UNCHANGED <<inst, creds>>
            \/ Goto("fail")
         /\ NoFault \/ Fault
         /\ pc = "ensure"
         /\ UNCHANGED <<cr, queue, cache, dep, edits, others>>
BY DEF ensureGCPCredentialsSecret, UpdateAccepted

LEMMA EnsureKeeps ==
  ASSUME GCPInv, ensureGCPCredentialsSecret
  PROVE  GCPInv'
<1> USE DEF GCPInv
<1>1. /\ secret' = secret \/ secret' = Desired
      /\ \/ pc' = "apply" /\ report' = creds.cfg /\ UNCHANGED <<inst, creds>>
         \/ Goto("fail")
      /\ NoFault \/ Fault
      /\ pc = "ensure" /\ UNCHANGED <<cr, queue, cache, dep, edits, others>>
  BY EnsureCases
<1>2. secret' \in SecretType
  BY <1>1, DesiredType DEF TypeOK
<1>3. faults' \in 0..MaxFaults
  BY <1>1, FaultType
<1>4. creds.cfg \in Configs
  BY <1>1 DEF StageInv
<1>5. /\ pc' \in {"apply", "fail"} /\ report' \in Configs \cup {"nil"}
      /\ UNCHANGED <<inst, creds>>
  BY <1>1, <1>4 DEF TypeOK, Goto
<1>6. TypeOK'
  BY <1>1, <1>2, <1>3, <1>5 DEF TypeOK, PCs
<1>7. StageInv'
  BY <1>5 DEF StageInv
<1> QED BY <1>6, <1>7

\* Only a Deployment applied without credentials leads to the deletion.
LEMMA ApplyKeeps ==
  ASSUME GCPInv, ApplyDeployment
  PROVE  GCPInv'
<1> USE DEF GCPInv
<1>1. /\ UNCHANGED <<cr, secret, cache, edits, others>>
      /\ queue' \subseteq {Request} /\ faults' \in 0..MaxFaults
  BY FaultType DEF ApplyDeployment, TypeOK
<1>2. dep' \in {dep, creds} /\ UNCHANGED <<inst, creds, report>>
  BY DEF ApplyDeployment, Goto
<1>3. pc' \in {"succeed", "delete", "fail"} /\ (pc' = "delete" => dep' = NoCredentials)
  BY DEF ApplyDeployment, Goto
<1>4. TypeOK'
  BY <1>1, <1>2, <1>3 DEF TypeOK, PCs
<1> QED BY <1>3, <1>4 DEF StageInv

LEMMA DeleteKeeps ==
  ASSUME GCPInv, deleteGCPCredentialsSecret
  PROVE  GCPInv'
<1> USE DEF GCPInv
<1>1. /\ UNCHANGED <<cr, queue, cache, dep, edits, others>> /\ faults' \in 0..MaxFaults
  BY FaultType DEF deleteGCPCredentialsSecret
<1>2. secret' \in SecretType
  BY DeletedType DEF deleteGCPCredentialsSecret, TypeOK
<1>3. pc' \in {"succeed", "fail"} /\ UNCHANGED <<inst, creds, report>>
  BY DEF deleteGCPCredentialsSecret, Goto
<1> QED BY <1>1, <1>2, <1>3 DEF TypeOK, StageInv, PCs

LEMMA FinalizeSecretKeeps ==
  ASSUME GCPInv, finalizeSecret
  PROVE  GCPInv'
<1> USE DEF GCPInv
<1>1. UNCHANGED <<cr, cache, dep, edits, others>> /\ faults' \in 0..MaxFaults
  BY FaultType DEF finalizeSecret
<1>2. secret' \in SecretType
  BY DeletedType DEF finalizeSecret, TypeOK
<1>3. CASE Goto("finalizeOperands") /\ UNCHANGED queue
  BY <1>1, <1>2, <1>3 DEF Goto, TypeOK, StageInv, PCs
<1>4. CASE Return({Request})
  <2>1. /\ inst' \in CRType /\ creds' \in Credentials /\ pc' \in PCs
        /\ report' \in Configs \cup {"nil"} /\ queue' \subseteq {Request} /\ StageInv'
    BY <1>4, ReturnType
  <2> QED BY <1>1, <1>2, <2>1 DEF TypeOK
<1> QED BY <1>3, <1>4 DEF finalizeSecret

LEMMA FinalizeOperandsKeeps ==
  ASSUME GCPInv, finalizeOperands
  PROVE  GCPInv'
<1> USE DEF GCPInv
<1>1. UNCHANGED <<cr, secret, cache, edits, others>> /\ faults' \in 0..MaxFaults
  BY FaultType DEF finalizeOperands
<1>2. dep' \in Credentials
  BY NoTypes DEF finalizeOperands, TypeOK
<1>3. CASE Goto("removeFinalizer") /\ queue' = IF dep' # dep THEN {Request} ELSE queue
  BY <1>1, <1>2, <1>3 DEF Goto, TypeOK, StageInv, PCs
<1>4. CASE Return({Request})
  <2>1. /\ inst' \in CRType /\ creds' \in Credentials /\ pc' \in PCs
        /\ report' \in Configs \cup {"nil"} /\ queue' \subseteq {Request} /\ StageInv'
    BY <1>4, ReturnType
  <2> QED BY <1>1, <1>2, <2>1 DEF TypeOK
<1> QED BY <1>3, <1>4 DEF finalizeOperands

LEMMA LaterStageKeeps ==
  ASSUME GCPInv, LaterStageFails
  PROVE  GCPInv'
<1>1. faults' \in 0..MaxFaults
  BY FaultType DEF LaterStageFails, GCPInv
<1> QED BY <1>1 DEF GCPInv, LaterStageFails, Goto, TypeOK, StageInv, PCs

LEMMA EndKeeps ==
  ASSUME GCPInv, RemoveFinalizer \/ ReportStatus
  PROVE  GCPInv'
<1> USE DEF GCPInv
<1>1. UNCHANGED <<secret, cache, dep, edits, others>> /\ faults' \in 0..MaxFaults
  BY FaultType DEF RemoveFinalizer, ReportStatus
<1>2. NoCR(cr.uid) \in CRType
  BY NoTypes DEF TypeOK, CRType
<1>3. cr' \in CRType
  BY <1>2, PatchedType DEF RemoveFinalizer, ReportStatus, TypeOK
<1>4. PICK pending \in SUBSET {Request} : Return(pending)
  BY DEF RemoveFinalizer, ReportStatus, TypeOK
<1>5. /\ inst' \in CRType /\ creds' \in Credentials /\ pc' \in PCs
      /\ report' \in Configs \cup {"nil"} /\ queue' \subseteq {Request} /\ StageInv'
  BY <1>4, ReturnType
<1> QED BY <1>1, <1>3, <1>5 DEF TypeOK

LEMMA RestartKeeps ==
  ASSUME GCPInv, Restart
  PROVE  GCPInv'
<1> USE DEF GCPInv
<1>1. /\ UNCHANGED <<cr, secret, dep, edits, others>> /\ cache' = secret
      /\ faults' \in 0..MaxFaults
  BY FaultType DEF Restart
<1>2. PICK pending \in SUBSET {Request} : Return(pending)
  BY DEF Restart
<1>3. /\ inst' \in CRType /\ creds' \in Credentials /\ pc' \in PCs
      /\ report' \in Configs \cup {"nil"} /\ queue' \subseteq {Request} /\ StageInv'
  BY <1>2, ReturnType
<1> QED BY <1>1, <1>3 DEF TypeOK

LEMMA UserKeeps ==
  ASSUME GCPInv, UserDeletes \/ (\E block \in Blocks : UserSets(block))
  PROVE  GCPInv'
<1> USE DEF GCPInv
<1>1. /\ UNCHANGED <<secret, cache, dep, pc, inst, creds, report, others, faults>>
      /\ queue' = {Request} /\ edits < MaxEdits /\ edits' = edits + 1
  BY DEF UserDeletes, UserSets, Edit, worker
<1>2. edits' \in 0..MaxEdits
  BY <1>1, GCPBoundsAssumption DEF TypeOK
<1>3. ASSUME UserDeletes PROVE cr' \in CRType
  BY <1>3 DEF UserDeletes, TypeOK, CRType
<1>4. ASSUME NEW block \in Blocks, UserSets(block) PROVE cr' \in CRType
  <2>1. CASE cr' = [cr EXCEPT !.spec = block]
    BY <2>1 DEF TypeOK, CRType
  <2>2. CASE cr.uid < MaxUid /\ cr' = [NoCR(cr.uid + 1) EXCEPT !.life = "live", !.spec = block]
    <3>1. cr.uid \in 0..MaxUid
      BY DEF TypeOK, CRType
    <3>2. cr.uid + 1 \in 0..MaxUid
      BY <2>2, <3>1, GCPBoundsAssumption
    <3>3. NoCR(cr.uid + 1) \in CRType
      BY <3>2, NoTypes
    <3> QED BY <2>2, <3>3 DEF CRType
  <2> QED BY <1>4, <2>1, <2>2 DEF UserSets
<1>5. cr' \in CRType
  BY <1>3, <1>4
<1> QED BY <1>1, <1>2, <1>5 DEF TypeOK, StageInv

\* Others and the collector touch the Secret alone.
LEMMA OthersKeep ==
  ASSUME GCPInv,
         \/ OthersDelete \/ Collect
         \/ \E owner \in {0, Foreign}, type \in {"Opaque", "tls"} : OthersCreate(owner, type)
  PROVE  GCPInv'
<1> USE DEF GCPInv
<1>1. /\ UNCHANGED <<cr, queue, cache, dep, pc, inst, creds, report, edits, faults>>
      /\ others' = others \/ (others < MaxOthers /\ others' = others + 1)
  BY DEF OthersDelete, OthersCreate, Collect, Other, worker, counters
<1>2. others' \in 0..MaxOthers
  BY <1>1, GCPBoundsAssumption DEF TypeOK
<1>3. \A owner \in {0, Foreign}, type \in {"Opaque", "tls"} :
        [state |-> "present", owner |-> owner, type |-> type,
         data |-> [cfg |-> "other", cloud |-> "public"]] \in SecretType
  BY GCPBoundsAssumption DEF SecretType, Credentials, Foreign
<1>4. secret' \in SecretType
  BY <1>3, NoTypes DEF OthersDelete, OthersCreate, Collect
<1> QED BY <1>1, <1>2, <1>4 DEF TypeOK, StageInv

LEMMA SyncKeeps ==
  ASSUME GCPInv, CacheSync \/ Resync \/ UNCHANGED vars
  PROVE  GCPInv'
BY DEF GCPInv, CacheSync, Resync, vars, worker, counters, TypeOK, StageInv

LEMMA NextKeeps == GCPInv /\ [Next]_vars => GCPInv'
<1> SUFFICES ASSUME GCPInv, [Next]_vars PROVE GCPInv'
  OBVIOUS
<1>1. CASE Reconcile
  BY <1>1, BeginKeeps, PlatformKeeps, EnsureKeeps, ApplyKeeps, DeleteKeeps,
     LaterStageKeeps, FinalizeSecretKeeps, FinalizeOperandsKeeps, EndKeeps DEF Reconcile
<1>2. CASE CacheSync \/ Resync \/ UNCHANGED vars
  BY <1>2, SyncKeeps
<1>3. CASE Restart
  BY <1>3, RestartKeeps
<1>4. CASE UserDeletes \/ (\E block \in Blocks : UserSets(block))
  BY <1>4, UserKeeps
<1>5. CASE \/ OthersDelete \/ Collect
           \/ \E owner \in {0, Foreign}, type \in {"Opaque", "tls"} : OthersCreate(owner, type)
  BY <1>5, OthersKeep
<1> QED BY <1>1, <1>2, <1>3, <1>4, <1>5 DEF Next

LEMMA GCPAlways == Spec => []GCPInv
BY InitKeeps, NextKeeps, PTL DEF Spec

-----------------------------------------------------------------------------
(* Theorems *)

\* Whatever configuration, cloud and owner meet, the Secret, the wiring of the
\* Deployment and the status entry stay well-formed: an entry of the status never
\* names a configuration that was rejected or that is somebody else's data.
THEOREM GCPTyped == Spec => []TypeOK
BY GCPAlways, PTL DEF GCPInv

\* A step that leaves a stage of the reconcile is the action of that stage, or a
\* restart.
LEMMA WhoLeaves ==
  ASSUME [Next]_vars, NEW stage \in {"delete", "ensure", "finalizeSecret"}, Leaves(stage)
  PROVE  \/ stage = "delete" /\ deleteGCPCredentialsSecret
         \/ stage = "ensure" /\ ensureGCPCredentialsSecret
         \/ stage = "finalizeSecret" /\ finalizeSecret
         \/ secret' = secret
<1> USE DEF Leaves
<1>1. CASE Reconcile
  <2>1. ~ (BeginGone \/ Begin \/ BeginFinalize)
    BY DEF BeginGone, Begin, BeginFinalize
  <2>2. ~ gcpPlatform /\ ~ ApplyDeployment /\ ~ LaterStageFails
    BY DEF gcpPlatform, ApplyDeployment, LaterStageFails
  <2>3. ~ ReportStatus /\ ~ finalizeOperands /\ ~ RemoveFinalizer
    BY DEF ReportStatus, finalizeOperands, RemoveFinalizer
  <2>4. ensureGCPCredentialsSecret => stage = "ensure"
    BY DEF ensureGCPCredentialsSecret
  <2>5. deleteGCPCredentialsSecret => stage = "delete"
    BY DEF deleteGCPCredentialsSecret
  <2>6. finalizeSecret => stage = "finalizeSecret"
    BY DEF finalizeSecret
  <2> QED BY <1>1, <2>1, <2>2, <2>3, <2>4, <2>5, <2>6 DEF Reconcile
<1>2. Restart => secret' = secret
  BY DEF Restart
<1>3. (CacheSync \/ Resync \/ UserDeletes \/ UNCHANGED vars) => pc' = pc
  BY DEF CacheSync, Resync, UserDeletes, vars, worker
<1>4. \A block : UserSets(block) => pc' = pc
  BY DEF UserSets, worker
<1>5. (OthersDelete \/ Collect) => pc' = pc
  BY DEF OthersDelete, Collect, worker
<1>6. \A owner, type : OthersCreate(owner, type) => pc' = pc
  BY DEF OthersCreate, worker
<1> QED BY <1>1, <1>2, <1>3, <1>4, <1>5, <1>6 DEF Next

\* installController applies the Deployment without the credentials before it
\* deletes the Secret, and nothing between the two steps wires it up again: the
\* running Deployment never loses a Secret it mounts to an installing reconcile.
THEOREM DeletedAfterUnmounting == Spec => DeletedOnlyWhenUnmounted
<1> DEFINE A == Leaves("delete") /\ secret' # secret => dep = NoCredentials
<1>1. GCPInv /\ [Next]_vars => [A]_vars
  BY DEF GCPInv, StageInv, Leaves
<1> QED BY <1>1, GCPAlways, PTL DEF Spec, DeletedOnlyWhenUnmounted

\* ensureGCPCredentialsSecret decides by a cached copy, and still never writes
\* over a Secret that is not the operator's: Create finds the name taken, and
\* Update carries the resourceVersion of the copy that was judged.
THEOREM ForeignKept == Spec => ForeignNeverOverwritten
<1> DEFINE A == Leaves("ensure") /\ NotOurs(secret, inst.uid) => secret' = secret
<1>1. [Next]_vars => A
  <2> SUFFICES ASSUME [Next]_vars, Leaves("ensure"), NotOurs(secret, inst.uid)
               PROVE  secret' = secret
    OBVIOUS
  <2>1. ensureGCPCredentialsSecret \/ secret' = secret
    BY WhoLeaves
  <2>2. secret.state = "present"
    BY DEF NotOurs
  <2> QED BY <2>1, <2>2, EnsureCases
<1> HIDE DEF A
<1>2. [Next]_vars => [A]_vars
  BY <1>1
<1>3. Spec => [][A]_vars
  BY <1>2, PTL DEF Spec
<1> QED BY <1>3 DEF ForeignNeverOverwritten, A
=============================================================================
