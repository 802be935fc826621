------------------------------ MODULE CheckSums ------------------------------
(***************************************************************************)
(* Three controllers that write the status of one KedaController: the      *)
(* reconcilers of the ConfigMap and of the Secret keda-metrics-apiserver,  *)
(* which record a checksum of their data (configmap_controller.go,         *)
(* secret_controller.go), and the KedaController reconciler, which records *)
(* the outcome of an install and copies the rest of the status around it.  *)
(* Each has a worker of its own, reads from caches that lag behind the API *)
(* server, and writes with UpdateKedaControllerStatus.                     *)
(*                                                                         *)
(* The data of an object is abstracted to a version that grows with every  *)
(* rotation: certificates do not come back.  A checksum is taken over the  *)
(* entries of a Go map in iteration order, so that it is a version and one *)
(* of the orders its entries can come in.                                  *)
(***************************************************************************)
EXTENDS Naturals

CONSTANTS
    Orders,       \* Kinds -> number of orders the entries can come in
    MaxWrites,    \* bound: Kinds -> writes of the object
    MaxInstalls,  \* bound: reconciles of the KedaController
    MaxFaults     \* bound: failing calls and restarts

Kinds == {"configmap", "secret"}
Workers == Kinds \cup {"kedacontroller"}

ASSUME OrdersAssumption == Orders \in [Kinds -> Nat \ {0}]
ASSUME CheckSumBoundsAssumption ==
    MaxWrites \in [Kinds -> Nat] /\ MaxInstalls \in Nat /\ MaxFaults \in Nat

VARIABLES
    cr,         \* the KedaController at the API server
    crCache,    \* the KedaController in the manager's cache
    object,     \* Kinds -> the object at the API server
    objCache,   \* Kinds -> the object in the manager's cache
    queue,      \* kinds with a pending request
    pc,         \* Workers -> what the worker does next
    inst,       \* Workers -> the copy of the KedaController it works on
    new,        \* Workers -> the status it will write
    installs, faults

vars == <<cr, crCache, object, objCache, queue, pc, inst, new, installs, faults>>

Sums == [version : Nat, order : Nat]
NoSum == [version |-> 0, order |-> 0]
StatusType == [phase : {"", "Succeeded", "Failed"}, sums : [Kinds -> Sums]]
NoStatus == [phase |-> "", sums |-> [k \in Kinds |-> NoSum]]
CRType == [life : {"never", "live", "gone"}, status : StatusType]

\* version: of the data; writes: resourceVersion, 0 when the object is absent.
ObjectType == [version : Nat, writes : Nat]

TypeOK ==
    /\ cr \in CRType /\ crCache \in CRType
    /\ object \in [Kinds -> ObjectType] /\ objCache \in [Kinds -> ObjectType]
    /\ queue \subseteq Kinds
    /\ pc \in [Workers -> {"idle", "patch"}]
    /\ inst \in [Workers -> CRType]
    /\ new \in [Workers -> StatusType]
    /\ installs \in 0..MaxInstalls /\ faults \in 0..MaxFaults

NoCR == [life |-> "never", status |-> NoStatus]
NoObject == [version |-> 0, writes |-> 0]

Init ==
    /\ cr = NoCR /\ crCache = NoCR
    /\ object = [k \in Kinds |-> NoObject] /\ objCache = object
    /\ queue = {}
    /\ pc = [w \in Workers |-> "idle"]
    /\ inst = [w \in Workers |-> NoCR]
    /\ new = [w \in Workers |-> NoStatus]
    /\ installs = 0 /\ faults = 0

-----------------------------------------------------------------------------
Fault == faults < MaxFaults /\ faults' = faults + 1

\* What CalculateConfigMapDataCheckSum or CalculateSecretedDataCheckSum may
\* return for the object.
CheckSum(k, o) == {[version |-> o.version, order |-> i] : i \in 1..Orders[k]}

Overwritten(s, base, to) == to

\* UpdateKedaControllerStatus sends the fields in which the new status differs
\* from the copy it was derived from; the API server leaves the others alone.
Merged(s, base, to) ==
    [phase |-> IF to.phase # base.phase THEN to.phase ELSE s.phase,
     sums  |-> [k \in Kinds |-> IF to.sums[k] # base.sums[k] THEN to.sums[k]
                                ELSE s.sums[k]]]

FinishMisplaced(w) ==
    /\ pc' = [pc EXCEPT ![w] = "idle"]
    /\ inst' = [inst EXCEPT ![w] = NoCR]
    /\ new' = [new EXCEPT ![w] = NoCR]

Finish(w) ==
    /\ pc' = [pc EXCEPT ![w] = "idle"]
    /\ inst' = [inst EXCEPT ![w] = NoCR]
    /\ new' = [new EXCEPT ![w] = NoStatus]

\* The patch arrives, or it is refused because the KedaController is gone, or
\* it fails; an error puts the request back.
UpdateKedaControllerStatus(w) ==
    /\ pc[w] = "patch"
    /\ Finish(w)
    /\ \/ /\ cr.life = "live"
          /\ cr' = [cr EXCEPT !.status = Merged(@, inst[w].status, new[w])]
          /\ UNCHANGED <<queue, faults>>
       \/ /\ \/ cr.life # "live" /\ UNCHANGED faults
             \/ Fault
          /\ queue' = queue \cup ({w} \cap Kinds)
          /\ UNCHANGED cr
    /\ UNCHANGED <<crCache, object, objCache, installs>>

\* The ConfigMap or Secret reconciler reads its object and the KedaController,
\* and goes on to write the checksum unless it is the recorded one.
ReconcileObject(k) ==
    /\ pc[k] = "idle" /\ k \in queue
    /\ queue' = queue \ {k}
    /\ \E sum \in CheckSum(k, objCache[k]) :
         IF \/ objCache[k].writes = 0
            \/ crCache.life # "live"
            \/ crCache.status.sums[k] = sum
         THEN UNCHANGED <<pc, inst, new>>
         ELSE /\ pc' = [pc EXCEPT ![k] = "patch"]
              /\ inst' = [inst EXCEPT ![k] = crCache]
              /\ new' = [new EXCEPT ![k] = [crCache.status EXCEPT !.sums[k] = sum]]
    /\ UNCHANGED <<cr, crCache, object, objCache, installs, faults>>

\* The KedaController reconciler copies the status it read and sets the outcome.
ReconcileKedaController(outcome) ==
    /\ pc["kedacontroller"] = "idle" /\ installs < MaxInstalls
    /\ crCache.life = "live"
    /\ pc' = [pc EXCEPT !["kedacontroller"] = "patch"]
    /\ inst' = [inst EXCEPT !["kedacontroller"] = crCache]
    /\ new' = [new EXCEPT !["kedacontroller"] = [crCache.status EXCEPT !.phase = outcome]]
    /\ installs' = installs + 1
    /\ UNCHANGED <<cr, crCache, object, objCache, queue, faults>>

-----------------------------------------------------------------------------
(* The surroundings *)

ObjectSyncCreateOnly(k) ==
    /\ objCache[k] # object[k]
    /\ objCache' = [objCache EXCEPT ![k] = object[k]]
    /\ queue' = IF objCache[k].writes = 0 THEN queue \cup {k} ELSE queue
    /\ UNCHANGED <<cr, crCache, object, pc, inst, new, installs, faults>>

\* The predicate of the two controllers lets creations and updates with another
\* resourceVersion through; an update need not change the data.
ObjectSync(k) ==
    /\ objCache[k] # object[k]
    /\ objCache' = [objCache EXCEPT ![k] = object[k]]
    /\ queue' = queue \cup {k}
    /\ UNCHANGED <<cr, crCache, object, pc, inst, new, installs, faults>>

CRSync ==
    /\ crCache # cr
    /\ crCache' = cr
    /\ UNCHANGED <<cr, object, objCache, queue, pc, inst, new, installs, faults>>

\* Somebody writes the object: another version of the data, or only metadata.
WriteObject(k, bump) ==
    /\ object[k].writes < MaxWrites[k]
    /\ object' = [object EXCEPT ![k] = [version |-> @.version + bump, writes |-> @.writes + 1]]
    /\ UNCHANGED <<cr, crCache, objCache, queue, pc, inst, new, installs, faults>>

CreateKedaController ==
    /\ cr.life = "never"
    /\ cr' = [cr EXCEPT !.life = "live"]
    /\ UNCHANGED <<crCache, object, objCache, queue, pc, inst, new, installs, faults>>

DeleteKedaController ==
    /\ cr.life = "live"
    /\ cr' = [life |-> "gone", status |-> NoStatus]
    /\ UNCHANGED <<crCache, object, objCache, queue, pc, inst, new, installs, faults>>

\* The operator restarts: the caches are listed afresh and every object found
\* is delivered as a creation.
Restart ==
    /\ Fault
    /\ crCache' = cr /\ objCache' = object
    /\ queue' = {k \in Kinds : object[k].writes > 0}
    /\ pc' = [w \in Workers |-> "idle"]
    /\ inst' = [w \in Workers |-> NoCR]
    /\ new' = [w \in Workers |-> NoStatus]
    /\ UNCHANGED <<cr, object, installs>>

-----------------------------------------------------------------------------
Next ==
    \/ \E k \in Kinds : ReconcileObject(k) \/ ObjectSync(k)
    \/ \E w \in Workers : UpdateKedaControllerStatus(w)
    \/ \E outcome \in {"Succeeded", "Failed"} : ReconcileKedaController(outcome)
    \/ \E k \in Kinds, bump \in {0, 1} : WriteObject(k, bump)
    \/ CRSync \/ CreateKedaController \/ DeleteKedaController \/ Restart

Spec == Init /\ [][Next]_vars

\* The informers and the workers keep running.
FairSpec ==
    /\ Spec
    /\ \A k \in Kinds : WF_vars(ReconcileObject(k)) /\ WF_vars(ObjectSync(k))
    /\ \A w \in Workers : WF_vars(UpdateKedaControllerStatus(w))
    /\ WF_vars(CRSync)

-----------------------------------------------------------------------------
(* Properties *)

\* The checksum on record is never replaced by that of older data, although the
\* KedaController reconciler writes back a status it copied before an install
\* that takes long, and every controller starts from a stale copy
\* (UpdateKedaControllerStatus).
SumNeverGoesBack ==
    [][ cr.life = "live" /\ cr'.life = "live" =>
          \A k \in Kinds : cr.status.sums[k].version <= cr'.status.sums[k].version ]_vars

\* The outcome of an install is reported by the KedaController reconciler alone:
\* a checksum that arrives later does not bring an earlier outcome back.
OutcomeKept ==
    [][ cr.life = "live" /\ cr'.life = "live" /\ cr'.status.phase # cr.status.phase
          => /\ pc["kedacontroller"] = "patch"
             /\ cr'.status.phase = new["kedacontroller"].phase ]_vars

\* Once the objects are left alone, the checksum of a KedaController that has
\* one is that of the current data.
SumsConverge ==
    \A k \in Kinds :
       <>[](cr.life = "live" /\ cr.status.sums[k] # NoSum
              => cr.status.sums[k].version = object[k].version)
=============================================================================
