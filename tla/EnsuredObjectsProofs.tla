------------------------- MODULE EnsuredObjectsProofs -------------------------
(***************************************************************************)
(* Proofs about EnsuredObjects: what the operator, which decides by cached *)
(* copies, may do to objects that others write as well.                    *)
(***************************************************************************)
EXTENDS EnsuredObjects, TLAPS

\* A copy with the current resourceVersion is the object: what an accepted
\* Update was computed from is what it replaces.
FreshInv == \A o \in fresh : cache[o] = obj[o]

\* Nothing is left of an object that does not exist.
AbsentInv == \A o \in Objects : obj[o].exists \/ obj[o] = Absent

EnsuredInv == TypeOK /\ FreshInv /\ AbsentInv

\* The effect of a call on the objects: none, or it stores one that does not
\* take the place of somebody else's under the operator's control.
Writes(o) ==
    \/ UNCHANGED objects
    \/ \E new \in ObjType :
          /\ Store(o, new)
          /\ new.exists \/ new = Absent
          /\ obj[o].owner = "other" => new.owner # "us"

\* The rest of what a call does.
Proceeds == pc' \in PCs /\ queued' \in BOOLEAN /\ faults' \in 0..MaxFaults

-----------------------------------------------------------------------------
(* Calls *)

LEMMA FaultType ==
  ASSUME TypeOK, Fault \/ NoFault
  PROVE  faults' \in 0..MaxFaults
BY BoundsAssumption DEF TypeOK, Fault, NoFault

LEMMA AbsentType == Absent \in ObjType /\ Absent.owner = "none"
BY DEF Absent, ObjType, Contents

LEMMA DesiredType ==
  ASSUME TypeOK, NEW o \in Objects
  PROVE  Desired(o) \in Contents
BY DEF TypeOK, Desired, Contents

LEMMA NewType ==
  ASSUME TypeOK, NEW o \in Objects
  PROVE  New(o) \in ObjType /\ New(o).exists
<1>1. Desired(o) \in Contents
  BY DesiredType
<1> QED BY <1>1 DEF New, ObjType

LEMMA CallProceeds ==
  ASSUME TypeOK, NEW next \in PCs, Goto(next) \/ Error, Fault \/ NoFault
  PROVE  Proceeds
<1>1. pc' \in PCs /\ queued' \in BOOLEAN
  BY DEF Goto, Error, PCs, TypeOK
<1> QED BY <1>1, FaultType DEF Proceeds

\* An object that does not exist has no controller, so that Create takes none over.
LEMMA CreateWrites ==
  ASSUME EnsuredInv, NEW o \in Objects, NEW next \in PCs, Create(o, next)
  PROVE  Writes(o) /\ Proceeds
<1>1. Proceeds
  BY CallProceeds DEF EnsuredInv, Create, Refused, Fails
<1>2. CASE UNCHANGED objects
  BY <1>1, <1>2 DEF Writes
<1>3. CASE ~obj[o].exists /\ Store(o, New(o))
  <2>1. obj[o].owner # "other"
    BY <1>3, AbsentType DEF EnsuredInv, AbsentInv
  <2>2. New(o) \in ObjType /\ New(o).exists
    BY NewType DEF EnsuredInv
  <2> QED BY <1>1, <1>3, <2>1, <2>2 DEF Writes
<1> QED BY <1>2, <1>3 DEF Create, Refused, Fails

LEMMA DeleteWrites ==
  ASSUME EnsuredInv, NEW o \in Objects, NEW next \in PCs, Delete(o, next)
  PROVE  Writes(o) /\ Proceeds
<1>1. Proceeds
  BY CallProceeds DEF EnsuredInv, Delete, Refused, Fails
<1>2. UNCHANGED objects \/ Store(o, Absent)
  BY DEF Delete, Refused, Fails
<1>3. Writes(o)
  BY <1>2, AbsentType DEF Writes
<1> QED BY <1>1, <1>3

\* The copy UpdateExisting writes back: the same controller if there is another.
LEMMA UpdatedCopy ==
  ASSUME TypeOK, NEW o \in Objects, NEW c \in ObjType,
         NEW new, new = SetControllerReference([c EXCEPT !.content = Desired(o)])
  PROVE  /\ new \in ObjType /\ new.exists = c.exists
         /\ c.owner = "other" => new.owner = "other"
<1> DEFINE d == [c EXCEPT !.content = Desired(o)]
<1>1. Desired(o) \in Contents
  BY DesiredType
<1>2. d \in ObjType /\ d.exists = c.exists /\ d.owner = c.owner
  BY <1>1 DEF ObjType
<1>3. new = SetControllerReference(d)
  OBVIOUS
<1> HIDE DEF d
<1>4. CASE d.owner = "other"
  BY <1>2, <1>3, <1>4 DEF SetControllerReference
<1>5. CASE d.owner # "other"
  <2>1. new = [d EXCEPT !.owner = "us"]
    BY <1>3, <1>5 DEF SetControllerReference
  <2>2. new \in ObjType /\ new.exists = d.exists
    BY <1>2, <2>1 DEF ObjType
  <2> QED BY <1>2, <1>5, <2>2
<1> QED BY <1>4, <1>5

\* An Update that is accepted replaces the object it was computed from.
LEMMA UpdateExistingWrites ==
  ASSUME EnsuredInv, NEW o \in Objects, NEW next \in PCs, cache[o].exists,
         UpdateExisting(o, next)
  PROVE  Writes(o) /\ Proceeds
<1> DEFINE copy == cache[o]
<1>1. TypeOK /\ cache[o] \in ObjType
  BY DEF EnsuredInv, TypeOK
<1>2. PICK new : new = SetControllerReference([copy EXCEPT !.content = Desired(o)])
  OBVIOUS
<1>3. /\ new \in ObjType /\ new.exists = cache[o].exists
      /\ cache[o].owner = "other" => new.owner = "other"
  <2>1. copy \in ObjType
    BY <1>1
  <2> HIDE DEF copy
  <2>2. /\ new \in ObjType /\ new.exists = copy.exists
        /\ copy.owner = "other" => new.owner = "other"
    BY <1>2, <1>1, <2>1, UpdatedCopy
  <2> QED BY <2>2 DEF copy
<1>4. Update(o, new, next) \/ (Goto(next) /\ NoFault /\ UNCHANGED objects)
  BY <1>2 DEF UpdateExisting
<1>5. Proceeds
  BY <1>1, <1>4, CallProceeds DEF Update, Refused, Fails
<1>6. UNCHANGED objects \/ (o \in fresh /\ Store(o, new))
  BY <1>4 DEF Update, Refused, Fails
<1>7. o \in fresh => obj[o] = cache[o]
  BY DEF EnsuredInv, FreshInv
<1>8. obj[o] = cache[o] => (new.exists /\ (obj[o].owner = "other" => new.owner # "us"))
  BY <1>3
<1>9. Writes(o)
  BY <1>3, <1>6, <1>7, <1>8 DEF Writes
<1> QED BY <1>5, <1>9

LEMMA EnsureWrites ==
  ASSUME EnsuredInv, NEW o \in Objects, NEW next \in PCs, Ensure(o, next)
  PROVE  Writes(o) /\ Proceeds
BY CreateWrites, UpdateExistingWrites DEF Ensure

\* Every stage of a reconcile makes at most one write.
LEMMA ReconcileWrites ==
  ASSUME EnsuredInv, Reconcile
  PROVE  /\ \E o \in Objects : Writes(o)
         /\ Proceeds /\ UNCHANGED <<policy, label, inst, edits, others>>
<1>1. /\ {"cabundle", "audit", "role", "binding"} = Objects
      /\ {"audit", "stages", "monitoring", "binding", "idle", "recreate", "role"} \subseteq PCs
  BY DEF Objects, PCs
<1>2. TypeOK
  BY DEF EnsuredInv
<1>3. UNCHANGED objects => \A o \in Objects : Writes(o)
  BY DEF Writes
<1>4. CASE ensureOpenshiftCABundleConfigMap
  <2>1. CASE Ensure("cabundle", "audit")
    BY <1>1, <1>4, <2>1, EnsureWrites DEF ensureOpenshiftCABundleConfigMap
  <2>2. CASE Skip("audit")
    <3>1. Proceeds
      BY <1>1, <1>2, <2>2, CallProceeds DEF Skip
    <3> QED BY <1>1, <1>3, <1>4, <2>2, <3>1 DEF ensureOpenshiftCABundleConfigMap, Skip
  <2> QED BY <1>4, <2>1, <2>2 DEF ensureOpenshiftCABundleConfigMap
<1>5. CASE ensureMetricsServerAuditLogPolicyConfigMap
  <2>1. CASE Ensure("audit", "stages")
    BY <1>1, <1>5, <2>1, EnsureWrites DEF ensureMetricsServerAuditLogPolicyConfigMap
  <2>2. CASE (Goto("stages") /\ NoFault /\ UNCHANGED objects) \/ Refused
    <3>1. Proceeds
      BY <1>1, <1>2, <2>2, CallProceeds DEF Refused
    <3> QED BY <1>1, <1>3, <1>5, <2>2, <3>1
            DEF ensureMetricsServerAuditLogPolicyConfigMap, Refused
  <2> QED BY <1>5, <2>1, <2>2 DEF ensureMetricsServerAuditLogPolicyConfigMap
<1>6. CASE ensurePrometheusMonitoringRBAC
  <2>1. Proceeds
    BY <1>1, <1>2, <1>6, CallProceeds DEF ensurePrometheusMonitoringRBAC
  <2> QED BY <1>1, <1>3, <1>6, <2>1 DEF ensurePrometheusMonitoringRBAC
<1>7. CASE ensurePrometheusRole
  BY <1>1, <1>7, EnsureWrites DEF ensurePrometheusRole
<1>8. CASE ensurePrometheusRoleBinding
  <2>1. \/ Create("binding", "idle") \/ Delete("binding", "recreate")
        \/ cache["binding"].exists /\ UpdateExisting("binding", "idle")
    BY <1>8 DEF ensurePrometheusRoleBinding
  <2>2. Writes("binding") /\ Proceeds
    BY <1>1, <2>1, CreateWrites, DeleteWrites, UpdateExistingWrites
  <2> QED BY <1>1, <1>8, <2>2 DEF ensurePrometheusRoleBinding
<1>9. CASE recreatePrometheusRoleBinding
  BY <1>1, <1>9, CreateWrites DEF recreatePrometheusRoleBinding
<1>10. CASE installStagesBetween
  <2>1. Proceeds
    BY <1>1, <1>2, <1>10, CallProceeds DEF installStagesBetween, Refused, Fails
  <2> QED BY <1>1, <1>3, <1>10, <2>1 DEF installStagesBetween, Refused, Fails
<1> QED BY <1>4, <1>5, <1>6, <1>7, <1>8, <1>9, <1>10 DEF Reconcile

-----------------------------------------------------------------------------
(* Every action keeps the invariant *)

LEMMA StoreKeeps ==
  ASSUME EnsuredInv, NEW o \in Objects, NEW new \in ObjType, Store(o, new),
         new.exists \/ new = Absent
  PROVE  /\ obj' \in [Objects -> ObjType] /\ cache' \in [Objects -> ObjType]
         /\ fresh' \subseteq Objects /\ FreshInv' /\ AbsentInv'
         /\ obj'[o] = new /\ \A x \in Objects \ {o} : obj'[x] = obj[x]
<1> USE DEF EnsuredInv
<1>1. obj' \in [Objects -> ObjType] /\ cache' = cache /\ fresh' \subseteq fresh
  BY DEF Store, TypeOK
<1>2. obj'[o] = new /\ \A x \in Objects \ {o} : obj'[x] = obj[x]
  BY DEF Store, TypeOK
<1>3. o \in fresh' => obj'[o] = obj[o]
  BY <1>2 DEF Store
<1>4. FreshInv'
  BY <1>1, <1>2, <1>3 DEF FreshInv, TypeOK
<1>5. AbsentInv'
  BY <1>2 DEF AbsentInv
<1> QED BY <1>1, <1>2, <1>4, <1>5 DEF TypeOK

LEMMA WritesKeep ==
  ASSUME EnsuredInv, NEW o \in Objects, Writes(o)
  PROVE  /\ obj' \in [Objects -> ObjType] /\ cache' \in [Objects -> ObjType]
         /\ fresh' \subseteq Objects /\ FreshInv' /\ AbsentInv'
         /\ \A x \in Objects : obj[x].owner = "other" => obj'[x].owner # "us"
<1>1. CASE UNCHANGED objects
  BY <1>1 DEF objects, EnsuredInv, TypeOK, FreshInv, AbsentInv
<1>2. ASSUME NEW new \in ObjType, Store(o, new), new.exists \/ new = Absent,
             obj[o].owner = "other" => new.owner # "us"
      PROVE  /\ obj' \in [Objects -> ObjType] /\ cache' \in [Objects -> ObjType]
             /\ fresh' \subseteq Objects /\ FreshInv' /\ AbsentInv'
             /\ \A x \in Objects : obj[x].owner = "other" => obj'[x].owner # "us"
  BY <1>2, StoreKeeps
<1> QED BY <1>1, <1>2 DEF Writes

LEMMA InitKeeps == Init => EnsuredInv
<1> SUFFICES ASSUME Init PROVE EnsuredInv
  OBVIOUS
<1>1. TypeOK
  BY AbsentType, BoundsAssumption DEF Init, TypeOK, PCs
<1>2. FreshInv /\ AbsentInv
  BY DEF Init, FreshInv, AbsentInv
<1> QED BY <1>1, <1>2 DEF EnsuredInv

LEMMA ReconcileKeeps ==
  ASSUME EnsuredInv, Reconcile
  PROVE  EnsuredInv'
<1>1. PICK o \in Objects : Writes(o)
  BY ReconcileWrites
<1>2. /\ obj' \in [Objects -> ObjType] /\ cache' \in [Objects -> ObjType]
      /\ fresh' \subseteq Objects /\ FreshInv' /\ AbsentInv'
  BY <1>1, WritesKeep
<1>3. Proceeds /\ UNCHANGED <<policy, label, inst, edits, others>>
  BY ReconcileWrites
<1>4. TypeOK'
  BY <1>2, <1>3 DEF EnsuredInv, TypeOK, Proceeds
<1> QED BY <1>2, <1>4 DEF EnsuredInv

\* What others store is never under the operator's control.
LEMMA OtherWrites ==
  ASSUME EnsuredInv, NEW o \in Contested, NEW new \in OtherForms(o), Other(o, new)
  PROVE  o \in Objects /\ Writes(o)
<1>1. o \in Objects
  BY BoundsAssumption
<1>2. obj[o] \in ObjType
  BY <1>1 DEF EnsuredInv, TypeOK
<1>3. CASE new = Absent
  BY <1>1, <1>3, AbsentType DEF Other, Writes
<1>4. CASE new # Absent
  <2>1. /\ new.exists /\ new.owner \in {"none", "other"}
        /\ new \in ObjType
    BY <1>2, <1>4 DEF OtherForms, ObjType, Contents
  <2> QED BY <1>1, <2>1 DEF Other, Writes
<1> QED BY <1>3, <1>4

LEMMA OtherKeeps ==
  ASSUME EnsuredInv, NEW o \in Contested, NEW new \in OtherForms(o), Other(o, new)
  PROVE  EnsuredInv'
<1>1. o \in Objects /\ Writes(o)
  BY OtherWrites
<1>2. /\ obj' \in [Objects -> ObjType] /\ cache' \in [Objects -> ObjType]
      /\ fresh' \subseteq Objects /\ FreshInv' /\ AbsentInv'
  BY <1>1, WritesKeep
<1>3. /\ others < MaxOthers /\ others' = others + 1
      /\ UNCHANGED <<policy, label, queued, pc, inst, edits, faults>>
  BY DEF Other
<1>4. others' \in 0..MaxOthers
  BY <1>3, BoundsAssumption DEF EnsuredInv, TypeOK
<1>5. TypeOK'
  BY <1>2, <1>3, <1>4 DEF EnsuredInv, TypeOK
<1> QED BY <1>2, <1>5 DEF EnsuredInv

LEMMA UserKeeps ==
  ASSUME EnsuredInv, UserLabel \/ (\E p \in Policies \cup {"off"} : UserEdit(p))
  PROVE  EnsuredInv'
<1>1. /\ UNCHANGED objects /\ UNCHANGED <<pc, inst, others, faults>>
      /\ edits < MaxEdits /\ edits' = edits + 1
      /\ policy' \in Policies \cup {"off"} /\ label' \in BOOLEAN /\ queued' \in BOOLEAN
  BY DEF UserLabel, UserEdit, EnsuredInv, TypeOK
<1>2. edits' \in 0..MaxEdits
  BY <1>1, BoundsAssumption DEF EnsuredInv, TypeOK
<1> QED BY <1>1, <1>2 DEF EnsuredInv, TypeOK, objects, FreshInv, AbsentInv

LEMMA RestartKeeps ==
  ASSUME EnsuredInv, Restart
  PROVE  EnsuredInv'
<1>1. faults' \in 0..MaxFaults
  BY FaultType DEF EnsuredInv, Restart
<1> QED BY <1>1 DEF Restart, EnsuredInv, TypeOK, PCs, FreshInv, AbsentInv

LEMMA CacheSyncKeeps ==
  ASSUME EnsuredInv, NEW o \in Objects, CacheSync(o)
  PROVE  EnsuredInv'
BY DEF CacheSync, EnsuredInv, TypeOK, FreshInv, AbsentInv, bounds

LEMMA NextKeeps == EnsuredInv /\ [Next]_vars => EnsuredInv'
<1> SUFFICES ASSUME EnsuredInv, [Next]_vars PROVE EnsuredInv'
  OBVIOUS
<1>1. CASE Begin
  BY <1>1 DEF Begin, EnsuredInv, TypeOK, PCs, FreshInv, AbsentInv, objects, bounds
<1>2. CASE Reconcile
  BY <1>2, ReconcileKeeps
<1>3. CASE \E o \in Objects : CacheSync(o)
  BY <1>3, CacheSyncKeeps
<1>4. CASE Resync
  BY <1>4 DEF Resync, EnsuredInv, TypeOK, FreshInv, AbsentInv, objects, bounds
<1>5. CASE Restart
  BY <1>5, RestartKeeps
<1>6. CASE UserLabel \/ (\E p \in Policies \cup {"off"} : UserEdit(p))
  BY <1>6, UserKeeps
<1>7. CASE \E o \in Contested : \E new \in OtherForms(o) : Other(o, new)
  BY <1>7, OtherKeeps
<1>8. CASE UNCHANGED vars
  BY <1>8 DEF vars, EnsuredInv, TypeOK, FreshInv, AbsentInv, objects, bounds
<1> QED BY <1>1, <1>2, <1>3, <1>4, <1>5, <1>6, <1>7, <1>8 DEF Next

LEMMA EnsuredAlways == Spec => []EnsuredInv
BY InitKeeps, NextKeeps, PTL DEF Spec

-----------------------------------------------------------------------------
(* Theorems *)

\* The ensured objects and the reconcile that writes them keep their shape, for
\* any set of audit policies and of contested objects.
THEOREM EnsuredTyped == Spec => []TypeOK
BY EnsuredAlways, PTL DEF EnsuredInv

\* An object under somebody else's control stays there: SetControllerReference
\* leaves the reference of the copy alone, and the resourceVersion makes sure that
\* the copy is the object it is written over.
THEOREM ControllersKept == Spec => ControllerKept
<1> DEFINE A == \A o \in Objects : obj[o].owner = "other" => obj'[o].owner # "us"
<1>1. EnsuredInv /\ [Next]_vars => A
  <2> SUFFICES ASSUME EnsuredInv, [Next]_vars PROVE A
    OBVIOUS
  <2> HIDE DEF A
  <2>1. ASSUME \E o \in Objects : Writes(o) PROVE A
    BY <2>1, WritesKeep DEF A
  <2>2. CASE Reconcile
    BY <2>1, <2>2, ReconcileWrites
  <2>3. CASE \E o \in Contested : \E new \in OtherForms(o) : Other(o, new)
    BY <2>1, <2>3, OtherWrites
  <2>4. (Begin \/ Resync \/ Restart \/ UserLabel \/ UNCHANGED vars) => obj' = obj
    BY DEF Begin, Resync, Restart, UserLabel, vars, objects
  <2>5. \A o \in Objects : CacheSync(o) => obj' = obj
    BY DEF CacheSync
  <2>6. \A p : UserEdit(p) => obj' = obj
    BY DEF UserEdit, objects
  <2>7. obj' = obj => A
    BY DEF A
  <2> QED BY <2>2, <2>3, <2>4, <2>5, <2>6, <2>7 DEF Next
<1> HIDE DEF A
<1>2. EnsuredInv /\ [Next]_vars => [A]_vars
  BY <1>1
<1>3. Spec => [][A]_vars
  BY <1>2, EnsuredAlways, PTL DEF Spec
<1> QED BY <1>3 DEF ControllerKept, A

\* A RoleBinding that grants Prometheus the right Role is deleted by nobody but
\* others, or by an operator whose cache still holds the drifted one it replaced.
THEOREM WorkingBindingsKept == Spec => WorkingBindingKept
<1> DEFINE A == pc = "binding" /\ obj["binding"].exists /\ obj["binding"].roleRef = "right"
                  /\ ~obj'["binding"].exists
                => "binding" \notin fresh \/ others' # others
<1>1. EnsuredInv /\ [Next]_vars => A
  <2> SUFFICES ASSUME EnsuredInv, [Next]_vars, pc = "binding", obj["binding"].exists,
                      obj["binding"].roleRef = "right", ~obj'["binding"].exists,
                      "binding" \in fresh, others' = others
               PROVE  FALSE
    OBVIOUS
  <2>1. obj' # obj
    OBVIOUS
  <2>2. (Begin \/ Resync \/ Restart \/ UserLabel \/ UNCHANGED vars) => obj' = obj
    BY DEF Begin, Resync, Restart, UserLabel, vars, objects
  <2>3. \A o \in Objects : CacheSync(o) => obj' = obj
    BY DEF CacheSync
  <2>4. \A p : UserEdit(p) => obj' = obj
    BY DEF UserEdit, objects
  <2>5. \A o, new : Other(o, new) => others' # others
    BY DEF Other, EnsuredInv, TypeOK
  <2>6. Reconcile
    BY <2>1, <2>2, <2>3, <2>4, <2>5 DEF Next
  <2>7. ensurePrometheusRoleBinding
    BY <2>6 DEF Reconcile, ensureOpenshiftCABundleConfigMap, ensurePrometheusRole,
       ensureMetricsServerAuditLogPolicyConfigMap, installStagesBetween,
       ensurePrometheusMonitoringRBAC,
       recreatePrometheusRoleBinding
  <2>8. "binding" \in Objects /\ cache["binding"] = obj["binding"] /\ TypeOK
    BY DEF Objects, EnsuredInv, FreshInv
  <2>9. UpdateExisting("binding", "idle")
    BY <2>7, <2>8 DEF ensurePrometheusRoleBinding, Drifted
  <2> DEFINE new == SetControllerReference([cache["binding"] EXCEPT !.content = Desired("binding")])
  <2>10. cache["binding"] \in ObjType
    BY <2>8 DEF TypeOK
  <2>11. new \in ObjType /\ new.exists
    BY <2>8, <2>10, UpdatedCopy
  <2>12. Update("binding", new, "idle") \/ UNCHANGED objects
    BY <2>9 DEF UpdateExisting
  <2> HIDE DEF new
  <2>13. UNCHANGED objects \/ Store("binding", new)
    BY <2>12 DEF Update, Refused, Fails
  <2>14. CASE UNCHANGED objects
    BY <2>1, <2>14 DEF objects
  <2>15. CASE Store("binding", new)
    BY <2>8, <2>11, <2>15, StoreKeeps
  <2> QED BY <2>13, <2>14, <2>15
<1> HIDE DEF A
<1>2. EnsuredInv /\ [Next]_vars => [A]_vars
  BY <1>1
<1>3. Spec => [][A]_vars
  BY <1>2, EnsuredAlways, PTL DEF Spec
<1> QED BY <1>3 DEF WorkingBindingKept, A
=============================================================================
