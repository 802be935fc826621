------------------------- MODULE KedaReconcilerProofs -------------------------
(***************************************************************************)
(* Proofs about KedaReconciler, for every set of names, specs and operands *)
(* and for every bound on users' edits and on faults.                      *)
(***************************************************************************)
EXTENDS KedaReconciler, TLAPS

FinalizePCs == {"delAddon", "delGeneral", "delController", "delMetrics",
                "removeFinalizer"}

Held(c) == c.life # "absent" /\ Fin \in c.finalizers
LiveAndHeld(c) == c.life = "live" /\ Fin \in c.finalizers

\* What the worker may rely on although it reads from a stale cache: nobody
\* but itself removes the finalizer, so a copy that had it is still protected.
WorkerInv ==
    /\ pc \in InstallPCs =>
          /\ req = Keda
          /\ Held(cr[Keda]) /\ cr[Keda].uid = inst.uid
    /\ pc \in FinalizePCs =>
          req = Keda /\ ~LiveAndHeld(cache[Keda]) /\ ~LiveAndHeld(cr[Keda])
    /\ pc = "addFinalizer" =>
          /\ req = Keda
          /\ Fin \in cache[Keda].finalizers => Fin \in cr[Keda].finalizers
    /\ pc = "ignore" => req # Keda

\* How far the cached copy can be behind the API server.
CacheInv ==
    /\ LiveAndHeld(cache[Keda]) =>
          Held(cr[Keda]) /\ cr[Keda].uid = cache[Keda].uid
    /\ cache[Keda].life = "deleting" /\ Fin \in cache[Keda].finalizers =>
          ~LiveAndHeld(cr[Keda])

NonePresent(g) == \A o \in Operands(g) : ~Present(o)

\* What the finalizer has deleted so far.
FinalizeInv ==
    /\ pc \in FinalizePCs \ {"delAddon"} => NonePresent("addon")
    /\ pc \in {"delController", "delMetrics", "removeFinalizer"} =>
          NonePresent("general")
    /\ pc \in {"delMetrics", "removeFinalizer"} => NonePresent("controller")
    /\ pc = "removeFinalizer" => NonePresent("metrics")

\* A resource that is gone holds no finalizer.
AbsentInv == cr[Keda].life = "absent" => cr[Keda].finalizers = {}

\* The inductive invariant behind FinalizerProtects.
ProtectInv ==
    /\ TypeOK /\ AbsentInv /\ WorkerInv /\ CacheInv /\ FinalizeInv
    /\ FinalizerProtects

\* What everyone but the finalizer code may do to the resource.
Harmless(c, d) ==
    /\ Held(c) => Held(d) /\ d.uid = c.uid
    /\ LiveAndHeld(d) => LiveAndHeld(c)
    /\ d.life = "absent" => d.finalizers = {}

\* Operands are only removed.
Shrinks == \A o \in Objects : obj'[o] = obj[o] \/ obj'[o].state # "present"

-----------------------------------------------------------------------------
(* Types of the building blocks *)

\* The values the records of the model range over.
LEMMA GoneType == ASSUME NEW u \in 0..MaxUid PROVE Gone(u) \in CRType
BY SpecsAssumption DEF Gone, CRType, Phases, AddonPhases

LEMMA GoneFields ==
  ASSUME NEW u
  PROVE  Gone(u).uid = u /\ Gone(u).life = "absent" /\ Gone(u).finalizers = {}
BY DEF Gone

LEMMA SettleType == ASSUME NEW c \in CRType PROVE Settle(c) \in CRType
<1>1. c.uid \in 0..MaxUid
  BY DEF CRType
<1> QED BY <1>1, GoneType DEF Settle

LEMMA SetFinalizersType ==
  ASSUME NEW c \in CRType, NEW new, new \subseteq {Fin, Foreground}
  PROVE  SetFinalizers(c, new) \in CRType
<1>1. [c EXCEPT !.finalizers = new] \in CRType
  BY DEF CRType
<1> QED BY <1>1, SettleType DEF SetFinalizers

LEMMA MarkDeletedType ==
  ASSUME NEW c \in CRType, NEW extra \in {{}, {Foreground}}
  PROVE  MarkDeleted(c, extra) \in CRType
BY DEF MarkDeleted, CRType

LEMMA CreatedType ==
  ASSUME NEW u \in 0..MaxUid, NEW s \in Specs PROVE Created(u, s) \in CRType
<1>1. Gone(u) \in CRType
  BY GoneType
<1> QED BY <1>1 DEF Created, CRType

LEMMA StatusOfType == ASSUME NEW c \in CRType PROVE StatusOf(c) \in StatusType
BY DEF StatusOf, CRType, StatusType

LEMMA NoObjType == NoObj \in ObjType
BY SpecsAssumption, BoundsAssumption DEF NoObj, ObjType

LEMMA RemovedFields == Removed.state = "removed" /\ Removed \in ObjType
BY SpecsAssumption, BoundsAssumption DEF Removed, NoObj, ObjType

LEMMA RenderedType ==
  ASSUME TypeOK, NEW o \in Objects PROVE Rendered(o) \in ObjType
BY BoundsAssumption DEF TypeOK, CRType, Rendered, ObjType

LEMMA StatusPatchType ==
  ASSUME TypeOK, NEW c \in CRType, NEW new \in StatusType
  PROVE  StatusPatch(c, new) \in CRType
BY DEF StatusPatch, CRType, StatusType

\* The return of a reconcile.
LEMMA ReturnType ==
  ASSUME TypeOK, NEW pending, pending \subseteq Names, Return(pending)
  PROVE  /\ queue' \subseteq Names
         /\ pc' \in PCs /\ req' \in Names /\ inst' \in CRType
         /\ status' \in StatusType
<1>1. Gone(0) \in CRType
  BY GoneType, BoundsAssumption
<1>2. StatusOf(Gone(0)) \in StatusType
  BY <1>1, StatusOfType
<1> QED BY <1>1, <1>2, NamesAssumption DEF Return, PCs

LEMMA DoneType ==
  ASSUME TypeOK, Done \/ Requeue
  PROVE  /\ queue' \subseteq Names
         /\ pc' \in PCs /\ req' \in Names /\ inst' \in CRType
         /\ status' \in StatusType
<1>1. queue \subseteq Names /\ queue \cup {req} \subseteq Names
  BY DEF TypeOK
<1> QED BY <1>1, ReturnType DEF Done, Requeue

LEMMA FaultType ==
  ASSUME TypeOK, Fault \/ NoFault PROVE faults' \in 0..MaxFaults
BY BoundsAssumption DEF TypeOK, Fault, NoFault

LEMMA WriteType ==
  ASSUME TypeOK, NEW new \in [Objects -> ObjType], Write(new)
  PROVE  obj' \in [Objects -> ObjType] /\ queue' \subseteq Names
BY NamesAssumption DEF TypeOK, Write

LEMMA ApplyType ==
  ASSUME TypeOK, NEW g, NEW k, Apply(g, k)
  PROVE  obj' \in [Objects -> ObjType] /\ queue' \subseteq Names
<1> DEFINE new == [o \in Objects |->
             IF o \in FirstOf(g, k) \ Unwanted(inst.spec) THEN Rendered(o)
             ELSE obj[o]]
<1>1. new \in [Objects -> ObjType]
  BY RenderedType DEF TypeOK
<1>2. Write(new)
  BY DEF Apply
<1> HIDE DEF new
<1> QED BY <1>1, <1>2, WriteType

LEMMA DeleteType ==
  ASSUME TypeOK, NEW g, NEW k
  PROVE  [o \in Objects |-> IF o \in AfterOf(g, k) THEN NoObj ELSE obj[o]]
           \in [Objects -> ObjType]
BY NoObjType DEF TypeOK

\* A stage hands over to the next one, or to the failure report.
LEMMA MoveType ==
  ASSUME TypeOK, NEW next \in PCs, NEW a \in AddonPhases,
         Goto(next) \/ MarkInstallFailed(a)
  PROVE  /\ pc' \in PCs /\ req' \in Names /\ inst' \in CRType
         /\ status' \in StatusType
<1>1. CASE Goto(next)
  BY <1>1 DEF TypeOK, Goto
<1>2. CASE MarkInstallFailed(a)
  <2>1. [phase |-> "Failed", addon |-> a] \in StatusType
    BY DEF StatusType, Phases
  <2> QED BY <1>2, <2>1 DEF TypeOK, MarkInstallFailed, PCs
<1> QED BY <1>1, <1>2

LEMMA InstallStageType ==
  ASSUME TypeOK, NEW g, NEW next \in PCs, InstallStage(g, next),
         UNCHANGED <<cr, cache, edits>>
  PROVE  TypeOK'
<1>1. status.addon \in AddonPhases
  BY DEF TypeOK, StatusType
<1>2. obj' \in [Objects -> ObjType] /\ queue' \subseteq Names
  BY ApplyType DEF InstallStage
<1>3. /\ pc' \in PCs /\ req' \in Names /\ inst' \in CRType
      /\ status' \in StatusType
  BY <1>1, MoveType DEF InstallStage
<1>4. faults' \in 0..MaxFaults
  BY FaultType DEF InstallStage
<1> QED BY <1>2, <1>3, <1>4 DEF TypeOK

LEMMA FinalizeStageType ==
  ASSUME TypeOK, NEW g, NEW next \in PCs, FinalizeStage(g, next),
         UNCHANGED <<cr, cache, edits>>
  PROVE  TypeOK'
<1> DEFINE new(k) == [o \in Objects |-> IF o \in AfterOf(g, k) THEN NoObj ELSE obj[o]]
<1>1. \A k : new(k) \in [Objects -> ObjType]
  BY DeleteType
<1>2. faults' \in 0..MaxFaults
  BY FaultType DEF FinalizeStage
<1>3. CASE Delete(g, 0) /\ Goto(next)
  <2>1. Write(new(0))
    BY <1>3 DEF Delete
  <2>2. obj' \in [Objects -> ObjType] /\ queue' \subseteq Names
    <3> HIDE DEF new
    <3> QED BY <1>1, <2>1, WriteType
  <2> QED BY <1>2, <1>3, <2>2 DEF TypeOK, Goto
<1>4. CASE \E k \in 0..Len(Manifest[g]) : obj' = new(k) /\ Requeue
  <2>1. obj' \in [Objects -> ObjType]
    BY <1>1, <1>4
  <2>2. Requeue
    BY <1>4
  <2> QED BY <1>2, <2>1, <2>2, DoneType DEF TypeOK
<1> QED BY <1>3, <1>4 DEF FinalizeStage

LEMMA FinalizerPatchType ==
  ASSUME TypeOK, NEW new, new \subseteq {Fin, Foreground}, FinalizerPatch(new),
         UNCHANGED <<cache, obj, edits>>
  PROVE  TypeOK'
<1>1. cr' \in [Names -> CRType]
  <2>1. CASE UNCHANGED cr
    BY <2>1 DEF TypeOK
  <2>2. CASE cr' = [cr EXCEPT ![req] = SetFinalizers(@, new)]
    BY <2>2, SetFinalizersType DEF TypeOK
  <2> QED BY <2>1, <2>2 DEF FinalizerPatch
<1>2. (Done \/ Requeue) /\ (Fault \/ NoFault)
  BY DEF FinalizerPatch
<1> QED BY <1>1, <1>2, DoneType, FaultType DEF TypeOK

\* The three places where Reconcile writes the status.
LEMMA StatusWriteType ==
  ASSUME TypeOK, NEW new \in StatusType,
         \/ cr' = [cr EXCEPT ![req] = StatusPatch(@, new)]
         \/ UNCHANGED cr
  PROVE  cr' \in [Names -> CRType]
<1>1. StatusPatch(cr[req], new) \in CRType
  BY StatusPatchType DEF TypeOK
<1> QED BY <1>1 DEF TypeOK

-----------------------------------------------------------------------------
(* Type correctness *)

LEMMA InitType == Init => TypeOK
<1> SUFFICES ASSUME Init PROVE TypeOK
  OBVIOUS
<1>1. Gone(0) \in CRType
  BY GoneType, BoundsAssumption
<1>2. StatusOf(Gone(0)) \in StatusType
  BY <1>1, StatusOfType
<1>3. "idle" \in PCs
  BY DEF PCs
<1> QED
  BY <1>1, <1>2, <1>3, NoObjType, NamesAssumption, BoundsAssumption DEF Init, TypeOK

LEMMA BeginType == ASSUME TypeOK, NEW n \in Names, Begin(n) PROVE TypeOK'
<1>1. cache[n] \in CRType /\ StatusOf(cache[n]) \in StatusType
  BY StatusOfType DEF TypeOK
<1>2. CASE UNCHANGED worker
  BY <1>2 DEF TypeOK, Begin, worker
<1>3. CASE /\ pc' = Dispatch(n, cache[n]) /\ req' = n /\ inst' = cache[n]
           /\ status' = IF Dispatch(n, cache[n]) = "fail"
                         THEN [StatusOf(cache[n]) EXCEPT !.phase = "Failed"]
                         ELSE StatusOf(cache[n])
  <2>1. [StatusOf(cache[n]) EXCEPT !.phase = "Failed"] \in StatusType
    BY <1>1 DEF StatusType, Phases
  <2>2. Dispatch(n, cache[n]) \in PCs
    BY <1>1 DEF Dispatch, PCs, CRType
  <2> QED BY <1>1, <1>3, <2>1, <2>2 DEF TypeOK, Begin
<1> QED BY <1>2, <1>3 DEF Begin

LEMMA StatusReportType ==
  ASSUME TypeOK, MarkIgnored \/ MarkInstallSucceeded \/ ReportFailure
  PROVE  TypeOK'
<1>1. /\ [status EXCEPT !.phase = "Ignored"] \in StatusType
      /\ [status EXCEPT !.phase = "Succeeded"] \in StatusType
      /\ status \in StatusType
  BY DEF TypeOK, StatusType, Phases
<1>2. (Done \/ Requeue) /\ (Fault \/ NoFault) /\ UNCHANGED <<cache, obj, edits>>
  BY DEF MarkIgnored, MarkInstallSucceeded, ReportFailure, PatchFails
<1>3. cr' \in [Names -> CRType]
  <2>1. CASE MarkIgnored
    BY <1>1, <2>1, StatusWriteType DEF MarkIgnored
  <2>2. CASE MarkInstallSucceeded
    BY <1>1, <2>2, StatusWriteType DEF MarkInstallSucceeded
  <2>3. CASE ReportFailure
    BY <1>1, <2>3, StatusWriteType DEF ReportFailure
  <2> QED BY <2>1, <2>2, <2>3
<1> QED BY <1>2, <1>3, DoneType, FaultType DEF TypeOK

LEMMA GeneralType == ASSUME TypeOK, installGeneralResources PROVE TypeOK'
<1> DEFINE deleted(o) == IF o \in Unwanted(inst.spec) THEN NoObj ELSE obj[o]
           upTo(k) == [o \in Objects |->
                         IF o \in FirstOf("general", k) \ Unwanted(inst.spec)
                         THEN Rendered(o) ELSE deleted(o)]
<1>1. \A k : upTo(k) \in [Objects -> ObjType]
  BY RenderedType, NoObjType DEF TypeOK
<1>2. obj \in [Objects -> ObjType]
  BY DEF TypeOK
<1>3. Write(obj) \/ \E k : Write(upTo(k))
  BY DEF installGeneralResources
<1>4. obj' \in [Objects -> ObjType] /\ queue' \subseteq Names
  <2> HIDE DEF upTo
  <2> QED BY <1>1, <1>2, <1>3, WriteType
<1>5. status.addon \in AddonPhases /\ "controller" \in PCs
  BY DEF TypeOK, StatusType, PCs
<1>6. /\ Goto("controller") \/ MarkInstallFailed(status.addon)
      /\ Fault \/ NoFault
      /\ UNCHANGED <<cr, cache, edits>>
  BY DEF installGeneralResources
<1>7. /\ pc' \in PCs /\ req' \in Names /\ inst' \in CRType
      /\ status' \in StatusType
  BY <1>5, <1>6, MoveType
<1> QED BY <1>4, <1>6, <1>7, FaultType DEF TypeOK

LEMMA SkipType ==
  ASSUME TypeOK, NEW next \in PCs, Goto(next), Fault \/ NoFault,
         UNCHANGED <<obj, queue>>, UNCHANGED <<cr, cache, edits>>
  PROVE  TypeOK'
BY FaultType DEF TypeOK, Goto

LEMMA AddonType == ASSUME TypeOK, installHTTPAddon PROVE TypeOK'
<1>1. /\ status.addon \in AddonPhases /\ "Failed" \in AddonPhases
      /\ "prometheus" \in PCs
  BY DEF TypeOK, StatusType, PCs, AddonPhases
<1>2. /\ [status EXCEPT !.addon = "nil"] \in StatusType
      /\ [status EXCEPT !.addon = "Succeeded"] \in StatusType
  BY DEF TypeOK, StatusType, AddonPhases
<1>3. UNCHANGED <<cr, cache, edits>> /\ (Fault \/ NoFault)
  BY DEF installHTTPAddon, disableHTTPAddon, enableHTTPAddon
<1>4. CASE Goto("prometheus") /\ UNCHANGED <<obj, queue>>
  BY <1>1, <1>3, <1>4, SkipType
<1>5. CASE \E k : Apply("addon", k) \/ Delete("addon", k)
  <2>1. PICK k : Apply("addon", k) \/ Delete("addon", k)
    BY <1>5
  <2>2. obj' \in [Objects -> ObjType] /\ queue' \subseteq Names
    <3>1. CASE Apply("addon", k)
      BY <3>1, ApplyType
    <3>2. CASE Delete("addon", k)
      <4> DEFINE new == [o \in Objects |-> IF o \in AfterOf("addon", k) THEN NoObj ELSE obj[o]]
      <4>1. new \in [Objects -> ObjType] /\ Write(new)
        BY <3>2, DeleteType DEF Delete
      <4> HIDE DEF new
      <4> QED BY <4>1, WriteType
    <3> QED BY <2>1, <3>1, <3>2
  <2>3. \/ \E a \in AddonPhases : Goto("prometheus") \/ MarkInstallFailed(a)
        \/ /\ pc' = "prometheus"
           /\ status' \in {[status EXCEPT !.addon = "nil"],
                           [status EXCEPT !.addon = "Succeeded"]}
           /\ UNCHANGED <<req, inst>>
    BY <1>1 DEF installHTTPAddon, disableHTTPAddon, enableHTTPAddon
  <2>4. /\ pc' \in PCs /\ req' \in Names /\ inst' \in CRType
        /\ status' \in StatusType
    <3>1. CASE \E a \in AddonPhases : Goto("prometheus") \/ MarkInstallFailed(a)
      BY <1>1, <3>1, MoveType
    <3>2. CASE /\ pc' = "prometheus"
               /\ status' \in {[status EXCEPT !.addon = "nil"],
                               [status EXCEPT !.addon = "Succeeded"]}
               /\ UNCHANGED <<req, inst>>
      BY <1>1, <1>2, <3>2 DEF TypeOK
    <3> QED BY <2>3, <3>1, <3>2
  <2> QED BY <1>3, <2>2, <2>4, FaultType DEF TypeOK
<1> QED BY <1>4, <1>5 DEF installHTTPAddon, disableHTTPAddon, enableHTTPAddon

\* Everything that happens outside the worker.
LEMMA SurroundingsType ==
  ASSUME TypeOK,
         \/ \E n \in Names : CacheSync(n)
         \/ Restart \/ User \/ Collector
         \/ \E o \in Objects : OutsideDelete(o)
  PROVE  TypeOK'
<1>1. CASE \E n \in Names : CacheSync(n)
  BY <1>1 DEF CacheSync, worker, TypeOK
<1>2. CASE Restart
  <2>1. {n \in Names : cr[n].life # "absent"} \subseteq Names
    OBVIOUS
  <2>2. Return({n \in Names : cr[n].life # "absent"})
    BY <1>2 DEF Restart
  <2>3. Fault /\ cache' = cr /\ UNCHANGED <<cr, obj, edits>>
    BY <1>2 DEF Restart
  <2> QED BY <2>1, <2>2, <2>3, ReturnType, FaultType DEF TypeOK
<1>3. CASE User
  <2>1. edits' \in 0..MaxEdits
    <3>1. Edit
      BY <1>3 DEF User, UserCreate, UserEdit, UserDelete
    <3> QED BY <3>1, BoundsAssumption DEF Edit, TypeOK
  <2>2. cr' \in [Names -> CRType]
    <3>1. ASSUME NEW n \in Names, NEW s \in Specs, UserCreate(n, s)
          PROVE  cr' \in [Names -> CRType]
      <4>1. cr[n] \in CRType /\ cr[n].uid + 1 \in 0..MaxUid
        BY <3>1, BoundsAssumption DEF UserCreate, TypeOK, CRType
      <4> QED BY <3>1, <4>1, CreatedType DEF UserCreate, TypeOK
    <3>2. ASSUME NEW n \in Names, NEW s \in Specs, UserEdit(n, s)
          PROVE  cr' \in [Names -> CRType]
      <4>1. [cr[n] EXCEPT !.spec = s] \in CRType
        BY DEF TypeOK, CRType
      <4> QED BY <3>2, <4>1 DEF UserEdit, TypeOK
    <3>3. ASSUME NEW n \in Names, NEW extra \in {{}, {Foreground}}, UserDelete(n, extra)
          PROVE  cr' \in [Names -> CRType]
      <4>1. Settle(MarkDeleted(cr[n], extra)) \in CRType
        BY MarkDeletedType, SettleType DEF TypeOK
      <4> QED BY <3>3, <4>1 DEF UserDelete, TypeOK
    <3> QED BY <1>3, <3>1, <3>2, <3>3 DEF User
  <2> QED BY <1>3, <2>1, <2>2
          DEF User, UserCreate, UserEdit, UserDelete, worker, TypeOK
<1>4. CASE Collector
  <2>1. ASSUME NEW o \in Objects, Collect(o) PROVE TypeOK'
    <3>1. [obj EXCEPT ![o] = NoObj] \in [Objects -> ObjType]
      BY NoObjType DEF TypeOK
    <3>2. obj' \in [Objects -> ObjType] /\ queue' \subseteq Names
      BY <2>1, <3>1, WriteType DEF Collect
    <3> QED BY <2>1, <3>2 DEF Collect, worker, TypeOK
  <2>2. ASSUME NEW n \in Names, ForegroundDone(n) PROVE TypeOK'
    <3>1. cr[n].finalizers \ {Foreground} \subseteq {Fin, Foreground}
      BY DEF TypeOK, CRType
    <3>2. SetFinalizers(cr[n], cr[n].finalizers \ {Foreground}) \in CRType
      BY <3>1, SetFinalizersType DEF TypeOK
    <3>3. cr' \in [Names -> CRType]
      BY <2>2, <3>2 DEF ForegroundDone, TypeOK
    <3> QED BY <2>2, <3>3 DEF ForegroundDone, worker, TypeOK
  <2> QED BY <1>4, <2>1, <2>2 DEF Collector
<1>5. ASSUME NEW o \in Objects, OutsideDelete(o) PROVE TypeOK'
  <2> DEFINE gone == IF o \in Deployments \cap Owned THEN NoObj ELSE Removed
  <2>1. [obj EXCEPT ![o] = gone] \in [Objects -> ObjType]
    BY NoObjType, RemovedFields DEF TypeOK
  <2>2. obj' \in [Objects -> ObjType] /\ queue' \subseteq Names
    BY <1>5, <2>1, WriteType DEF OutsideDelete
  <2> QED BY <1>5, <2>2, FaultType DEF OutsideDelete, worker, TypeOK
<1> QED BY <1>1, <1>2, <1>3, <1>4, <1>5

LEMMA StepType == TypeOK /\ [Next]_vars => TypeOK'
<1> SUFFICES ASSUME TypeOK, [Next]_vars PROVE TypeOK'
  OBVIOUS
<1> USE DEF PCs
<1>1. CASE UNCHANGED vars \/ \E n \in Names : BeginFails(n)
  BY <1>1, FaultType DEF vars, worker, TypeOK, BeginFails
<1>2. ASSUME NEW n \in Names, Begin(n) PROVE TypeOK'
  BY <1>2, BeginType
<1>3. CASE MarkIgnored \/ MarkInstallSucceeded \/ ReportFailure
  BY <1>3, StatusReportType
<1>4. CASE addFinalizer
  <2>1. inst.finalizers \cup {Fin} \subseteq {Fin, Foreground}
    BY DEF TypeOK, CRType
  <2> QED BY <1>4, <2>1, FinalizerPatchType DEF addFinalizer
<1>5. CASE installGeneralResources
  BY <1>5, GeneralType
<1>6. CASE installController
  BY <1>6, InstallStageType DEF installController
<1>7. CASE installMetricsServer
  BY <1>7, InstallStageType DEF installMetricsServer
<1>8. CASE installAdmissionWebhooks
  BY <1>8, InstallStageType DEF installAdmissionWebhooks
<1>9. CASE installMonitoring
  BY <1>9, InstallStageType, SkipType DEF installMonitoring
<1>10. CASE installHTTPAddon
  BY <1>10, AddonType
<1>11. CASE ensurePrometheusMonitoringRBAC
  BY <1>11, InstallStageType, SkipType DEF ensurePrometheusMonitoringRBAC
<1>12. CASE deleteHTTPAddon
  BY <1>12, FinalizeStageType DEF deleteHTTPAddon
<1>13. CASE deleteGeneral
  BY <1>13, FinalizeStageType DEF deleteGeneral
<1>14. CASE deleteController
  BY <1>14, FinalizeStageType DEF deleteController
<1>15. CASE deleteMetrics
  BY <1>15, FinalizeStageType DEF deleteMetrics
<1>16. CASE RemoveFinalizer
  <2>1. inst.finalizers \ {Fin} \subseteq {Fin, Foreground}
    BY DEF TypeOK, CRType
  <2> QED BY <1>16, <2>1, FinalizerPatchType DEF RemoveFinalizer
<1>17. CASE \/ \E n \in Names : CacheSync(n)
            \/ Restart \/ User \/ Collector
            \/ \E o \in Objects : OutsideDelete(o)
  BY <1>17, SurroundingsType
<1> QED
  BY <1>1, <1>2, <1>3, <1>4, <1>5, <1>6, <1>7, <1>8, <1>9, <1>10, <1>11, <1>12,
     <1>13, <1>14, <1>15, <1>16, <1>17
  DEF Next, Reconcile, Install, Finalize

\* Whatever users do and whatever fails, the resources, the operands and the
\* worker's state keep the shapes Reconcile relies on.
THEOREM TypeCorrect == Spec => []TypeOK
BY InitType, StepType, PTL DEF Spec

-----------------------------------------------------------------------------
(* The finalizer protects the operands *)

LEMMA OperandsInObjects == \A g \in Group : Operands(g) \subseteq Objects
<1> SUFFICES ASSUME NEW g \in Group, NEW i \in 1..Len(Manifest[g])
             PROVE  Manifest[g][i] \in Objects
  BY DEF Operands
<1>1. Manifest[g] \in Seq(Objects)
  BY ManifestAssumption
<1> QED BY <1>1

LEMMA AfterOfZero == \A g \in Group : AfterOf(g, 0) = Operands(g)
BY DEF AfterOf, Operands

LEMMA FinalizedGroupsAreGroups == FinalizedGroups \subseteq Group
BY DEF FinalizedGroups, Group

\* What removes operands only, leaves absent what was absent.
LEMMA ShrinksKeeps ==
  ASSUME Shrinks, NEW g \in Group PROVE NonePresent(g) => NonePresent(g)'
BY OperandsInObjects DEF Shrinks, NonePresent, Present

LEMMA DeleteShrinks ==
  ASSUME TypeOK, NEW g \in Group, NEW k,
         obj' = [o \in Objects |-> IF o \in AfterOf(g, k) THEN NoObj ELSE obj[o]]
  PROVE  Shrinks /\ (k = 0 => NonePresent(g)')
<1>1. NoObj.state = "absent"
  BY DEF NoObj
<1>2. \A o \in Objects : obj'[o] = IF o \in AfterOf(g, k) THEN NoObj ELSE obj[o]
  OBVIOUS
<1>3. Shrinks
  BY <1>1, <1>2 DEF Shrinks
<1>4. ASSUME k = 0 PROVE NonePresent(g)'
  BY <1>1, <1>2, <1>4, AfterOfZero, OperandsInObjects DEF NonePresent, Present
<1> QED BY <1>3, <1>4

LEMMA RemoveOneShrinks ==
  ASSUME TypeOK, NEW o \in Objects, Collect(o) \/ OutsideDelete(o)
  PROVE  Shrinks
<1>1. NoObj.state = "absent" /\ Removed.state = "removed"
  BY RemovedFields DEF NoObj
<1>2. obj' = [obj EXCEPT ![o] = NoObj] \/ obj' = [obj EXCEPT ![o] = Removed]
  BY DEF Collect, OutsideDelete, Write
<1> QED BY <1>1, <1>2 DEF Shrinks, TypeOK

LEMMA HarmlessSame ==
  ASSUME NEW c \in CRType, NEW d \in CRType, c.life = "absent" => c.finalizers = {},
         d.uid = c.uid, d.life = c.life, d.finalizers = c.finalizers
  PROVE  Harmless(c, d)
BY DEF Harmless, Held, LiveAndHeld

LEMMA HarmlessStatus ==
  ASSUME TypeOK, NEW c \in CRType, c.life = "absent" => c.finalizers = {},
         NEW new \in StatusType
  PROVE  Harmless(c, StatusPatch(c, new))
<1>1. StatusPatch(c, new) \in CRType
  BY StatusPatchType
<1>2. /\ StatusPatch(c, new).uid = c.uid
      /\ StatusPatch(c, new).life = c.life
      /\ StatusPatch(c, new).finalizers = c.finalizers
  BY DEF StatusPatch, CRType
<1> QED BY <1>1, <1>2, HarmlessSame

\* The two outcomes of a finalizer patch the API server accepts.
LEMMA SetFinalizersCases ==
  ASSUME NEW c \in CRType, NEW new, new \subseteq {Fin, Foreground}
  PROVE  LET d == SetFinalizers(c, new) IN
         /\ d.uid = c.uid /\ d.finalizers = new
         /\ \/ d.life = c.life
            \/ d.life = "absent" /\ c.life = "deleting" /\ new = {}
<1> DEFINE e == [c EXCEPT !.finalizers = new]
<1>1. e.uid = c.uid /\ e.life = c.life /\ e.finalizers = new
  BY DEF CRType
<1>2. SetFinalizers(c, new) = Settle(e)
  BY DEF SetFinalizers
<1> HIDE DEF e
<1>3. CASE e.life = "deleting" /\ e.finalizers = {}
  <2>1. SetFinalizers(c, new) = Gone(e.uid)
    BY <1>2, <1>3 DEF Settle
  <2> QED BY <1>1, <1>3, <2>1, GoneFields
<1>4. CASE ~(e.life = "deleting" /\ e.finalizers = {})
  BY <1>1, <1>2, <1>4 DEF Settle
<1> QED BY <1>3, <1>4

LEMMA HarmlessForeground ==
  ASSUME NEW c \in CRType, c.life = "deleting"
  PROVE  Harmless(c, SetFinalizers(c, c.finalizers \ {Foreground}))
<1>1. c.finalizers \ {Foreground} \subseteq {Fin, Foreground}
  BY DEF CRType
<1>2. Fin # Foreground
  BY DEF Fin, Foreground
<1> DEFINE d == SetFinalizers(c, c.finalizers \ {Foreground})
<1>3. /\ d.uid = c.uid /\ d.finalizers = c.finalizers \ {Foreground}
      /\ \/ d.life = c.life
         \/ d.life = "absent" /\ c.finalizers \ {Foreground} = {}
  BY <1>1, SetFinalizersCases
<1> HIDE DEF d
<1>4. Harmless(c, d)
  BY <1>2, <1>3 DEF Harmless, Held, LiveAndHeld
<1> QED BY <1>4 DEF d

LEMMA HarmlessDelete ==
  ASSUME NEW c \in CRType, NEW extra \in {{}, {Foreground}}
  PROVE  Harmless(c, Settle(MarkDeleted(c, extra)))
<1> DEFINE e == MarkDeleted(c, extra)
<1>1. e.uid = c.uid /\ e.life = "deleting" /\ e.finalizers = c.finalizers \cup extra
  BY DEF MarkDeleted, CRType
<1> HIDE DEF e
<1>2. CASE e.finalizers = {}
  <2>1. Settle(e) = Gone(e.uid)
    BY <1>1, <1>2 DEF Settle
  <2>2. Fin \notin c.finalizers
    BY <1>1, <1>2
  <2>3. Settle(e).life = "absent" /\ Settle(e).finalizers = {}
    BY <2>1, GoneFields
  <2>4. Harmless(c, Settle(e))
    BY <2>2, <2>3 DEF Harmless, Held, LiveAndHeld
  <2> QED BY <2>4 DEF e
<1>3. CASE e.finalizers # {}
  <2>1. Settle(e) = e
    BY <1>1, <1>3 DEF Settle
  <2>2. Harmless(c, e)
    BY <1>1 DEF Harmless, Held, LiveAndHeld
  <2> QED BY <2>1, <2>2 DEF e
<1> QED BY <1>2, <1>3

LEMMA HarmlessCreate ==
  ASSUME NEW c \in CRType, c.life = "absent", NEW u \in 0..MaxUid, NEW s \in Specs
  PROVE  Harmless(c, Created(u, s))
<1>1. Created(u, s).finalizers = {} /\ Created(u, s).life = "live"
  BY DEF Created, Gone
<1> QED BY <1>1 DEF Harmless, Held, LiveAndHeld

LEMMA HarmlessEdit ==
  ASSUME NEW c \in CRType, c.life # "absent", NEW s \in Specs
  PROVE  Harmless(c, [c EXCEPT !.spec = s])
BY DEF Harmless, Held, LiveAndHeld, CRType

\* A harmless change of the resource with the worker and the operands as they
\* were keeps the invariant.
LEMMA HarmlessKeeps ==
  ASSUME ProtectInv, Harmless(cr[Keda], cr'[Keda]), UNCHANGED <<cache, obj>>,
         UNCHANGED worker \/ pc' = "idle"
  PROVE  AbsentInv' /\ WorkerInv' /\ CacheInv' /\ FinalizeInv' /\ FinalizerProtects'
<1>1. AbsentInv'
  BY DEF Harmless, AbsentInv
<1>2. Fin \in cr[Keda].finalizers => Held(cr[Keda])
  BY DEF ProtectInv, AbsentInv, Held
<1>3. WorkerInv'
  BY <1>2 DEF ProtectInv, WorkerInv, Harmless, worker, InstallPCs, FinalizePCs, Held
<1>4. CacheInv'
  BY DEF ProtectInv, CacheInv, Harmless
<1>5. FinalizeInv'
  BY DEF ProtectInv, FinalizeInv, NonePresent, Present, worker, FinalizePCs
<1>6. FinalizerProtects'
  BY DEF ProtectInv, FinalizerProtects, Harmless, Held, Present
<1> QED BY <1>1, <1>3, <1>4, <1>5, <1>6

\* An install stage leaves the resource alone, and the resource has the
\* finalizer whatever the stage writes.
LEMMA InstallKeeps ==
  ASSUME ProtectInv, pc \in InstallPCs, pc' \in InstallPCs,
         UNCHANGED <<cr, cache, req, inst>>
  PROVE  AbsentInv' /\ WorkerInv' /\ CacheInv' /\ FinalizeInv' /\ FinalizerProtects'
<1>1. AbsentInv' /\ CacheInv'
  BY DEF ProtectInv, AbsentInv, CacheInv
<1>2. Held(cr[Keda])
  BY DEF ProtectInv, WorkerInv
<1>3. WorkerInv'
  BY DEF ProtectInv, WorkerInv, InstallPCs, FinalizePCs
<1>4. FinalizeInv'
  BY DEF FinalizeInv, InstallPCs, FinalizePCs
<1>5. FinalizerProtects'
  BY <1>2 DEF FinalizerProtects, Held
<1> QED BY <1>1, <1>3, <1>4, <1>5

LEMMA GotoKeeps ==
  ASSUME ProtectInv, pc \in InstallPCs, UNCHANGED <<cr, cache>>,
         NEW next \in InstallPCs, NEW a, Goto(next) \/ MarkInstallFailed(a)
  PROVE  AbsentInv' /\ WorkerInv' /\ CacheInv' /\ FinalizeInv' /\ FinalizerProtects'
<1>1. pc' \in InstallPCs /\ UNCHANGED <<req, inst>>
  BY DEF Goto, MarkInstallFailed, InstallPCs
<1> QED BY <1>1, InstallKeeps

\* Operands go away and nothing else happens.
LEMMA ShrinkKeeps ==
  ASSUME ProtectInv, Shrinks, UNCHANGED <<cr, cache>>,
         UNCHANGED worker \/ pc' = "idle"
  PROVE  AbsentInv' /\ WorkerInv' /\ CacheInv' /\ FinalizeInv' /\ FinalizerProtects'
<1>1. AbsentInv' /\ CacheInv'
  BY DEF ProtectInv, AbsentInv, CacheInv
<1>2. WorkerInv'
  BY DEF ProtectInv, WorkerInv, worker, InstallPCs, FinalizePCs
<1>3. \A g \in FinalizedGroups : NonePresent(g) => NonePresent(g)'
  BY ShrinksKeeps, FinalizedGroupsAreGroups
<1>4. FinalizeInv'
  BY <1>3 DEF ProtectInv, FinalizeInv, worker, FinalizePCs, FinalizedGroups
<1>5. FinalizerProtects'
  BY OperandsInObjects, FinalizedGroupsAreGroups
     DEF ProtectInv, FinalizerProtects, Shrinks, Present
<1> QED BY <1>1, <1>2, <1>4, <1>5

\* A stage of the finalizer: the operands of its manifest are gone, or it is
\* tried again from the start.
LEMMA FinalizeKeeps ==
  ASSUME ProtectInv, NEW g \in FinalizedGroups, NEW next \in FinalizePCs,
         pc \in FinalizePCs, FinalizeStage(g, next), UNCHANGED <<cr, cache>>,
         \/ pc = "delAddon" /\ g = "addon" /\ next = "delGeneral"
         \/ pc = "delGeneral" /\ g = "general" /\ next = "delController"
         \/ pc = "delController" /\ g = "controller" /\ next = "delMetrics"
         \/ pc = "delMetrics" /\ g = "metrics" /\ next = "removeFinalizer"
  PROVE  AbsentInv' /\ WorkerInv' /\ CacheInv' /\ FinalizeInv' /\ FinalizerProtects'
<1>0. g \in Group /\ TypeOK
  BY FinalizedGroupsAreGroups DEF ProtectInv
<1>1. CASE Requeue /\ \E k \in 0..Len(Manifest[g]) :
          obj' = [o \in Objects |-> IF o \in AfterOf(g, k) THEN NoObj ELSE obj[o]]
  <2>1. Shrinks
    BY <1>0, <1>1, DeleteShrinks
  <2>2. pc' = "idle"
    BY <1>1 DEF Requeue, Return
  <2> QED BY <2>1, <2>2, ShrinkKeeps
<1>2. CASE Delete(g, 0) /\ Goto(next)
  <2>1. obj' = [o \in Objects |-> IF o \in AfterOf(g, 0) THEN NoObj ELSE obj[o]]
    BY <1>2 DEF Delete, Write
  <2>2. Shrinks /\ NonePresent(g)'
    BY <1>0, <2>1, DeleteShrinks
  <2>3. AbsentInv' /\ CacheInv'
    BY DEF ProtectInv, AbsentInv, CacheInv
  <2>4. WorkerInv'
    BY <1>2 DEF ProtectInv, WorkerInv, Goto, InstallPCs, FinalizePCs
  <2>5. \A h \in FinalizedGroups : NonePresent(h) => NonePresent(h)'
    BY <2>2, ShrinksKeeps, FinalizedGroupsAreGroups
  <2>6. FinalizeInv'
    BY <1>2, <2>2, <2>5
       DEF ProtectInv, FinalizeInv, Goto, FinalizePCs, FinalizedGroups
  <2>7. FinalizerProtects'
    BY <2>2, OperandsInObjects, FinalizedGroupsAreGroups
       DEF ProtectInv, FinalizerProtects, Shrinks, Present
  <2> QED BY <2>3, <2>4, <2>6, <2>7
<1> QED BY <1>1, <1>2 DEF FinalizeStage

\* The worker starts from a stale copy, and CacheInv bounds how stale.
LEMMA BeginKeeps ==
  ASSUME ProtectInv, NEW n \in Names, Begin(n)
  PROVE  AbsentInv' /\ WorkerInv' /\ CacheInv' /\ FinalizeInv' /\ FinalizerProtects'
<1>1. AbsentInv' /\ CacheInv' /\ FinalizerProtects'
  BY DEF ProtectInv, AbsentInv, CacheInv, FinalizerProtects, Present, Begin
<1>2. CASE UNCHANGED worker
  <2>1. WorkerInv'
    BY <1>2 DEF ProtectInv, WorkerInv, worker, Begin
  <2>2. FinalizeInv'
    BY <1>2 DEF ProtectInv, FinalizeInv, worker, Begin, NonePresent, Present
  <2> QED BY <1>1, <2>1, <2>2
<1>3. CASE pc' = Dispatch(n, cache[n]) /\ req' = n /\ inst' = cache[n]
  <2> DEFINE c == cache[n]
  <2>0. c.life \in {"absent", "live", "deleting"}
    BY DEF ProtectInv, TypeOK, CRType
  <2>1. pc' \in {"idle", "ignore", "addFinalizer", "delAddon", "fail", "general"}
    BY <1>3, <2>0 DEF Dispatch
  <2>2. FinalizeInv'
    BY <2>1 DEF FinalizeInv, FinalizePCs
  <2>3. pc' = "ignore" => n # Keda
    BY <1>3, <2>0 DEF Dispatch, isInteresting
  <2>4. pc' \in {"fail", "general"} => n = Keda /\ LiveAndHeld(c)
    BY <1>3, <2>0 DEF Dispatch, isInteresting, LiveAndHeld
  <2>5. pc' = "delAddon" => n = Keda /\ c.life = "deleting" /\ Fin \in c.finalizers
    BY <1>3, <2>0 DEF Dispatch, isInteresting
  <2>6. pc' = "addFinalizer" => n = Keda /\ Fin \notin c.finalizers
    BY <1>3, <2>0 DEF Dispatch, isInteresting
  <2>7. UNCHANGED <<cr, cache>>
    BY DEF Begin
  <2>8. CacheInv
    BY DEF ProtectInv
  <2>9. WorkerInv'
    BY <1>3, <2>1, <2>3, <2>4, <2>5, <2>6, <2>7, <2>8
       DEF WorkerInv, CacheInv, InstallPCs, FinalizePCs, LiveAndHeld
  <2> QED BY <1>1, <2>2, <2>9
<1> QED BY <1>2, <1>3 DEF Begin

\* Adding the finalizer: the patch is refused on a resource that is being
\* deleted without it.
LEMMA AddFinalizerKeeps ==
  ASSUME ProtectInv, addFinalizer
  PROVE  AbsentInv' /\ WorkerInv' /\ CacheInv' /\ FinalizeInv' /\ FinalizerProtects'
<1> DEFINE new == inst.finalizers \cup {Fin}
<1>1. /\ req = Keda /\ UNCHANGED <<cache, obj>>
      /\ cr[Keda] \in CRType /\ new \subseteq {Fin, Foreground}
  BY NamesAssumption DEF ProtectInv, WorkerInv, addFinalizer, TypeOK, CRType
<1>2. pc' = "idle"
  BY DEF addFinalizer, FinalizerPatch, Done, Requeue, Return
<1>3. CASE UNCHANGED cr
  <2>1. Harmless(cr[Keda], cr'[Keda])
    BY <1>1, <1>3, HarmlessSame DEF ProtectInv, AbsentInv
  <2> QED BY <1>1, <1>2, <2>1, HarmlessKeeps
<1>4. CASE /\ cr' = [cr EXCEPT ![req] = SetFinalizers(@, new)]
           /\ \/ cr[req].life = "live"
              \/ cr[req].life = "deleting" /\ new \subseteq cr[req].finalizers
  <2> DEFINE d == SetFinalizers(cr[Keda], new)
  <2>1. cr'[Keda] = d
    BY <1>1, <1>4, NamesAssumption DEF ProtectInv, TypeOK
  <2>2. Fin \in new
    OBVIOUS
  <2>3. /\ d.uid = cr[Keda].uid /\ d.finalizers = new /\ d.life = cr[Keda].life
    BY <1>1, <2>2, SetFinalizersCases
  <2> HIDE DEF new, d
  <2>4. Held(cr'[Keda]) /\ AbsentInv'
    BY <1>1, <1>4, <2>1, <2>2, <2>3 DEF Held, AbsentInv
  <2>5. CacheInv'
    <3>1. pc = "addFinalizer"
      BY DEF addFinalizer
    <3>2. Fin \in cache[Keda].finalizers => Fin \in cr[Keda].finalizers
      BY <3>1 DEF ProtectInv, WorkerInv
    <3> QED BY <1>1, <2>1, <2>3, <2>4, <3>2 DEF ProtectInv, CacheInv, LiveAndHeld
  <2>6. WorkerInv' /\ FinalizeInv'
    BY <1>2 DEF WorkerInv, FinalizeInv, InstallPCs, FinalizePCs
  <2>7. FinalizerProtects'
    BY <2>4 DEF FinalizerProtects, Held
  <2> QED BY <2>4, <2>5, <2>6, <2>7
<1> QED BY <1>3, <1>4 DEF addFinalizer, FinalizerPatch

\* Letting go of the resource: nothing is left to protect, and no copy with
\* the finalizer remains from which an install could start.
LEMMA RemoveFinalizerKeeps ==
  ASSUME ProtectInv, RemoveFinalizer
  PROVE  AbsentInv' /\ WorkerInv' /\ CacheInv' /\ FinalizeInv' /\ FinalizerProtects'
<1> DEFINE new == inst.finalizers \ {Fin}
<1>0. pc = "removeFinalizer"
  BY DEF RemoveFinalizer
<1>1. /\ req = Keda /\ UNCHANGED <<cache, obj>>
      /\ cr[Keda] \in CRType /\ new \subseteq {Fin, Foreground}
      /\ ~LiveAndHeld(cache[Keda])
  BY <1>0, NamesAssumption
     DEF ProtectInv, WorkerInv, RemoveFinalizer, TypeOK, CRType, FinalizePCs
<1>2. pc' = "idle"
  BY DEF RemoveFinalizer, FinalizerPatch, Done, Requeue, Return
<1>3. CASE UNCHANGED cr
  <2>1. Harmless(cr[Keda], cr'[Keda])
    BY <1>1, <1>3, HarmlessSame DEF ProtectInv, AbsentInv
  <2> QED BY <1>1, <1>2, <2>1, HarmlessKeeps
<1>4. CASE /\ cr' = [cr EXCEPT ![req] = SetFinalizers(@, new)]
           /\ cr[req].life \in {"live", "deleting"}
  <2> DEFINE d == SetFinalizers(cr[Keda], new)
  <2>1. cr'[Keda] = d
    BY <1>1, <1>4, NamesAssumption DEF ProtectInv, TypeOK
  <2>2. Fin \notin new
    OBVIOUS
  <2>3. /\ d.finalizers = new
        /\ d.life = cr[Keda].life \/ (d.life = "absent" /\ new = {})
    BY <1>1, SetFinalizersCases
  <2> HIDE DEF new, d
  <2>4. AbsentInv' /\ ~LiveAndHeld(cr'[Keda])
    BY <1>1, <1>4, <2>1, <2>2, <2>3 DEF AbsentInv, LiveAndHeld
  <2>5. CacheInv'
    BY <1>1, <2>4 DEF CacheInv
  <2>6. WorkerInv' /\ FinalizeInv'
    BY <1>2 DEF WorkerInv, FinalizeInv, InstallPCs, FinalizePCs
  <2>7. \A g \in FinalizedGroups : NonePresent(g)
    BY <1>0 DEF ProtectInv, FinalizeInv, FinalizedGroups, FinalizePCs
  <2>8. FinalizerProtects'
    BY <1>1, <2>7 DEF FinalizerProtects, NonePresent, Present
  <2> QED BY <2>4, <2>5, <2>6, <2>8
<1> QED BY <1>3, <1>4 DEF RemoveFinalizer, FinalizerPatch

\* Status reports are harmless to the resource they are about.
LEMMA StatusReportKeeps ==
  ASSUME ProtectInv, MarkIgnored \/ MarkInstallSucceeded \/ ReportFailure
  PROVE  AbsentInv' /\ WorkerInv' /\ CacheInv' /\ FinalizeInv' /\ FinalizerProtects'
<1>1. /\ [status EXCEPT !.phase = "Ignored"] \in StatusType
      /\ [status EXCEPT !.phase = "Succeeded"] \in StatusType
      /\ status \in StatusType
  BY DEF ProtectInv, TypeOK, StatusType, Phases
<1>2. pc' = "idle" /\ UNCHANGED <<cache, obj>>
  BY DEF MarkIgnored, MarkInstallSucceeded, ReportFailure, PatchFails, Done, Requeue, Return
<1>3. \/ UNCHANGED cr
      \/ \E new \in StatusType : cr' = [cr EXCEPT ![req] = StatusPatch(@, new)]
  BY <1>1 DEF MarkIgnored, MarkInstallSucceeded, ReportFailure
<1>4. /\ TypeOK /\ cr[Keda] \in CRType
      /\ cr[Keda].life = "absent" => cr[Keda].finalizers = {}
  BY NamesAssumption DEF ProtectInv, AbsentInv, TypeOK
<1>5. cr'[Keda] = cr[Keda] \/ \E new \in StatusType : cr'[Keda] = StatusPatch(cr[Keda], new)
  BY <1>3, NamesAssumption DEF ProtectInv, TypeOK
<1>6. Harmless(cr[Keda], cr'[Keda])
  BY <1>4, <1>5, HarmlessSame, HarmlessStatus
<1> QED BY <1>2, <1>6, HarmlessKeeps

\* The informer, a restart, users, the garbage collector.
LEMMA SurroundingsKeep ==
  ASSUME ProtectInv,
         \/ \E n \in Names : CacheSync(n)
         \/ Restart \/ User \/ Collector
         \/ \E o \in Objects : OutsideDelete(o)
  PROVE  AbsentInv' /\ WorkerInv' /\ CacheInv' /\ FinalizeInv' /\ FinalizerProtects'
<1>0. /\ TypeOK /\ cr[Keda] \in CRType
      /\ cr[Keda].life = "absent" => cr[Keda].finalizers = {}
  BY NamesAssumption DEF ProtectInv, AbsentInv, TypeOK
<1>1. ASSUME NEW n \in Names, CacheSync(n)
      PROVE  AbsentInv' /\ WorkerInv' /\ CacheInv' /\ FinalizeInv' /\ FinalizerProtects'
  <2>1. cache'[Keda] = cache[Keda] \/ cache'[Keda] = cr[Keda]
    BY <1>0, <1>1, NamesAssumption DEF CacheSync, TypeOK
  <2>2. UNCHANGED <<cr, obj, pc, req, inst, status>>
    BY <1>1 DEF CacheSync, worker
  <2>3. AbsentInv' /\ FinalizeInv' /\ FinalizerProtects'
    BY <2>2 DEF ProtectInv, AbsentInv, FinalizeInv, FinalizerProtects, NonePresent, Present
  <2>4. CacheInv'
    BY <2>1, <2>2 DEF ProtectInv, CacheInv, LiveAndHeld, Held
  <2>5. WorkerInv'
    BY <2>1, <2>2 DEF ProtectInv, WorkerInv
  <2> QED BY <2>3, <2>4, <2>5
<1>2. CASE Restart
  <2>1. pc' = "idle" /\ cache' = cr /\ UNCHANGED <<cr, obj>>
    BY <1>2 DEF Restart, Return
  <2>2. AbsentInv' /\ FinalizerProtects'
    BY <2>1 DEF ProtectInv, AbsentInv, FinalizerProtects, Present
  <2>3. WorkerInv' /\ FinalizeInv'
    BY <2>1 DEF WorkerInv, FinalizeInv, InstallPCs, FinalizePCs
  <2>4. CacheInv'
    BY <2>1 DEF CacheInv, LiveAndHeld, Held
  <2> QED BY <2>2, <2>3, <2>4
<1>3. CASE User
  <2>1. UNCHANGED <<cache, obj>> /\ UNCHANGED worker
    BY <1>3 DEF User, UserCreate, UserEdit, UserDelete
  <2>2. Harmless(cr[Keda], cr'[Keda])
    <3>1. ASSUME NEW n \in Names, NEW s \in Specs, UserCreate(n, s)
          PROVE  Harmless(cr[Keda], cr'[Keda])
      <4>1. CASE n = Keda
        <5>1. cr[Keda].uid + 1 \in 0..MaxUid /\ cr[Keda].life = "absent"
          BY <1>0, <3>1, <4>1, BoundsAssumption DEF UserCreate, CRType
        <5>2. cr'[Keda] = Created(cr[Keda].uid + 1, s)
          BY <1>0, <3>1, <4>1, NamesAssumption DEF UserCreate, TypeOK
        <5> QED BY <1>0, <5>1, <5>2, HarmlessCreate
      <4>2. CASE n # Keda
        BY <1>0, <3>1, <4>2, NamesAssumption, HarmlessSame DEF UserCreate, TypeOK
      <4> QED BY <4>1, <4>2
    <3>2. ASSUME NEW n \in Names, NEW s \in Specs, UserEdit(n, s)
          PROVE  Harmless(cr[Keda], cr'[Keda])
      <4>1. CASE n = Keda
        <5>1. cr'[Keda] = [cr[Keda] EXCEPT !.spec = s] /\ cr[Keda].life # "absent"
          BY <1>0, <3>2, <4>1, NamesAssumption DEF UserEdit, TypeOK
        <5> QED BY <1>0, <5>1, HarmlessEdit
      <4>2. CASE n # Keda
        BY <1>0, <3>2, <4>2, NamesAssumption, HarmlessSame DEF UserEdit, TypeOK
      <4> QED BY <4>1, <4>2
    <3>3. ASSUME NEW n \in Names, NEW extra \in {{}, {Foreground}}, UserDelete(n, extra)
          PROVE  Harmless(cr[Keda], cr'[Keda])
      <4>1. CASE n = Keda
        <5>1. cr'[Keda] = Settle(MarkDeleted(cr[Keda], extra))
          BY <1>0, <3>3, <4>1, NamesAssumption DEF UserDelete, TypeOK
        <5> QED BY <1>0, <5>1, HarmlessDelete
      <4>2. CASE n # Keda
        BY <1>0, <3>3, <4>2, NamesAssumption, HarmlessSame DEF UserDelete, TypeOK
      <4> QED BY <4>1, <4>2
    <3> QED BY <1>3, <3>1, <3>2, <3>3 DEF User
  <2> QED BY <2>1, <2>2, HarmlessKeeps
<1>4. ASSUME NEW n \in Names, ForegroundDone(n)
      PROVE  AbsentInv' /\ WorkerInv' /\ CacheInv' /\ FinalizeInv' /\ FinalizerProtects'
  <2>1. UNCHANGED <<cache, obj>> /\ UNCHANGED worker
    BY <1>4 DEF ForegroundDone
  <2>2. Harmless(cr[Keda], cr'[Keda])
    <3>1. CASE n = Keda
      <4>1. /\ cr'[Keda] = SetFinalizers(cr[Keda], cr[Keda].finalizers \ {Foreground})
            /\ cr[Keda].life = "deleting"
        BY <1>0, <1>4, <3>1, NamesAssumption DEF ForegroundDone, TypeOK
      <4> QED BY <1>0, <4>1, HarmlessForeground
    <3>2. CASE n # Keda
      BY <1>0, <1>4, <3>2, NamesAssumption, HarmlessSame DEF ForegroundDone, TypeOK
    <3> QED BY <3>1, <3>2
  <2> QED BY <2>1, <2>2, HarmlessKeeps
<1>5. ASSUME NEW o \in Objects, Collect(o) \/ OutsideDelete(o)
      PROVE  AbsentInv' /\ WorkerInv' /\ CacheInv' /\ FinalizeInv' /\ FinalizerProtects'
  <2>1. Shrinks
    BY <1>0, <1>5, RemoveOneShrinks
  <2>2. UNCHANGED <<cr, cache>> /\ UNCHANGED worker
    BY <1>5 DEF Collect, OutsideDelete
  <2> QED BY <2>1, <2>2, ShrinkKeeps
<1> QED BY <1>1, <1>2, <1>3, <1>4, <1>5 DEF Collector

LEMMA ProtectStep == ProtectInv /\ [Next]_vars => ProtectInv'
<1> SUFFICES ASSUME ProtectInv, [Next]_vars PROVE ProtectInv'
  OBVIOUS
<1>0. TypeOK'
  BY StepType DEF ProtectInv
<1> DEFINE Kept == AbsentInv' /\ WorkerInv' /\ CacheInv' /\ FinalizeInv' /\ FinalizerProtects'
<1> SUFFICES Kept
  BY <1>0 DEF ProtectInv
<1> USE DEF InstallPCs, FinalizePCs, FinalizedGroups
<1>1. CASE UNCHANGED vars \/ \E n \in Names : BeginFails(n)
  BY <1>1 DEF vars, worker, BeginFails, ProtectInv, AbsentInv, WorkerInv, CacheInv,
              FinalizeInv, FinalizerProtects, NonePresent, Present
<1>2. ASSUME NEW n \in Names, Begin(n) PROVE Kept
  BY <1>2, BeginKeeps
<1>3. CASE MarkIgnored \/ MarkInstallSucceeded \/ ReportFailure
  BY <1>3, StatusReportKeeps
<1>4. CASE addFinalizer
  BY <1>4, AddFinalizerKeeps
<1>5. CASE installGeneralResources
  BY <1>5, GotoKeeps DEF installGeneralResources
<1>6. CASE installController
  BY <1>6, GotoKeeps DEF installController, InstallStage
<1>7. CASE installMetricsServer
  BY <1>7, GotoKeeps DEF installMetricsServer, InstallStage
<1>8. CASE installAdmissionWebhooks
  BY <1>8, GotoKeeps DEF installAdmissionWebhooks, InstallStage
<1>9. CASE installMonitoring
  BY <1>9, GotoKeeps DEF installMonitoring, InstallStage
<1>10. CASE installHTTPAddon
  <2>1. pc \in InstallPCs /\ pc' \in InstallPCs /\ UNCHANGED <<cr, cache, req, inst>>
    BY <1>10 DEF installHTTPAddon, disableHTTPAddon, enableHTTPAddon, Goto, MarkInstallFailed
  <2> QED BY <2>1, InstallKeeps
<1>11. CASE ensurePrometheusMonitoringRBAC
  BY <1>11, GotoKeeps DEF ensurePrometheusMonitoringRBAC, InstallStage
<1>12. CASE deleteHTTPAddon
  BY <1>12, FinalizeKeeps DEF deleteHTTPAddon
<1>13. CASE deleteGeneral
  BY <1>13, FinalizeKeeps DEF deleteGeneral
<1>14. CASE deleteController
  BY <1>14, FinalizeKeeps DEF deleteController
<1>15. CASE deleteMetrics
  BY <1>15, FinalizeKeeps DEF deleteMetrics
<1>16. CASE RemoveFinalizer
  BY <1>16, RemoveFinalizerKeeps
<1>17. CASE \/ \E n \in Names : CacheSync(n)
            \/ Restart \/ User \/ Collector
            \/ \E o \in Objects : OutsideDelete(o)
  BY <1>17, SurroundingsKeep
<1> QED
  BY <1>1, <1>2, <1>3, <1>4, <1>5, <1>6, <1>7, <1>8, <1>9, <1>10, <1>11, <1>12,
     <1>13, <1>14, <1>15, <1>16, <1>17
  DEF Next, Reconcile, Install, Finalize

LEMMA ProtectInit == Init => ProtectInv
<1> SUFFICES ASSUME Init PROVE ProtectInv
  OBVIOUS
<1>1. TypeOK
  BY InitType
<1>2. cr[Keda] = Gone(0) /\ cache[Keda] = Gone(0) /\ pc = "idle"
  BY NamesAssumption DEF Init
<1>3. AbsentInv /\ CacheInv
  BY <1>2, GoneFields DEF AbsentInv, CacheInv, LiveAndHeld
<1>4. WorkerInv /\ FinalizeInv
  BY <1>2 DEF WorkerInv, FinalizeInv, InstallPCs, FinalizePCs
<1>5. \A o \in Objects : ~Present(o)
  BY DEF Init, NoObj, Present
<1>6. FinalizerProtects
  BY <1>5, OperandsInObjects, FinalizedGroupsAreGroups DEF FinalizerProtects
<1> QED BY <1>1, <1>3, <1>4, <1>6 DEF ProtectInv

\* The invariant holds throughout; the proofs about the lifecycle and about the
\* status build on it.
LEMMA ProtectAlways == Spec => []ProtectInv
BY ProtectInit, ProtectStep, PTL DEF Spec

\* The KedaController never disappears, and never loses its finalizer, while an
\* operand that finalizeKedaController has to delete still exists.
THEOREM Protected == Spec => []FinalizerProtects
<1>1. ProtectInv => FinalizerProtects
  BY DEF ProtectInv
<1> QED BY <1>1, ProtectAlways, PTL

-----------------------------------------------------------------------------
(***************************************************************************)
(* KedaReconciler implements Lifecycle, for every value of the constants.  *)
(* FinalizerProtects and its invariant say what a stale copy cannot do to  *)
(* a resource that is held; the refinement needs, beyond that, how a stale *)
(* copy relates to the incarnation of the resource it was taken from.      *)
(***************************************************************************)

\* Incarnations are counted upwards, so that a copy is of the present one or of
\* an earlier one; deletion cannot be taken back; and what the finalizer code
\* works on, if it is still held, is known to the cache as deleted.
StaleInv ==
    LET c == cr[Keda]
        k == cache[Keda] IN
    /\ k.uid <= c.uid
    /\ k.life = "deleting" /\ k.uid = c.uid => c.life # "live"
    /\ k.life = "deleting" /\ Fin \in k.finalizers /\ Held(c) => k.uid = c.uid
    /\ pc \in FinalizePCs /\ Held(c) => k.life = "deleting" /\ k.uid = c.uid

\* What everyone but addFinalizer may do to the resource.
Tame(c, d) ==
    /\ c.uid <= d.uid
    /\ d.life = "live" => (c.life = "live" /\ d.uid = c.uid) \/ c.uid < d.uid
    /\ Held(d) => Held(c) /\ d.uid = c.uid

Drained ==
    /\ cache[Keda].life = "deleting" /\ cache[Keda].uid = cr[Keda].uid
    /\ pc \notin InstallPCs

Remaining == {o \in GuardedOperands : Present(o)}

AbstractStep == [Life!Next]_(Life!lifecycle)

-----------------------------------------------------------------------------
(* Facts about the resource *)

LEMMA KedaType ==
  ASSUME TypeOK
  PROVE  /\ cr[Keda] \in CRType /\ cache[Keda] \in CRType
         /\ cr[Keda].uid \in Nat /\ cache[Keda].uid \in Nat
<1>1. cr[Keda] \in CRType /\ cache[Keda] \in CRType
  BY NamesAssumption DEF TypeOK
<1> QED BY <1>1, BoundsAssumption DEF CRType

LEMMA TameSame ==
  ASSUME NEW c, NEW d, c.uid \in Nat, d.uid = c.uid, d.life = c.life,
         d.finalizers = c.finalizers
  PROVE  Tame(c, d)
BY DEF Tame, Held

LEMMA TameFinalizers ==
  ASSUME NEW c \in CRType, NEW new, new \subseteq {Fin, Foreground},
         Fin \in new => Fin \in c.finalizers, c.life # "absent"
  PROVE  Tame(c, SetFinalizers(c, new))
<1> DEFINE d == SetFinalizers(c, new)
<1>1. /\ d.uid = c.uid /\ d.finalizers = new
      /\ d.life = c.life \/ (d.life = "absent" /\ c.life = "deleting" /\ new = {})
  BY SetFinalizersCases
<1>2. c.uid \in Nat
  BY BoundsAssumption DEF CRType
<1> HIDE DEF d
<1>3. Tame(c, d)
  BY <1>1, <1>2 DEF Tame, Held
<1> QED BY <1>3 DEF d

\* What a deletion makes of a resource.
Ends(c, d) ==
    /\ d.uid = c.uid
    /\ Fin \in d.finalizers <=> Fin \in c.finalizers
    /\ \/ d.life = "deleting"
       \/ d.life = "absent" /\ Fin \notin c.finalizers

LEMMA DeletedFields ==
  ASSUME NEW c \in CRType, NEW extra \in {{}, {Foreground}}
  PROVE  Ends(c, Settle(MarkDeleted(c, extra)))
<1> DEFINE e == MarkDeleted(c, extra)
<1>1. e.uid = c.uid /\ e.life = "deleting" /\ e.finalizers = c.finalizers \cup extra
  BY DEF MarkDeleted, CRType
<1>2. Fin # Foreground
  BY DEF Fin, Foreground
<1> HIDE DEF e
<1>3. CASE e.finalizers = {}
  <2>1. Settle(e) = Gone(e.uid)
    BY <1>1, <1>3 DEF Settle
  <2>2. Settle(e).uid = c.uid /\ Settle(e).finalizers = {} /\ Settle(e).life = "absent"
    BY <1>1, <2>1, GoneFields
  <2>3. Fin \notin c.finalizers
    BY <1>1, <1>3
  <2>4. Ends(c, Settle(e))
    BY <2>2, <2>3 DEF Ends
  <2> QED BY <2>4 DEF e
<1>4. CASE e.finalizers # {}
  <2>1. Settle(e) = e
    BY <1>1, <1>4 DEF Settle
  <2>2. Fin \in e.finalizers <=> Fin \in c.finalizers
    BY <1>1, <1>2
  <2>3. Ends(c, Settle(e))
    BY <1>1, <2>1, <2>2 DEF Ends
  <2> QED BY <2>3 DEF e
<1> QED BY <1>3, <1>4

LEMMA CreatedFields ==
  ASSUME NEW u, NEW s
  PROVE  /\ Created(u, s).uid = u /\ Created(u, s).life = "live"
         /\ Created(u, s).finalizers = {}
BY DEF Created, Gone

-----------------------------------------------------------------------------
(* What each step does to the resource keda *)

\* Every step but addFinalizer leaves the resource a tame successor of itself.
LEMMA StatusReportTame ==
  ASSUME ProtectInv, MarkIgnored \/ MarkInstallSucceeded \/ ReportFailure
  PROVE  /\ cr'[Keda].uid = cr[Keda].uid /\ cr'[Keda].life = cr[Keda].life
         /\ cr'[Keda].finalizers = cr[Keda].finalizers
<1>1. \/ UNCHANGED cr
      \/ \E new : cr' = [cr EXCEPT ![req] = StatusPatch(@, new)]
  BY DEF MarkIgnored, MarkInstallSucceeded, ReportFailure
<1>2. TypeOK /\ cr \in [Names -> CRType] /\ cr[Keda] \in CRType
  BY KedaType DEF ProtectInv, TypeOK
<1>3. cr'[Keda] = cr[Keda] \/ \E new : cr'[Keda] = StatusPatch(cr[Keda], new)
  BY <1>1, <1>2, NamesAssumption
<1>4. ASSUME NEW new
      PROVE  /\ StatusPatch(cr[Keda], new).uid = cr[Keda].uid
             /\ StatusPatch(cr[Keda], new).life = cr[Keda].life
             /\ StatusPatch(cr[Keda], new).finalizers = cr[Keda].finalizers
  BY <1>2 DEF StatusPatch, CRType
<1> QED BY <1>3, <1>4

\* The patch of the finalizers, for the two actions that send one.
LEMMA FinalizerPatchCases ==
  ASSUME ProtectInv, NEW new, new \subseteq {Fin, Foreground}, req = Keda,
         FinalizerPatch(new)
  PROVE  \/ UNCHANGED cr
         \/ /\ cr'[Keda] = SetFinalizers(cr[Keda], new)
            /\ \/ cr[Keda].life = "live"
               \/ cr[Keda].life = "deleting" /\ new \subseteq cr[Keda].finalizers
BY NamesAssumption DEF FinalizerPatch, ProtectInv, TypeOK

LEMMA UserTame ==
  ASSUME ProtectInv, User PROVE Tame(cr[Keda], cr'[Keda])
<1>0. /\ TypeOK /\ cr[Keda] \in CRType /\ cr[Keda].uid \in Nat
      /\ cr \in [Names -> CRType]
  BY KedaType DEF ProtectInv, TypeOK
<1>1. ASSUME NEW n \in Names, NEW s \in Specs, UserCreate(n, s)
      PROVE  Tame(cr[Keda], cr'[Keda])
  <2>1. CASE n = Keda
    <3>1. cr'[Keda] = Created(cr[Keda].uid + 1, s)
      BY <1>0, <1>1, <2>1, NamesAssumption DEF UserCreate
    <3> QED BY <1>0, <3>1, CreatedFields DEF Tame, Held
  <2>2. CASE n # Keda
    BY <1>0, <1>1, <2>2, NamesAssumption, TameSame DEF UserCreate
  <2> QED BY <2>1, <2>2
<1>2. ASSUME NEW n \in Names, NEW s \in Specs, UserEdit(n, s)
      PROVE  Tame(cr[Keda], cr'[Keda])
  <2>1. CASE n = Keda
    <3>1. cr'[Keda] = [cr[Keda] EXCEPT !.spec = s]
      BY <1>0, <1>2, <2>1, NamesAssumption DEF UserEdit
    <3>2. /\ cr'[Keda].uid = cr[Keda].uid /\ cr'[Keda].life = cr[Keda].life
          /\ cr'[Keda].finalizers = cr[Keda].finalizers
      BY <1>0, <3>1 DEF CRType
    <3> QED BY <1>0, <3>2, TameSame
  <2>2. CASE n # Keda
    BY <1>0, <1>2, <2>2, NamesAssumption, TameSame DEF UserEdit
  <2> QED BY <2>1, <2>2
<1>3. ASSUME NEW n \in Names, NEW extra \in {{}, {Foreground}}, UserDelete(n, extra)
      PROVE  Tame(cr[Keda], cr'[Keda])
  <2>1. CASE n = Keda
    <3>1. cr'[Keda] = Settle(MarkDeleted(cr[Keda], extra)) /\ cr[Keda].life = "live"
      BY <1>0, <1>3, <2>1, NamesAssumption DEF UserDelete
    <3>2. /\ cr'[Keda].uid = cr[Keda].uid
          /\ Fin \in cr'[Keda].finalizers <=> Fin \in cr[Keda].finalizers
          /\ cr'[Keda].life \in {"deleting", "absent"}
      <4>1. Ends(cr[Keda], Settle(MarkDeleted(cr[Keda], extra)))
        BY <1>0, DeletedFields
      <4> QED BY <3>1, <4>1 DEF Ends
    <3> QED BY <1>0, <3>1, <3>2 DEF Tame, Held
  <2>2. CASE n # Keda
    BY <1>0, <1>3, <2>2, NamesAssumption, TameSame DEF UserDelete
  <2> QED BY <2>1, <2>2
<1> QED BY <1>1, <1>2, <1>3 DEF User

LEMMA ForegroundTame ==
  ASSUME ProtectInv, NEW n \in Names, ForegroundDone(n)
  PROVE  Tame(cr[Keda], cr'[Keda])
<1>0. /\ TypeOK /\ cr[Keda] \in CRType /\ cr[Keda].uid \in Nat
      /\ cr \in [Names -> CRType]
  BY KedaType DEF ProtectInv, TypeOK
<1>1. CASE n = Keda
  <2>1. /\ cr'[Keda] = SetFinalizers(cr[Keda], cr[Keda].finalizers \ {Foreground})
        /\ cr[Keda].life = "deleting"
    BY <1>0, <1>1, NamesAssumption DEF ForegroundDone
  <2>2. cr[Keda].finalizers \ {Foreground} \subseteq {Fin, Foreground}
    BY <1>0 DEF CRType
  <2> QED BY <1>0, <2>1, <2>2, TameFinalizers
<1>2. CASE n # Keda
  BY <1>0, <1>2, NamesAssumption, TameSame DEF ForegroundDone
<1> QED BY <1>1, <1>2

-----------------------------------------------------------------------------
(* The invariant *)

LEMMA TameKeeps ==
  ASSUME ProtectInv, StaleInv, Tame(cr[Keda], cr'[Keda]), cr'[Keda].uid \in Nat,
         UNCHANGED cache, pc' \in FinalizePCs => pc \in FinalizePCs
  PROVE  StaleInv'
<1>1. cr[Keda].uid \in Nat /\ cache[Keda].uid \in Nat
  BY KedaType DEF ProtectInv
<1> QED BY <1>1 DEF StaleInv, Tame

\* Steps that leave the resource and its cached copy alone.
LEMMA IdleKeeps ==
  ASSUME ProtectInv, StaleInv, UNCHANGED <<cr, cache>>,
         pc' \in FinalizePCs => pc \in FinalizePCs
  PROVE  StaleInv'
BY DEF StaleInv

LEMMA StaleStep == ProtectInv /\ StaleInv /\ [Next]_vars => StaleInv'
<1> SUFFICES ASSUME ProtectInv, StaleInv, [Next]_vars PROVE StaleInv'
  OBVIOUS
<1>0. /\ TypeOK /\ cr[Keda] \in CRType /\ cache[Keda] \in CRType
      /\ cr[Keda].uid \in Nat /\ cache[Keda].uid \in Nat /\ cr'[Keda].uid \in Nat
  <2>1. TypeOK /\ TypeOK'
    BY StepType DEF ProtectInv
  <2>2. cr'[Keda].uid \in Nat
    BY <2>1, NamesAssumption, BoundsAssumption DEF TypeOK, CRType
  <2> QED BY <2>1, <2>2, KedaType
<1>1. CASE UNCHANGED vars \/ \E n \in Names : BeginFails(n)
  BY <1>1, IdleKeeps DEF vars, worker, BeginFails
<1>2. ASSUME NEW n \in Names, Begin(n) PROVE StaleInv'
  <2>1. UNCHANGED <<cr, cache>>
    BY <1>2 DEF Begin
  <2>2. CASE pc' \notin FinalizePCs
    BY <2>1, <2>2, IdleKeeps
  <2>3. CASE pc' \in FinalizePCs /\ UNCHANGED worker
    BY <2>1, <2>3, IdleKeeps DEF worker
  <2>4. CASE pc' \in FinalizePCs /\ pc' = Dispatch(n, cache[n])
    <3>1. cache[n].life \in {"absent", "live", "deleting"}
      BY <1>0 DEF TypeOK, CRType
    <3>2. n = Keda /\ cache[n].life = "deleting" /\ Fin \in cache[n].finalizers
      BY <2>4, <3>1 DEF Dispatch, isInteresting, FinalizePCs
    <3> QED BY <2>1, <3>2 DEF StaleInv
  <2> QED BY <1>2, <2>2, <2>3, <2>4 DEF Begin
<1>3. CASE MarkIgnored \/ MarkInstallSucceeded \/ ReportFailure
  <2>1. pc' = "idle" /\ UNCHANGED cache
    BY <1>3 DEF MarkIgnored, MarkInstallSucceeded, ReportFailure, Done, Requeue, Return
  <2>2. Tame(cr[Keda], cr'[Keda])
    BY <1>0, <1>3, StatusReportTame, TameSame
  <2> QED BY <1>0, <2>1, <2>2, TameKeeps DEF FinalizePCs
<1>4. CASE addFinalizer
  <2> DEFINE new == inst.finalizers \cup {Fin}
  <2>1. /\ req = Keda /\ UNCHANGED cache /\ pc' = "idle"
        /\ new \subseteq {Fin, Foreground} /\ FinalizerPatch(new)
        /\ Fin \in cache[Keda].finalizers => Fin \in cr[Keda].finalizers
    BY <1>0, <1>4 DEF addFinalizer, FinalizerPatch, Done, Requeue, Return,
                      ProtectInv, WorkerInv, TypeOK, CRType
  <2>2. CASE UNCHANGED cr
    BY <2>1, <2>2, IdleKeeps DEF FinalizePCs
  <2>3. CASE cr'[Keda] = SetFinalizers(cr[Keda], new) /\ cr[Keda].life # "absent"
    <3>1. cr'[Keda].uid = cr[Keda].uid /\ cr'[Keda].life = cr[Keda].life
      BY <1>0, <2>1, <2>3, SetFinalizersCases
    <3>2. Fin \in cache[Keda].finalizers => Held(cr[Keda])
      BY <2>1, <2>3 DEF Held
    <3> QED BY <2>1, <3>1, <3>2 DEF StaleInv, FinalizePCs
  <2>4. UNCHANGED cr \/ (cr'[Keda] = SetFinalizers(cr[Keda], new) /\ cr[Keda].life # "absent")
    BY <2>1, FinalizerPatchCases
  <2> QED BY <2>2, <2>3, <2>4
<1>5. CASE installGeneralResources
  BY <1>5, IdleKeeps DEF installGeneralResources, Goto, MarkInstallFailed, FinalizePCs
<1>6. CASE installController
  BY <1>6, IdleKeeps DEF installController, InstallStage, Goto, MarkInstallFailed, FinalizePCs
<1>7. CASE installMetricsServer
  BY <1>7, IdleKeeps DEF installMetricsServer, InstallStage, Goto, MarkInstallFailed, FinalizePCs
<1>8. CASE installAdmissionWebhooks
  BY <1>8, IdleKeeps DEF installAdmissionWebhooks, InstallStage, Goto, MarkInstallFailed, FinalizePCs
<1>9. CASE installMonitoring
  BY <1>9, IdleKeeps DEF installMonitoring, InstallStage, Goto, MarkInstallFailed, FinalizePCs
<1>10. CASE installHTTPAddon
  BY <1>10, IdleKeeps
     DEF installHTTPAddon, disableHTTPAddon, enableHTTPAddon, Goto, MarkInstallFailed, FinalizePCs
<1>11. CASE ensurePrometheusMonitoringRBAC
  BY <1>11, IdleKeeps
     DEF ensurePrometheusMonitoringRBAC, InstallStage, Goto, MarkInstallFailed, FinalizePCs
<1>12. CASE deleteHTTPAddon \/ deleteGeneral \/ deleteController \/ deleteMetrics
  BY <1>12, IdleKeeps
     DEF deleteHTTPAddon, deleteGeneral, deleteController, deleteMetrics, FinalizePCs
<1>13. CASE RemoveFinalizer
  <2> DEFINE new == inst.finalizers \ {Fin}
  <2>1. /\ req = Keda /\ UNCHANGED cache /\ pc' = "idle"
        /\ new \subseteq {Fin, Foreground} /\ FinalizerPatch(new)
    BY <1>0, <1>13 DEF RemoveFinalizer, FinalizerPatch, Done, Requeue, Return,
                       ProtectInv, WorkerInv, TypeOK, CRType, FinalizePCs
  <2>2. Tame(cr[Keda], cr'[Keda])
    <3>1. CASE UNCHANGED cr
      BY <1>0, <3>1, TameSame
    <3>2. CASE cr'[Keda] = SetFinalizers(cr[Keda], new) /\ cr[Keda].life # "absent"
      BY <1>0, <2>1, <3>2, TameFinalizers
    <3>3. UNCHANGED cr \/ (cr'[Keda] = SetFinalizers(cr[Keda], new) /\ cr[Keda].life # "absent")
      BY <2>1, FinalizerPatchCases
    <3> QED BY <3>1, <3>2, <3>3
  <2> QED BY <1>0, <2>1, <2>2, TameKeeps DEF FinalizePCs
<1>14. ASSUME NEW n \in Names, CacheSync(n) PROVE StaleInv'
  <2>1. UNCHANGED <<cr, pc>> /\ (cache'[Keda] = cache[Keda] \/ cache'[Keda] = cr[Keda])
    BY <1>0, <1>14, NamesAssumption DEF CacheSync, worker, TypeOK
  <2>2. CASE cache'[Keda] = cache[Keda]
    BY <2>1, <2>2 DEF StaleInv
  <2>3. CASE cache'[Keda] = cr[Keda]
    <3>1. pc \in FinalizePCs => ~LiveAndHeld(cr[Keda])
      BY DEF ProtectInv, WorkerInv
    <3>2. cr[Keda].life \in {"absent", "live", "deleting"}
      BY <1>0 DEF CRType
    <3> QED BY <1>0, <2>1, <2>3, <3>1, <3>2 DEF StaleInv, LiveAndHeld, Held
  <2> QED BY <2>1, <2>2, <2>3
<1>15. CASE Restart
  BY <1>0, <1>15 DEF Restart, Return, StaleInv, FinalizePCs
<1>16. CASE User
  <2>1. UNCHANGED <<cache, pc>>
    BY <1>16 DEF User, UserCreate, UserEdit, UserDelete, worker
  <2> QED BY <1>0, <1>16, <2>1, UserTame, TameKeeps
<1>17. CASE Collector
  <2>1. ASSUME NEW o \in Objects, Collect(o) PROVE StaleInv'
    BY <2>1, IdleKeeps DEF Collect, worker
  <2>2. ASSUME NEW n \in Names, ForegroundDone(n) PROVE StaleInv'
    <3>1. UNCHANGED <<cache, pc>>
      BY <2>2 DEF ForegroundDone, worker
    <3> QED BY <1>0, <2>2, <3>1, ForegroundTame, TameKeeps
  <2> QED BY <1>17, <2>1, <2>2 DEF Collector
<1>18. ASSUME NEW o \in Objects, OutsideDelete(o) PROVE StaleInv'
  BY <1>18, IdleKeeps DEF OutsideDelete, worker
<1> QED
  BY <1>1, <1>2, <1>3, <1>4, <1>5, <1>6, <1>7, <1>8, <1>9, <1>10, <1>11, <1>12,
     <1>13, <1>14, <1>15, <1>16, <1>17, <1>18
  DEF Next, Reconcile, Install, Finalize

LEMMA StaleInit == Init => StaleInv
<1> SUFFICES ASSUME Init PROVE StaleInv
  OBVIOUS
<1>1. cr[Keda] = Gone(0) /\ cache[Keda] = Gone(0) /\ pc = "idle"
  BY NamesAssumption DEF Init
<1> QED BY <1>1, GoneFields DEF StaleInv, FinalizePCs, Held

LEMMA StaleAlways == Spec => []StaleInv
BY StaleInit, StaleStep, ProtectAlways, PTL DEF Spec

-----------------------------------------------------------------------------
(* The refinement *)

\* The six phases, told apart by the life of the resource, by its finalizer and
\* by whether the operator knows that it is deleted.
LEMMA PhaseCases ==
  TypeOK =>
    /\ cr[Keda].life \in {"absent", "live", "deleting"}
    /\ cr[Keda].life = "absent" => LifePhase = "absent"
    /\ cr[Keda].life = "live" =>
          LifePhase = IF Fin \in cr[Keda].finalizers THEN "held" ELSE "open"
    /\ cr[Keda].life = "deleting" /\ Fin \notin cr[Keda].finalizers =>
          LifePhase = "released"
    /\ cr[Keda].life = "deleting" /\ Fin \in cr[Keda].finalizers =>
          LifePhase = IF Drained THEN "draining" ELSE "ending"
<1> SUFFICES ASSUME TypeOK
    PROVE
    /\ cr[Keda].life \in {"absent", "live", "deleting"}
    /\ cr[Keda].life = "absent" => LifePhase = "absent"
    /\ cr[Keda].life = "live" =>
          LifePhase = IF Fin \in cr[Keda].finalizers THEN "held" ELSE "open"
    /\ cr[Keda].life = "deleting" /\ Fin \notin cr[Keda].finalizers =>
          LifePhase = "released"
    /\ cr[Keda].life = "deleting" /\ Fin \in cr[Keda].finalizers =>
          LifePhase = IF Drained THEN "draining" ELSE "ending"
  OBVIOUS
<1>1. cr[Keda].life \in {"absent", "live", "deleting"}
  BY NamesAssumption DEF TypeOK, CRType
<1> QED BY <1>1 DEF LifePhase, Drained

\* What is not held has no operands to guard.
LEMMA NothingRemains ==
  ASSUME ProtectInv, ~Held(cr[Keda]) PROVE Remaining = {}
BY DEF ProtectInv, FinalizerProtects, Held, Remaining, GuardedOperands

LEMMA GuardedAreObjects == GuardedOperands \subseteq Objects
BY OperandsInObjects, FinalizedGroupsAreGroups DEF GuardedOperands

\* The moves between phases that Lifecycle allows with the operands as they are.
LEMMA PhaseMoves ==
  ASSUME UNCHANGED obj,
         \/ LifePhase' = LifePhase
         \/ LifePhase = "absent" /\ LifePhase' = "open"
         \/ LifePhase = "open" /\ LifePhase' \in {"held", "absent", "released"}
         \/ LifePhase = "held" /\ LifePhase' = "ending"
         \/ LifePhase = "ending" /\ LifePhase' = "draining"
         \/ /\ LifePhase = "draining" /\ LifePhase' \in {"absent", "released"}
            /\ Remaining = {}
         \/ LifePhase = "released" /\ LifePhase' = "absent"
  PROVE  AbstractStep
<1>1. Remaining' = Remaining
  BY DEF Remaining, Present
<1> QED
  BY <1>1 DEF AbstractStep, Remaining, Life!Next, Life!lifecycle, Life!Create, Life!Hold,
              Life!Abandon, Life!Delete, Life!Drain, Life!Release, Life!Vanish

\* Operands come and go while the resource is held.
LEMMA OperandsMove ==
  ASSUME LifePhase \in {"held", "ending"}, LifePhase' = LifePhase
  PROVE  AbstractStep
<1>1. Remaining' \in SUBSET GuardedOperands
  BY DEF Remaining
<1> QED BY <1>1 DEF AbstractStep, Remaining, Life!Next, Life!Operate

\* Operands go away in any phase; where nothing is held there are none.
LEMMA OperandsGo ==
  ASSUME ProtectInv, Shrinks, LifePhase' = LifePhase
  PROVE  AbstractStep
<1>0. TypeOK
  BY DEF ProtectInv
<1>1. Remaining' \in SUBSET Remaining
  BY GuardedAreObjects DEF Remaining, Shrinks, Present
<1>2. CASE LifePhase \in {"held", "ending"}
  BY <1>2, OperandsMove
<1>3. CASE LifePhase = "draining"
  BY <1>1, <1>3 DEF AbstractStep, Remaining, Life!Next, Life!Remove
<1>4. CASE LifePhase \notin {"held", "ending", "draining"}
  <2>1. ~Held(cr[Keda])
    BY <1>0, <1>4, PhaseCases DEF Held
  <2>2. Remaining = {} /\ Remaining' = Remaining
    BY <1>1, <2>1, NothingRemains
  <2> QED BY <2>2 DEF AbstractStep, Remaining, Life!lifecycle
<1> QED BY <1>2, <1>3, <1>4

\* The phase depends on the resource, its copy, and whether an install runs.
LEMMA SamePhase ==
  ASSUME TypeOK, TypeOK', UNCHANGED cache,
         cr'[Keda].uid = cr[Keda].uid, cr'[Keda].life = cr[Keda].life,
         Fin \in cr'[Keda].finalizers <=> Fin \in cr[Keda].finalizers,
         pc' \in InstallPCs <=> pc \in InstallPCs
  PROVE  LifePhase' = LifePhase
<1>1. cr[Keda].life \in {"absent", "live", "deleting"}
  BY PhaseCases
<1> QED BY <1>1 DEF LifePhase

\* A step of an install stage.
LEMMA InstallMoves ==
  ASSUME ProtectInv, TypeOK', pc \in InstallPCs, pc' \in InstallPCs, UNCHANGED <<cr, cache>>
  PROVE  AbstractStep
<1>1. TypeOK /\ Held(cr[Keda])
  BY DEF ProtectInv, WorkerInv
<1>2. LifePhase' = LifePhase
  BY <1>1, SamePhase
<1>3. LifePhase \in {"held", "ending"}
  BY <1>1, PhaseCases DEF Held, Drained
<1> QED BY <1>2, <1>3, OperandsMove

\* A stage of the finalizer: what is still held is known to be deleted.
LEMMA FinalizeMoves ==
  ASSUME ProtectInv, TypeOK', StaleInv, NEW g \in FinalizedGroups, NEW next \in FinalizePCs,
         pc \in FinalizePCs, FinalizeStage(g, next), UNCHANGED <<cr, cache>>
  PROVE  AbstractStep
<1>0. g \in Group /\ TypeOK
  BY FinalizedGroupsAreGroups DEF ProtectInv
<1>1. \E k : obj' = [o \in Objects |-> IF o \in AfterOf(g, k) THEN NoObj ELSE obj[o]]
  BY DEF FinalizeStage, Delete, Write
<1>2. Shrinks
  BY <1>0, <1>1, DeleteShrinks
<1>3. pc \notin InstallPCs /\ pc' \notin InstallPCs
  BY DEF FinalizeStage, Goto, Requeue, Return, InstallPCs, FinalizePCs
<1>4. LifePhase' = LifePhase
  BY <1>0, <1>3, SamePhase
<1> QED BY <1>2, <1>4, OperandsGo

\* Users create, edit and delete; whether an install runs is not theirs to say.
LEMMA UserMoves ==
  ASSUME ProtectInv, TypeOK', StaleInv, User
  PROVE  AbstractStep
<1>0. /\ TypeOK /\ cr[Keda] \in CRType /\ cr[Keda].uid \in Nat /\ cache[Keda].uid \in Nat
      /\ cr \in [Names -> CRType]
  BY KedaType DEF ProtectInv, TypeOK
<1>1. UNCHANGED <<cache, obj, pc>>
  BY DEF User, UserCreate, UserEdit, UserDelete, worker
<1>2. CASE /\ cr'[Keda].uid = cr[Keda].uid /\ cr'[Keda].life = cr[Keda].life
           /\ cr'[Keda].finalizers = cr[Keda].finalizers
  BY <1>0, <1>1, <1>2, SamePhase, PhaseMoves
<1>3. ASSUME NEW s \in Specs, UserCreate(Keda, s) PROVE AbstractStep
  <2>1. cr'[Keda] = Created(cr[Keda].uid + 1, s) /\ cr[Keda].life = "absent"
    BY <1>0, <1>3, NamesAssumption DEF UserCreate
  <2>2. cr'[Keda].life = "live" /\ cr'[Keda].finalizers = {}
    BY <2>1, CreatedFields
  <2>3. LifePhase = "absent"
    BY <1>0, <2>1, PhaseCases
  <2>4. LifePhase' = "open"
    BY <2>2 DEF LifePhase
  <2> QED BY <1>1, <2>3, <2>4, PhaseMoves
<1>4. ASSUME NEW extra \in {{}, {Foreground}}, UserDelete(Keda, extra) PROVE AbstractStep
  <2> DEFINE d == cr'[Keda]
  <2>1. d = Settle(MarkDeleted(cr[Keda], extra)) /\ cr[Keda].life = "live"
    BY <1>0, <1>4, NamesAssumption DEF UserDelete
  <2>2. /\ d.uid = cr[Keda].uid
        /\ Fin \in d.finalizers <=> Fin \in cr[Keda].finalizers
        /\ d.life = "deleting" \/ (d.life = "absent" /\ Fin \notin cr[Keda].finalizers)
    <3>1. Ends(cr[Keda], Settle(MarkDeleted(cr[Keda], extra)))
      BY <1>0, DeletedFields
    <3> QED BY <2>1, <3>1 DEF Ends
  <2>3. ~Drained'
    BY <1>0, <1>1, <2>1, <2>2 DEF StaleInv, Drained
  <2>4. CASE Fin \in cr[Keda].finalizers
    <3>1. LifePhase = "held"
      BY <1>0, <2>1, <2>4, PhaseCases
    <3>2. LifePhase' = "ending"
      BY <2>2, <2>3, <2>4 DEF LifePhase, Drained
    <3> QED BY <1>1, <3>1, <3>2, PhaseMoves
  <2>5. CASE Fin \notin cr[Keda].finalizers
    <3>1. LifePhase = "open"
      BY <1>0, <2>1, <2>5, PhaseCases
    <3>2. LifePhase' \in {"absent", "released"}
      BY <2>2, <2>5 DEF LifePhase
    <3> QED BY <1>1, <3>1, <3>2, PhaseMoves
  <2> QED BY <2>4, <2>5
<1>5. ASSUME NEW n \in Names, n # Keda, NEW s,
             \/ UserCreate(n, s) \/ UserEdit(n, s) \/ UserDelete(n, s)
      PROVE  cr'[Keda] = cr[Keda]
  BY <1>0, <1>5, NamesAssumption DEF UserCreate, UserEdit, UserDelete
<1>6. ASSUME NEW s \in Specs, UserEdit(Keda, s)
      PROVE  /\ cr'[Keda].uid = cr[Keda].uid /\ cr'[Keda].life = cr[Keda].life
             /\ cr'[Keda].finalizers = cr[Keda].finalizers
  <2>1. cr'[Keda] = [cr[Keda] EXCEPT !.spec = s]
    BY <1>0, <1>6, NamesAssumption DEF UserEdit
  <2> QED BY <1>0, <2>1 DEF CRType
<1>7. CASE \E n \in Names, s \in Specs : UserCreate(n, s) \/ UserEdit(n, s)
  <2>1. PICK n \in Names, s \in Specs : UserCreate(n, s) \/ UserEdit(n, s)
    BY <1>7
  <2>2. CASE n = Keda
    BY <1>2, <1>3, <1>6, <2>1, <2>2
  <2>3. CASE n # Keda
    BY <1>2, <1>5, <2>1, <2>3
  <2> QED BY <2>2, <2>3
<1>8. CASE \E n \in Names, extra \in {{}, {Foreground}} : UserDelete(n, extra)
  <2>1. PICK n \in Names, extra \in {{}, {Foreground}} : UserDelete(n, extra)
    BY <1>8
  <2>2. CASE n = Keda
    BY <1>4, <2>1, <2>2
  <2>3. CASE n # Keda
    BY <1>2, <1>5, <2>1, <2>3
  <2> QED BY <2>2, <2>3
<1> QED BY <1>7, <1>8 DEF User

\* The operator takes hold of the resource.
LEMMA AddFinalizerMoves ==
  ASSUME ProtectInv, TypeOK', addFinalizer PROVE AbstractStep
<1> DEFINE new == inst.finalizers \cup {Fin}
<1>0. TypeOK /\ cr[Keda] \in CRType
  BY KedaType DEF ProtectInv
<1>1. /\ req = Keda /\ UNCHANGED <<cache, obj>> /\ pc = "addFinalizer" /\ pc' = "idle"
      /\ new \subseteq {Fin, Foreground} /\ FinalizerPatch(new)
  BY <1>0 DEF addFinalizer, FinalizerPatch, Done, Requeue, Return,
              ProtectInv, WorkerInv, TypeOK, CRType
<1>2. pc \notin InstallPCs /\ pc' \notin InstallPCs
  BY <1>1 DEF InstallPCs
<1>3. CASE UNCHANGED cr
  BY <1>0, <1>1, <1>2, <1>3, SamePhase, PhaseMoves
<1>4. CASE /\ cr'[Keda] = SetFinalizers(cr[Keda], new)
           /\ \/ cr[Keda].life = "live"
              \/ cr[Keda].life = "deleting" /\ new \subseteq cr[Keda].finalizers
  <2>1. /\ cr'[Keda].uid = cr[Keda].uid /\ cr'[Keda].life = cr[Keda].life
        /\ Fin \in cr'[Keda].finalizers
    BY <1>0, <1>1, <1>4, SetFinalizersCases
  <2>2. CASE Fin \in cr[Keda].finalizers
    BY <1>0, <1>1, <1>2, <2>1, <2>2, SamePhase, PhaseMoves
  <2>3. CASE Fin \notin cr[Keda].finalizers
    <3>1. cr[Keda].life = "live"
      BY <1>4, <2>3
    <3>2. LifePhase = "open"
      BY <1>0, <2>3, <3>1, PhaseCases
    <3>3. LifePhase' = "held"
      BY <2>1, <3>1 DEF LifePhase
    <3> QED BY <1>1, <3>2, <3>3, PhaseMoves
  <2> QED BY <2>2, <2>3
<1> QED BY <1>1, <1>3, <1>4, FinalizerPatchCases

\* The operator lets go of the resource: nothing remains by then.
LEMMA RemoveFinalizerMoves ==
  ASSUME ProtectInv, TypeOK', StaleInv, RemoveFinalizer PROVE AbstractStep
<1> DEFINE new == inst.finalizers \ {Fin}
<1>0. TypeOK /\ cr[Keda] \in CRType /\ pc = "removeFinalizer"
  BY KedaType DEF ProtectInv, RemoveFinalizer
<1>1. /\ req = Keda /\ UNCHANGED <<cache, obj>> /\ pc' = "idle"
      /\ new \subseteq {Fin, Foreground} /\ FinalizerPatch(new)
      /\ ~LiveAndHeld(cr[Keda])
  BY <1>0 DEF RemoveFinalizer, FinalizerPatch, Done, Requeue, Return,
              ProtectInv, WorkerInv, TypeOK, CRType, FinalizePCs
<1>2. pc \notin InstallPCs /\ pc' \notin InstallPCs /\ pc \in FinalizePCs
  BY <1>0, <1>1 DEF InstallPCs, FinalizePCs
<1>3. CASE UNCHANGED cr
  BY <1>0, <1>1, <1>2, <1>3, SamePhase, PhaseMoves
<1>4. CASE /\ cr'[Keda] = SetFinalizers(cr[Keda], new)
           /\ cr[Keda].life \in {"live", "deleting"}
  <2>1. /\ cr'[Keda].uid = cr[Keda].uid /\ Fin \notin cr'[Keda].finalizers
        /\ \/ cr'[Keda].life = cr[Keda].life
           \/ cr'[Keda].life = "absent" /\ cr[Keda].life = "deleting"
    BY <1>0, <1>1, <1>4, SetFinalizersCases
  <2>2. CASE cr[Keda].life = "live"
    <3>1. Fin \notin cr[Keda].finalizers /\ cr'[Keda].life = "live"
      BY <1>1, <2>1, <2>2 DEF LiveAndHeld
    <3> QED BY <1>0, <1>1, <1>2, <2>1, <2>2, <3>1, SamePhase, PhaseMoves
  <2>3. CASE cr[Keda].life = "deleting"
    <3>1. LifePhase' \in {"absent", "released"}
      BY <2>1, <2>3 DEF LifePhase
    <3>2. CASE Fin \notin cr[Keda].finalizers
      <4>1. LifePhase = "released"
        BY <1>0, <2>3, <3>2, PhaseCases
      <4> QED BY <1>1, <3>1, <4>1, PhaseMoves
    <3>3. CASE Fin \in cr[Keda].finalizers
      <4>1. Held(cr[Keda])
        BY <2>3, <3>3 DEF Held
      <4>2. Drained
        BY <1>2, <4>1 DEF StaleInv, Drained
      <4>3. LifePhase = "draining"
        BY <1>0, <2>3, <3>3, <4>2, PhaseCases
      <4>4. \A g \in FinalizedGroups : NonePresent(g)
        BY <1>0 DEF ProtectInv, FinalizeInv, FinalizedGroups, FinalizePCs
      <4>5. Remaining = {}
        BY <4>4 DEF Remaining, GuardedOperands, NonePresent
      <4> QED BY <1>1, <3>1, <4>3, <4>5, PhaseMoves
    <3> QED BY <3>2, <3>3
  <2> QED BY <1>4, <2>2, <2>3
<1> QED BY <1>1, <1>3, <1>4, FinalizerPatchCases

\* An install starts only from a copy that is not known to be deleted.
LEMMA BeginMoves ==
  ASSUME ProtectInv, TypeOK', NEW n \in Names, Begin(n) PROVE AbstractStep
<1>0. TypeOK /\ pc = "idle" /\ UNCHANGED <<cr, cache, obj>>
  BY DEF ProtectInv, Begin
<1>1. CASE pc' \notin InstallPCs
  <2>1. LifePhase' = LifePhase
    BY <1>0, <1>1, SamePhase DEF InstallPCs
  <2> QED BY <1>0, <2>1, PhaseMoves
<1>2. CASE pc' \in InstallPCs
  <2>1. pc' = Dispatch(n, cache[n])
    BY <1>0, <1>2 DEF Begin, worker, InstallPCs
  <2>2. cache[n].life \in {"absent", "live", "deleting"}
    BY <1>0 DEF TypeOK, CRType
  <2>3. n = Keda /\ LiveAndHeld(cache[Keda])
    BY <1>2, <2>1, <2>2 DEF Dispatch, isInteresting, InstallPCs, LiveAndHeld
  <2>4. ~Drained /\ ~Drained'
    BY <1>0, <2>3 DEF Drained, LiveAndHeld
  <2>5. LifePhase' = LifePhase
    BY <1>0, <2>4, PhaseCases DEF LifePhase, Drained
  <2> QED BY <1>0, <2>5, PhaseMoves
<1> QED BY <1>1, <1>2

\* The reconcile under way ends, by its report or by a restart, or the informer
\* catches up: a deleted resource may turn from ending to draining, never back.
LEMMA EndsMove ==
  ASSUME ProtectInv, TypeOK', UNCHANGED obj,
         cr'[Keda].uid = cr[Keda].uid, cr'[Keda].life = cr[Keda].life,
         cr'[Keda].finalizers = cr[Keda].finalizers,
         UNCHANGED pc \/ pc' = "idle",
         cache'[Keda] \in {cache[Keda], cr[Keda]}
  PROVE  AbstractStep
<1>0. TypeOK /\ cr[Keda].life \in {"absent", "live", "deleting"}
  BY PhaseCases DEF ProtectInv
<1>1. cr[Keda].life = "deleting" /\ Drained => Drained'
  BY DEF Drained, InstallPCs
<1>2. CASE ~(cr[Keda].life = "deleting" /\ Fin \in cr[Keda].finalizers)
  <2>1. LifePhase' = LifePhase
    BY <1>0, <1>2 DEF LifePhase
  <2> QED BY <2>1, PhaseMoves
<1>3. CASE cr[Keda].life = "deleting" /\ Fin \in cr[Keda].finalizers
  <2>1. LifePhase = IF Drained THEN "draining" ELSE "ending"
    BY <1>0, <1>3, PhaseCases
  <2>2. LifePhase' = IF Drained' THEN "draining" ELSE "ending"
    BY <1>3 DEF LifePhase, Drained
  <2>3. LifePhase' = LifePhase \/ (LifePhase = "ending" /\ LifePhase' = "draining")
    BY <1>1, <1>3, <2>1, <2>2
  <2> QED BY <2>3, PhaseMoves
<1> QED BY <1>2, <1>3

LEMMA ForegroundMoves ==
  ASSUME ProtectInv, TypeOK', NEW n \in Names, ForegroundDone(n) PROVE AbstractStep
<1>0. /\ TypeOK /\ cr[Keda] \in CRType /\ cr \in [Names -> CRType]
      /\ UNCHANGED <<cache, obj, pc>>
  BY KedaType DEF ProtectInv, TypeOK, ForegroundDone, worker
<1>1. CASE n # Keda
  <2>1. cr'[Keda] = cr[Keda]
    BY <1>0, <1>1, NamesAssumption DEF ForegroundDone
  <2> QED BY <1>0, <2>1, SamePhase, PhaseMoves
<1>2. CASE n = Keda
  <2> DEFINE new == cr[Keda].finalizers \ {Foreground}
  <2>1. cr'[Keda] = SetFinalizers(cr[Keda], new) /\ cr[Keda].life = "deleting"
    BY <1>0, <1>2, NamesAssumption DEF ForegroundDone
  <2>2. new \subseteq {Fin, Foreground} /\ (Fin \in new <=> Fin \in cr[Keda].finalizers)
    BY <1>0 DEF CRType, Fin, Foreground
  <2>3. /\ cr'[Keda].uid = cr[Keda].uid /\ cr'[Keda].finalizers = new
        /\ \/ cr'[Keda].life = cr[Keda].life
           \/ cr'[Keda].life = "absent" /\ new = {}
    BY <1>0, <2>1, <2>2, SetFinalizersCases
  <2> HIDE DEF new
  <2>4. CASE cr'[Keda].life = cr[Keda].life
    BY <1>0, <2>2, <2>3, <2>4, SamePhase, PhaseMoves
  <2>5. CASE cr'[Keda].life = "absent" /\ new = {}
    <3>1. LifePhase = "released"
      BY <1>0, <2>1, <2>2, <2>5, PhaseCases
    <3>2. LifePhase' = "absent"
      BY <2>5 DEF LifePhase
    <3> QED BY <1>0, <3>1, <3>2, PhaseMoves
  <2> QED BY <2>3, <2>4, <2>5
<1> QED BY <1>1, <1>2

LEMMA RefineStep ==
  ProtectInv /\ ProtectInv' /\ StaleInv /\ [Next]_vars => AbstractStep
<1> SUFFICES ASSUME ProtectInv, ProtectInv', StaleInv, [Next]_vars PROVE AbstractStep
  OBVIOUS
<1>0. TypeOK /\ TypeOK' /\ cr \in [Names -> CRType] /\ cache \in [Names -> CRType]
  BY DEF ProtectInv, TypeOK
<1> USE DEF InstallPCs, FinalizePCs, FinalizedGroups
<1>1. CASE UNCHANGED vars \/ \E n \in Names : BeginFails(n)
  BY <1>0, <1>1, SamePhase, PhaseMoves DEF vars, worker, BeginFails
<1>2. ASSUME NEW n \in Names, Begin(n) PROVE AbstractStep
  BY <1>0, <1>2, BeginMoves
<1>3. CASE MarkIgnored \/ MarkInstallSucceeded \/ ReportFailure
  <2>1. pc' = "idle" /\ UNCHANGED <<cache, obj>>
    BY <1>3 DEF MarkIgnored, MarkInstallSucceeded, ReportFailure, Done, Requeue, Return
  <2> QED BY <1>0, <1>3, <2>1, StatusReportTame, EndsMove
<1>4. CASE addFinalizer
  BY <1>0, <1>4, AddFinalizerMoves
<1>5. CASE installGeneralResources
  BY <1>0, <1>5, InstallMoves DEF installGeneralResources, Goto, MarkInstallFailed
<1>6. CASE installController
  BY <1>0, <1>6, InstallMoves DEF installController, InstallStage, Goto, MarkInstallFailed
<1>7. CASE installMetricsServer
  BY <1>0, <1>7, InstallMoves DEF installMetricsServer, InstallStage, Goto, MarkInstallFailed
<1>8. CASE installAdmissionWebhooks
  BY <1>0, <1>8, InstallMoves DEF installAdmissionWebhooks, InstallStage, Goto, MarkInstallFailed
<1>9. CASE installMonitoring
  BY <1>0, <1>9, InstallMoves DEF installMonitoring, InstallStage, Goto, MarkInstallFailed
<1>10. CASE installHTTPAddon
  BY <1>0, <1>10, InstallMoves
     DEF installHTTPAddon, disableHTTPAddon, enableHTTPAddon, Goto, MarkInstallFailed
<1>11. CASE ensurePrometheusMonitoringRBAC
  BY <1>0, <1>11, InstallMoves
     DEF ensurePrometheusMonitoringRBAC, InstallStage, Goto, MarkInstallFailed
<1>12. CASE deleteHTTPAddon
  BY <1>0, <1>12, FinalizeMoves DEF deleteHTTPAddon
<1>13. CASE deleteGeneral
  BY <1>0, <1>13, FinalizeMoves DEF deleteGeneral
<1>14. CASE deleteController
  BY <1>0, <1>14, FinalizeMoves DEF deleteController
<1>15. CASE deleteMetrics
  BY <1>0, <1>15, FinalizeMoves DEF deleteMetrics
<1>16. CASE RemoveFinalizer
  BY <1>0, <1>16, RemoveFinalizerMoves
<1>17. ASSUME NEW n \in Names, CacheSync(n) PROVE AbstractStep
  <2>1. UNCHANGED <<cr, obj, pc>> /\ cache'[Keda] \in {cache[Keda], cr[Keda]}
    BY <1>0, <1>17, NamesAssumption DEF CacheSync, worker
  <2> QED BY <1>0, <2>1, EndsMove
<1>18. CASE Restart
  BY <1>0, <1>18, EndsMove DEF Restart, Return
<1>19. CASE User
  BY <1>0, <1>19, UserMoves
<1>20. ASSUME NEW o \in Objects, Collect(o) \/ OutsideDelete(o) PROVE AbstractStep
  <2>1. Shrinks
    BY <1>0, <1>20, RemoveOneShrinks
  <2>2. UNCHANGED <<cr, cache, pc>>
    BY <1>20 DEF Collect, OutsideDelete, worker
  <2>3. LifePhase' = LifePhase
    BY <1>0, <2>2, SamePhase
  <2> QED BY <2>1, <2>3, OperandsGo
<1>21. ASSUME NEW n \in Names, ForegroundDone(n) PROVE AbstractStep
  BY <1>0, <1>21, ForegroundMoves
<1> QED
  BY <1>1, <1>2, <1>3, <1>4, <1>5, <1>6, <1>7, <1>8, <1>9, <1>10, <1>11, <1>12, <1>13,
     <1>14, <1>15, <1>16, <1>17, <1>18, <1>19, <1>20, <1>21
  DEF Next, Reconcile, Install, Finalize, Collector

LEMMA RefineInit == Init => Life!Init
<1> SUFFICES ASSUME Init PROVE Life!Init
  OBVIOUS
<1>1. cr[Keda] = Gone(0)
  BY NamesAssumption DEF Init
<1>2. LifePhase = "absent"
  BY <1>1, GoneFields DEF LifePhase
<1>3. ProtectInv /\ ~Held(cr[Keda])
  BY <1>1, ProtectInit, GoneFields DEF Held
<1>4. Remaining = {}
  BY <1>3, NothingRemains
<1> QED BY <1>2, <1>4 DEF Life!Init, Remaining

\* The reconciler implements Lifecycle: nothing is installed before Reconcile has
\* added the finalizer; once the operator has read that the KedaController is deleted
\* and the install under way has ended, operands only go, across failed deletions,
\* stale reads and restarts; and RemoveFinalizer lets go only when none is left.
THEOREM LifecycleImplemented == Spec => ImplementsLifecycle
<1>1. ProtectInv /\ ProtectInv' /\ StaleInv /\ [Next]_vars => [Life!Next]_(Life!lifecycle)
  BY RefineStep DEF AbstractStep
<1> QED
  BY <1>1, RefineInit, ProtectAlways, StaleAlways, PTL
     DEF Spec, ImplementsLifecycle, Life!Spec

-----------------------------------------------------------------------------
(***************************************************************************)
(* What the status of the KedaController says is true: proofs of           *)
(* SucceededIsTrue and ForgetAddonOnlyWhenGone of KedaReconciler, for      *)
(* every value of the constants.                                           *)
(***************************************************************************)

\* The manifests every install applies, and where the worker is once they are
\* through.
CoreGroups == {"general", "controller", "metrics", "webhooks"}

Through(g) ==
    {"monitoring", "addon", "prometheus", "succeed"}
      \cup (IF g \in {"general", "controller", "metrics"} THEN {"webhooks"} ELSE {})
      \cup (IF g \in {"general", "controller"} THEN {"metrics"} ELSE {})
      \cup (IF g = "general" THEN {"controller"} ELSE {})

AsRendered(g) ==
    \A o \in Operands(g) :
       IF o \in Unwanted(inst.spec) THEN obj[o] = NoObj
       ELSE \/ obj[o] = Rendered(o)
            \/ obj[o] = Removed /\ o \notin Deployments \cap Owned

\* The reconcile under way cannot be the last word about the resource.
Excused == Keda \in queue \/ cr[Keda].life = "deleting"

\* What the stages behind the worker have applied is still there, and a failure
\* is reported as one.
StageInv ==
    /\ pc = "fail" => status.phase = "Failed"
    /\ Excused \/ \A g \in CoreGroups : pc \in Through(g) => AsRendered(g)

\* The memory of the add-on in the status to be written: as read before the stage
\* of the add-on, and dropped in it only together with the add-on.
AddonInv ==
    /\ pc \in {"general", "controller", "metrics", "webhooks", "monitoring", "addon"} =>
          status.addon = inst.addon
    /\ pc \in {"prometheus", "succeed", "fail"} =>
          status.addon # "nil" \/ inst.addon = "nil" \/ NonePresent("addon")

\* What a step that does not write the status may do to it: only a resource that
\* starts over, without the finalizer, loses its entries.
Untold(c, d) == d.phase \in {c.phase, ""} /\ (Held(d) => d.addon = c.addon)

-----------------------------------------------------------------------------
(* Writes of one manifest do not concern the others *)

LEMMA ApplyElsewhere ==
  ASSUME TypeOK, NEW g \in Group, NEW h \in Group, g # h,
         NEW k \in 0..Len(Manifest[g]), Apply(g, k) \/ Delete(g, k), NEW o \in Operands(h)
  PROVE  obj'[o] = obj[o]
<1>1. o \in Objects /\ o \notin Operands(g)
  BY OperandsInObjects, ManifestAssumption
<1>2. Len(Manifest[g]) \in Nat
  BY ManifestAssumption
<1>3. FirstOf(g, k) \subseteq Operands(g) /\ AfterOf(g, k) \subseteq Operands(g)
  BY <1>2 DEF FirstOf, AfterOf, Operands
<1>4. o \notin FirstOf(g, k) /\ o \notin AfterOf(g, k)
  BY <1>1, <1>3
<1> QED BY <1>1, <1>4 DEF Apply, Delete, Write

LEMMA ApplyHere ==
  ASSUME TypeOK, NEW g \in Group \ {"general"}, Apply(g, Len(Manifest[g])),
         NEW o \in Operands(g)
  PROVE  o \notin Unwanted(inst.spec) /\ obj'[o] = Rendered(o)
<1>1. o \in Objects
  BY OperandsInObjects
<1>2. o \in FirstOf(g, Len(Manifest[g]))
  BY DEF FirstOf, Operands
<1>3. "general" \in Group /\ g # "general"
  BY DEF Group
<1>4. o # EgressPolicy
  BY <1>3, ManifestAssumption, ClusterAssumption
<1>5. o \notin Unwanted(inst.spec)
  BY <1>4 DEF Unwanted
<1> QED BY <1>1, <1>2, <1>5 DEF Apply, Write

LEMMA GeneralHere ==
  ASSUME TypeOK, installGeneralResources, pc' # "fail", NEW o \in Operands("general")
  PROVE  obj'[o] = IF o \in Unwanted(inst.spec) THEN NoObj ELSE Rendered(o)
<1> DEFINE deleted(p) == IF p \in Unwanted(inst.spec) THEN NoObj ELSE obj[p]
           upTo(k) == [p \in Objects |->
                         IF p \in FirstOf("general", k) \ Unwanted(inst.spec)
                         THEN Rendered(p) ELSE deleted(p)]
<1>1. o \in Objects
  BY OperandsInObjects DEF Group
<1>2. o \in FirstOf("general", Len(Manifest["general"]))
  BY DEF FirstOf, Operands
<1>3. obj' = upTo(Len(Manifest["general"]))
  BY DEF installGeneralResources, Write, MarkInstallFailed
<1> QED BY <1>1, <1>2, <1>3

\* The queue loses a request only when the worker takes it.
LEMMA WriteQueues == ASSUME NEW new, Write(new) PROVE queue \subseteq queue'
BY DEF Write

LEMMA CoreGroupsAreGroups ==
  /\ CoreGroups \subseteq Group
  /\ {"monitoring", "addon", "prometheus", "controller", "metrics", "webhooks"}
        \subseteq Group \ {"general"}
  /\ {"monitoring", "addon", "prometheus"} \cap CoreGroups = {}
BY DEF CoreGroups, Group

-----------------------------------------------------------------------------
(* The stages behind the worker *)

\* A stage of another manifest.
LEMMA StageElsewhere ==
  ASSUME TypeOK, NEW g \in Group, NEW h \in Group, g # h,
         NEW k \in 0..Len(Manifest[g]), Apply(g, k) \/ Delete(g, k),
         AsRendered(h), UNCHANGED inst
  PROVE  AsRendered(h)'
<1>1. \A o \in Operands(h) : obj'[o] = obj[o]
  BY ApplyElsewhere
<1> QED BY <1>1 DEF AsRendered, Rendered

LEMMA StageHere ==
  ASSUME TypeOK, NEW g \in Group \ {"general"}, Apply(g, Len(Manifest[g])), UNCHANGED inst
  PROVE  AsRendered(g)'
<1>1. \A o \in Operands(g) : o \notin Unwanted(inst.spec) /\ obj'[o] = Rendered(o)
  BY ApplyHere
<1> QED BY <1>1 DEF AsRendered, Rendered

\* One stage hands over to the next: its own manifest, if it is a core one, has
\* been applied, and the others have not been touched.
LEMMA StageKeeps ==
  ASSUME TypeOK, StageInv, UNCHANGED <<cr, inst>>, NEW g \in Group \ {"general"},
         NEW next,
         \/ Apply(g, Len(Manifest[g])) /\ pc' = next
         \/ UNCHANGED <<obj, queue>> /\ pc' = next /\ g \notin CoreGroups
         \/ Delete(g, 0) /\ pc' = next /\ g \notin CoreGroups
         \/ /\ \E k \in 0..Len(Manifest[g]) : Apply(g, k) \/ Delete(g, k)
            /\ pc' = "fail" /\ status'.phase = "Failed",
         \A h \in CoreGroups : next \in Through(h) => pc \in Through(h) \/ h = g,
         next # "fail"
  PROVE  StageInv'
<1>0. Len(Manifest[g]) \in Nat
  BY ManifestAssumption
<1>1. queue \subseteq queue'
  BY WriteQueues DEF Apply, Delete
<1>2. Excused => Excused'
  BY <1>1 DEF Excused
<1>3. CASE pc' = "fail" /\ status'.phase = "Failed"
  BY <1>3 DEF StageInv, Through
<1>4. CASE pc' = next /\ (Apply(g, Len(Manifest[g])) \/ ((UNCHANGED <<obj, queue>> \/ Delete(g, 0)) /\ g \notin CoreGroups))
  <2>1. ASSUME NEW h \in CoreGroups, next \in Through(h), ~Excused PROVE AsRendered(h)'
    <3>1. CASE h = g
      <4>1. Apply(g, Len(Manifest[g]))
        BY <1>4, <3>1
      <4> QED BY <3>1, <4>1, StageHere
    <3>2. CASE h # g
      <4>1. AsRendered(h)
        BY <2>1, <3>2 DEF StageInv
      <4>2. CASE UNCHANGED <<obj, queue>>
        BY <4>1, <4>2 DEF AsRendered, Rendered
      <4>3. CASE Apply(g, Len(Manifest[g])) \/ Delete(g, 0)
        <5>1. 0 \in 0..Len(Manifest[g]) /\ Len(Manifest[g]) \in 0..Len(Manifest[g])
          BY <1>0
        <5>2. h \in Group
          BY CoreGroupsAreGroups
        <5> QED BY <3>2, <4>1, <4>3, <5>1, <5>2, StageElsewhere
      <4> QED BY <1>4, <4>2, <4>3
    <3> QED BY <3>1, <3>2
  <2> QED BY <1>2, <1>4, <2>1 DEF StageInv
<1> QED BY <1>3, <1>4

LEMMA InstallStageKeeps ==
  ASSUME TypeOK, StageInv, UNCHANGED cr, NEW g \in Group \ {"general"}, NEW next,
         InstallStage(g, next), next # "fail",
         \A h \in CoreGroups : next \in Through(h) => pc \in Through(h) \/ h = g
  PROVE  StageInv'
<1>1. UNCHANGED inst
  BY DEF InstallStage, Goto, MarkInstallFailed
<1>2. \/ Apply(g, Len(Manifest[g])) /\ pc' = next
      \/ /\ \E k \in 0..Len(Manifest[g]) : Apply(g, k)
         /\ pc' = "fail" /\ status'.phase = "Failed"
  BY DEF InstallStage, Goto, MarkInstallFailed
<1> QED BY <1>1, <1>2, StageKeeps

\* Outside the stages there is nothing to keep.
LEMMA StageOutside ==
  ASSUME pc' \notin {"fail", "controller", "metrics", "webhooks", "monitoring", "addon",
                     "prometheus", "succeed"}
  PROVE  StageInv'
BY DEF StageInv, Through

\* A deleted resource that an install works on stays a deleted one.
LEMMA DeletingStays ==
  ASSUME ProtectInv, ProtectInv', pc \in InstallPCs, UNCHANGED worker,
         Tame(cr[Keda], cr'[Keda]), cr[Keda].life = "deleting"
  PROVE  cr'[Keda].life = "deleting"
<1>1. cr[Keda].uid \in Nat /\ cr'[Keda] \in CRType
  BY KedaType, NamesAssumption DEF ProtectInv, TypeOK
<1>2. Held(cr'[Keda]) /\ cr'[Keda].uid = cr[Keda].uid
  BY DEF ProtectInv, WorkerInv, worker
<1> QED BY <1>1, <1>2 DEF Tame, Held, CRType

\* The resource changes under a running install.
LEMMA ResourceKeeps ==
  ASSUME ProtectInv, ProtectInv', StageInv, UNCHANGED <<queue, obj>>, UNCHANGED worker,
         Tame(cr[Keda], cr'[Keda])
  PROVE  StageInv'
<1>1. CASE pc \notin InstallPCs
  BY <1>1, StageOutside DEF worker, InstallPCs
<1>2. CASE pc \in InstallPCs
  <2>1. Excused => Excused'
    BY <1>2, DeletingStays DEF Excused
  <2>2. \A g \in CoreGroups : AsRendered(g) => AsRendered(g)'
    BY DEF AsRendered, Rendered, worker
  <2> QED BY <2>1, <2>2 DEF StageInv, worker
<1> QED BY <1>1, <1>2

\* An operand is removed behind the worker's back: a watched Deployment queues
\* the next reconcile, another operand counts as removed by others, and the garbage
\* collector takes what was rendered for this resource only when it is being deleted.
LEMMA RemovalKeeps ==
  ASSUME ProtectInv, StageInv, NEW p \in Objects, Collect(p) \/ OutsideDelete(p)
  PROVE  StageInv'
<1>0. /\ TypeOK /\ obj \in [Objects -> ObjType] /\ UNCHANGED cr /\ UNCHANGED worker
      /\ Present(p) /\ queue \subseteq queue'
  BY WriteQueues DEF ProtectInv, TypeOK, Collect, Collectable, OutsideDelete
<1>1. obj[p] # NoObj /\ obj[p] # Removed
  BY <1>0, RemovedFields DEF Present, NoObj
<1>2. \A o \in Objects \ {p} : obj'[o] = obj[o]
  BY <1>0 DEF Collect, OutsideDelete, Write
<1>3. CASE pc \notin InstallPCs
  BY <1>0, <1>3, StageOutside DEF worker, InstallPCs
<1>4. CASE OutsideDelete(p) /\ p \in Deployments \cap Owned
  <2>1. Keda \in queue'
    BY <1>0, <1>1, <1>4 DEF OutsideDelete, Write
  <2> QED BY <1>0, <2>1 DEF StageInv, Excused, worker
<1>5. CASE OutsideDelete(p) /\ p \notin Deployments \cap Owned
  <2>1. obj'[p] = Removed
    BY <1>0, <1>5 DEF OutsideDelete, Write
  <2>2. Excused => Excused'
    BY <1>0 DEF Excused
  <2>3. ASSUME NEW g \in CoreGroups, AsRendered(g) PROVE AsRendered(g)'
    <3> SUFFICES ASSUME NEW o \in Operands(g)
                 PROVE  IF o \in Unwanted(inst.spec) THEN obj'[o] = NoObj
                        ELSE \/ obj'[o] = Rendered(o)
                             \/ obj'[o] = Removed /\ o \notin Deployments \cap Owned
      BY <1>0 DEF AsRendered, Rendered, worker
    <3>1. CASE o = p
      BY <1>1, <1>5, <2>1, <2>3, <3>1 DEF AsRendered
    <3>2. CASE o # p
      BY <1>2, <2>3, <3>2, OperandsInObjects, CoreGroupsAreGroups DEF AsRendered
    <3> QED BY <3>1, <3>2
  <2> QED BY <1>0, <2>2, <2>3 DEF StageInv, worker
<1>6. CASE pc \in InstallPCs /\ Collect(p)
  <2>1. Excused => Excused'
    BY <1>0 DEF Excused
  <2>2. ASSUME ~Excused, NEW g \in CoreGroups, AsRendered(g) PROVE AsRendered(g)'
    <3>1. Held(cr[Keda]) /\ cr[Keda].uid = inst.uid
      BY <1>6 DEF ProtectInv, WorkerInv
    <3>2. obj[p].owner # inst.uid /\ obj[p].owner # 0
      BY <1>6, <2>2, <3>1 DEF Collect, Collectable, Excused, Held
    <3>3. obj[p] # Rendered(p)
      BY <3>2 DEF Rendered
    <3>4. p \notin Operands(g)
      BY <1>1, <2>2, <3>3 DEF AsRendered
    <3>5. \A o \in Operands(g) : obj'[o] = obj[o]
      BY <1>2, <3>4, OperandsInObjects, CoreGroupsAreGroups
    <3> QED BY <1>0, <2>2, <3>5 DEF AsRendered, Rendered, worker
  <2> QED BY <1>0, <2>1, <2>2 DEF StageInv, worker
<1> QED BY <1>3, <1>4, <1>5, <1>6

LEMMA AddonStageKeeps ==
  ASSUME TypeOK, StageInv, installHTTPAddon PROVE StageInv'
<1>1. /\ pc = "addon" /\ UNCHANGED <<cr, inst>>
      /\ "addon" \in Group \ {"general"} /\ "addon" \notin CoreGroups
  BY CoreGroupsAreGroups
     DEF installHTTPAddon, disableHTTPAddon, enableHTTPAddon, Goto, MarkInstallFailed
<1>2. \/ Apply("addon", Len(Manifest["addon"])) /\ pc' = "prometheus"
      \/ UNCHANGED <<obj, queue>> /\ pc' = "prometheus"
      \/ Delete("addon", 0) /\ pc' = "prometheus"
      \/ /\ \E k \in 0..Len(Manifest["addon"]) : Apply("addon", k) \/ Delete("addon", k)
         /\ pc' = "fail" /\ status'.phase = "Failed"
  BY DEF installHTTPAddon, disableHTTPAddon, enableHTTPAddon, Goto, MarkInstallFailed
<1>3. \A h \in CoreGroups : "prometheus" \in Through(h) => pc \in Through(h) \/ h = "addon"
  BY <1>1 DEF Through
<1> QED BY <1>1, <1>2, <1>3, StageKeeps

LEMMA StageStep ==
  ProtectInv /\ ProtectInv' /\ StageInv /\ [Next]_vars => StageInv'
<1> SUFFICES ASSUME ProtectInv, ProtectInv', StageInv, [Next]_vars PROVE StageInv'
  OBVIOUS
<1>0. /\ TypeOK /\ cr \in [Names -> CRType] /\ cache \in [Names -> CRType]
      /\ cr[Keda].uid \in Nat
  BY KedaType DEF ProtectInv, TypeOK
<1>1. CASE UNCHANGED vars \/ \E n \in Names : BeginFails(n)
  BY <1>1 DEF vars, worker, BeginFails, StageInv, Excused, AsRendered, Rendered
<1>2. ASSUME NEW n \in Names, Begin(n) PROVE StageInv'
  <2>1. CASE UNCHANGED worker
    BY <1>2, <2>1, StageOutside DEF Begin, worker
  <2>2. CASE /\ pc' = Dispatch(n, cache[n])
             /\ status' = IF Dispatch(n, cache[n]) = "fail"
                          THEN [StatusOf(cache[n]) EXCEPT !.phase = "Failed"]
                          ELSE StatusOf(cache[n])
    <3>1. cache[n].life \in {"absent", "live", "deleting"}
      BY <1>0 DEF CRType
    <3>2. pc' \in {"idle", "ignore", "addFinalizer", "delAddon", "fail", "general"}
      BY <2>2, <3>1 DEF Dispatch
    <3>3. pc' = "fail" => status'.phase = "Failed"
      BY <2>2 DEF StatusOf
    <3> QED BY <3>2, <3>3 DEF StageInv, Through
  <2> QED BY <1>2, <2>1, <2>2 DEF Begin
<1>3. CASE MarkIgnored \/ MarkInstallSucceeded \/ ReportFailure \/ addFinalizer
             \/ RemoveFinalizer \/ Restart
  BY <1>3, StageOutside
     DEF MarkIgnored, MarkInstallSucceeded, ReportFailure, addFinalizer, RemoveFinalizer,
         Restart, FinalizerPatch, Done, Requeue, Return
<1>4. CASE deleteHTTPAddon \/ deleteGeneral \/ deleteController \/ deleteMetrics
  BY <1>4, StageOutside
     DEF deleteHTTPAddon, deleteGeneral, deleteController, deleteMetrics, FinalizeStage,
         Goto, Requeue, Return
<1>5. CASE installGeneralResources
  <2>1. UNCHANGED <<cr, inst>> /\ queue \subseteq queue'
    BY <1>5, WriteQueues DEF installGeneralResources, Goto, MarkInstallFailed
  <2>2. CASE pc' = "fail" /\ status'.phase = "Failed"
    BY <2>2 DEF StageInv, Through
  <2>3. CASE pc' = "controller"
    <3>1. AsRendered("general")'
      BY <1>0, <1>5, <2>1, <2>3, GeneralHere DEF AsRendered, Rendered
    <3>2. \A g \in CoreGroups : pc' \in Through(g) => g = "general"
      BY <2>3 DEF Through, CoreGroups
    <3> QED BY <2>3, <3>1, <3>2 DEF StageInv
  <2> QED BY <1>5, <2>2, <2>3 DEF installGeneralResources, Goto, MarkInstallFailed
<1> USE CoreGroupsAreGroups
<1>6. CASE installController
  <2>1. \A h \in CoreGroups : "metrics" \in Through(h) => pc \in Through(h) \/ h = "controller"
    BY <1>6 DEF Through, CoreGroups, installController
  <2> QED BY <1>0, <1>6, <2>1, InstallStageKeeps DEF installController
<1>7. CASE installMetricsServer
  <2>1. \A h \in CoreGroups : "webhooks" \in Through(h) => pc \in Through(h) \/ h = "metrics"
    BY <1>7 DEF Through, CoreGroups, installMetricsServer
  <2> QED BY <1>0, <1>7, <2>1, InstallStageKeeps DEF installMetricsServer
<1>8. CASE installAdmissionWebhooks
  <2>1. \A h \in CoreGroups : "monitoring" \in Through(h) => pc \in Through(h) \/ h = "webhooks"
    BY <1>8 DEF Through, CoreGroups, installAdmissionWebhooks
  <2> QED BY <1>0, <1>8, <2>1, InstallStageKeeps DEF installAdmissionWebhooks
<1>9. CASE installMonitoring
  <2>1. \A h \in CoreGroups : "addon" \in Through(h) => pc \in Through(h) \/ h = "monitoring"
    BY <1>9 DEF Through, CoreGroups, installMonitoring
  <2>2. CASE InstallStage("monitoring", "addon")
    BY <1>0, <1>9, <2>1, <2>2, InstallStageKeeps DEF installMonitoring
  <2>3. CASE Goto("addon") /\ UNCHANGED <<obj, queue>>
    BY <1>0, <1>9, <2>1, <2>3, StageKeeps DEF installMonitoring, Goto
  <2> QED BY <1>9, <2>2, <2>3 DEF installMonitoring
<1>10. CASE installHTTPAddon
  BY <1>0, <1>10, AddonStageKeeps
<1>11. CASE ensurePrometheusMonitoringRBAC
  <2>1. \A h \in CoreGroups : "succeed" \in Through(h) => pc \in Through(h) \/ h = "prometheus"
    BY <1>11 DEF Through, CoreGroups, ensurePrometheusMonitoringRBAC
  <2>2. CASE InstallStage("prometheus", "succeed")
    BY <1>0, <1>11, <2>1, <2>2, InstallStageKeeps DEF ensurePrometheusMonitoringRBAC
  <2>3. CASE Goto("succeed") /\ UNCHANGED <<obj, queue>>
    BY <1>0, <1>11, <2>1, <2>3, StageKeeps DEF ensurePrometheusMonitoringRBAC, Goto
  <2> QED BY <1>11, <2>2, <2>3 DEF ensurePrometheusMonitoringRBAC
<1>12. ASSUME NEW n \in Names, CacheSync(n) PROVE StageInv'
  BY <1>12 DEF CacheSync, worker, StageInv, Excused, AsRendered, Rendered
<1>13. CASE User
  <2>1. UNCHANGED <<queue, obj>> /\ UNCHANGED worker
    BY <1>13 DEF User, UserCreate, UserEdit, UserDelete
  <2> QED BY <1>13, <2>1, UserTame, ResourceKeeps
<1>14. ASSUME NEW n \in Names, ForegroundDone(n) PROVE StageInv'
  <2>1. UNCHANGED <<queue, obj>> /\ UNCHANGED worker
    BY <1>14 DEF ForegroundDone
  <2> QED BY <1>14, <2>1, ForegroundTame, ResourceKeeps
<1>15. ASSUME NEW o \in Objects, Collect(o) \/ OutsideDelete(o) PROVE StageInv'
  BY <1>15, RemovalKeeps
<1> QED
  BY <1>1, <1>2, <1>3, <1>4, <1>5, <1>6, <1>7, <1>8, <1>9, <1>10, <1>11, <1>12,
     <1>13, <1>14, <1>15
  DEF Next, Reconcile, Install, Finalize, Collector

-----------------------------------------------------------------------------
(* The memory of the add-on *)

BeforeAddon == {"general", "controller", "metrics", "webhooks", "monitoring", "addon"}

\* A stage other than the add-on's carries the memory along.
LEMMA AddonCarried ==
  ASSUME AddonInv, UNCHANGED inst, status'.addon = status.addon,
         \/ pc \in BeforeAddon /\ pc' \in BeforeAddon \cup {"fail"}
         \/ /\ pc \in {"prometheus", "succeed", "fail"} /\ pc' \in {"succeed", "fail", pc}
            /\ NonePresent("addon") => NonePresent("addon")'
  PROVE  AddonInv'
BY DEF AddonInv, BeforeAddon

LEMMA AddonOutside ==
  ASSUME pc' \notin BeforeAddon \cup {"prometheus", "succeed", "fail"}
  PROVE  AddonInv'
BY DEF AddonInv, BeforeAddon

\* What others do to the operands only makes the add-on go.
LEMMA AddonShrinks ==
  ASSUME AddonInv, UNCHANGED worker, Shrinks \/ UNCHANGED obj PROVE AddonInv'
<1>1. NonePresent("addon") => NonePresent("addon")'
  BY ShrinksKeeps DEF NonePresent, Present, Group
<1> QED BY <1>1 DEF AddonInv, worker

LEMMA AddonStageRemembers ==
  ASSUME TypeOK, AddonInv, installHTTPAddon PROVE AddonInv'
<1>1. /\ pc = "addon" /\ UNCHANGED inst /\ status.addon = inst.addon
      /\ "addon" \in Group
  BY DEF AddonInv, installHTTPAddon, disableHTTPAddon, enableHTTPAddon, Goto,
         MarkInstallFailed, Group
<1>2. CASE Goto("prometheus") /\ status.addon = "nil"
  BY <1>1, <1>2 DEF AddonInv, Goto
<1>3. CASE pc' \in {"prometheus", "fail"} /\ status'.addon # "nil"
  BY <1>3 DEF AddonInv
<1>4. CASE Delete("addon", 0) /\ pc' = "prometheus"
  <2>1. NonePresent("addon")'
    BY <1>1, <1>4, DeleteShrinks DEF Delete, Write
  <2> QED BY <1>4, <2>1 DEF AddonInv
<1>5. \/ Goto("prometheus") /\ status.addon = "nil"
      \/ pc' \in {"prometheus", "fail"} /\ status'.addon # "nil"
      \/ Delete("addon", 0) /\ pc' = "prometheus"
  <2>1. CASE disableHTTPAddon
    BY <2>1 DEF disableHTTPAddon, MarkInstallFailed
  <2>2. CASE enableHTTPAddon
    <3>1. CASE pc' = "prometheus" /\ status' = [status EXCEPT !.addon = "Succeeded"]
      BY <3>1 DEF TypeOK, StatusType
    <3>2. CASE pc' = "fail" /\ status' = [phase |-> "Failed", addon |-> "Failed"]
      BY <3>2
    <3> QED BY <2>2, <3>1, <3>2 DEF enableHTTPAddon, MarkInstallFailed
  <2> QED BY <2>1, <2>2 DEF installHTTPAddon
<1> QED BY <1>2, <1>3, <1>4, <1>5

LEMMA AddonStep == ProtectInv /\ AddonInv /\ [Next]_vars => AddonInv'
<1> SUFFICES ASSUME ProtectInv, AddonInv, [Next]_vars PROVE AddonInv'
  OBVIOUS
<1>0. TypeOK /\ cache \in [Names -> CRType]
  BY DEF ProtectInv, TypeOK
<1>1. CASE UNCHANGED vars \/ \E n \in Names : BeginFails(n)
  BY <1>1, AddonShrinks DEF vars, worker, BeginFails
<1>2. ASSUME NEW n \in Names, Begin(n) PROVE AddonInv'
  <2>1. CASE UNCHANGED worker
    BY <1>2, <2>1, AddonShrinks DEF Begin
  <2>2. CASE /\ pc' = Dispatch(n, cache[n]) /\ inst' = cache[n]
             /\ status' = IF Dispatch(n, cache[n]) = "fail"
                          THEN [StatusOf(cache[n]) EXCEPT !.phase = "Failed"]
                          ELSE StatusOf(cache[n])
    <3>1. cache[n].life \in {"absent", "live", "deleting"}
      BY <1>0 DEF CRType
    <3>2. pc' \in {"idle", "ignore", "addFinalizer", "delAddon", "fail", "general"}
      BY <2>2, <3>1 DEF Dispatch
    <3>3. status'.addon = inst'.addon
      BY <2>2 DEF StatusOf
    <3> QED BY <3>2, <3>3 DEF AddonInv
  <2> QED BY <1>2, <2>1, <2>2 DEF Begin
<1>3. CASE MarkIgnored \/ MarkInstallSucceeded \/ ReportFailure \/ addFinalizer
             \/ RemoveFinalizer \/ Restart
  BY <1>3, AddonOutside
     DEF MarkIgnored, MarkInstallSucceeded, ReportFailure, addFinalizer, RemoveFinalizer,
         Restart, FinalizerPatch, Done, Requeue, Return, BeforeAddon
<1>4. CASE deleteHTTPAddon \/ deleteGeneral \/ deleteController \/ deleteMetrics
  BY <1>4, AddonOutside
     DEF deleteHTTPAddon, deleteGeneral, deleteController, deleteMetrics, FinalizeStage,
         Goto, Requeue, Return, BeforeAddon
<1>5. CASE installGeneralResources
  BY <1>5, AddonCarried DEF installGeneralResources, Goto, MarkInstallFailed, BeforeAddon
<1>6. CASE installController
  BY <1>6, AddonCarried DEF installController, InstallStage, Goto, MarkInstallFailed, BeforeAddon
<1>7. CASE installMetricsServer
  BY <1>7, AddonCarried DEF installMetricsServer, InstallStage, Goto, MarkInstallFailed, BeforeAddon
<1>8. CASE installAdmissionWebhooks
  BY <1>8, AddonCarried
     DEF installAdmissionWebhooks, InstallStage, Goto, MarkInstallFailed, BeforeAddon
<1>9. CASE installMonitoring
  BY <1>9, AddonCarried
     DEF installMonitoring, InstallStage, Goto, MarkInstallFailed, BeforeAddon
<1>10. CASE installHTTPAddon
  BY <1>0, <1>10, AddonStageRemembers
<1>11. CASE ensurePrometheusMonitoringRBAC
  <2>1. /\ pc = "prometheus" /\ pc' \in {"succeed", "fail"} /\ UNCHANGED inst
        /\ status'.addon = status.addon
        /\ \/ \E k \in 0..Len(Manifest["prometheus"]) : Apply("prometheus", k)
           \/ UNCHANGED obj
    <3>1. Len(Manifest["prometheus"]) \in Nat
      BY ManifestAssumption DEF Group
    <3>2. Len(Manifest["prometheus"]) \in 0..Len(Manifest["prometheus"])
      BY <3>1
    <3> QED BY <1>11, <3>2 DEF ensurePrometheusMonitoringRBAC, InstallStage, Goto, MarkInstallFailed
  <2>2. NonePresent("addon") => NonePresent("addon")'
    <3>1. CASE UNCHANGED obj
      BY <3>1 DEF NonePresent, Present
    <3>2. CASE \E k \in 0..Len(Manifest["prometheus"]) : Apply("prometheus", k)
      <4>1. \A o \in Operands("addon") : obj'[o] = obj[o]
        BY <1>0, <3>2, ApplyElsewhere DEF Group
      <4> QED BY <4>1 DEF NonePresent, Present
    <3> QED BY <2>1, <3>1, <3>2
  <2> QED BY <2>1, <2>2, AddonCarried
<1>12. ASSUME NEW n \in Names, CacheSync(n) \/ ForegroundDone(n) PROVE AddonInv'
  BY <1>12, AddonShrinks DEF CacheSync, ForegroundDone
<1>13. CASE User
  BY <1>13, AddonShrinks DEF User, UserCreate, UserEdit, UserDelete
<1>14. ASSUME NEW o \in Objects, Collect(o) \/ OutsideDelete(o) PROVE AddonInv'
  BY <1>0, <1>14, RemoveOneShrinks, AddonShrinks DEF Collect, OutsideDelete
<1> QED
  BY <1>1, <1>2, <1>3, <1>4, <1>5, <1>6, <1>7, <1>8, <1>9, <1>10, <1>11, <1>12,
     <1>13, <1>14
  DEF Next, Reconcile, Install, Finalize, Collector

LEMMA StatusInit == Init => StageInv /\ AddonInv
BY DEF Init, StageInv, AddonInv, Through

LEMMA StatusAlways == Spec => [](StageInv /\ AddonInv)
BY StatusInit, StageStep, AddonStep, ProtectAlways, PTL DEF Spec

-----------------------------------------------------------------------------
(* Who writes the status *)

LEMMA SettleUntold ==
  ASSUME NEW c \in CRType, NEW d, d.phase = c.phase, d.addon = c.addon
  PROVE  Untold(c, Settle(d))
<1>1. Gone(d.uid).phase = "" /\ Gone(d.uid).life = "absent"
  BY DEF Gone
<1> QED BY <1>1 DEF Untold, Settle, Held

LEMMA SetFinalizersUntold ==
  ASSUME NEW c \in CRType, NEW new PROVE Untold(c, SetFinalizers(c, new))
<1> DEFINE d == [c EXCEPT !.finalizers = new]
<1>1. d.phase = c.phase /\ d.addon = c.addon
  BY DEF CRType
<1> HIDE DEF d
<1>2. Untold(c, Settle(d))
  BY <1>1, SettleUntold
<1> QED BY <1>2 DEF SetFinalizers, d

\* Users, the garbage collector and the two finalizer patches do not.
LEMMA UntoldUser == ASSUME ProtectInv, User PROVE Untold(cr[Keda], cr'[Keda])
<1>0. cr[Keda] \in CRType /\ cr \in [Names -> CRType]
  BY KedaType DEF ProtectInv, TypeOK
<1>1. ASSUME NEW s \in Specs, UserCreate(Keda, s) PROVE Untold(cr[Keda], cr'[Keda])
  <2>1. cr'[Keda] = Created(cr[Keda].uid + 1, s)
    BY <1>0, <1>1, NamesAssumption DEF UserCreate
  <2>2. cr'[Keda].phase = "" /\ cr'[Keda].finalizers = {}
    BY <2>1 DEF Created, Gone
  <2> QED BY <2>2 DEF Untold, Held
<1>2. ASSUME NEW s \in Specs, UserEdit(Keda, s) PROVE Untold(cr[Keda], cr'[Keda])
  <2>1. cr'[Keda] = [cr[Keda] EXCEPT !.spec = s]
    BY <1>0, <1>2, NamesAssumption DEF UserEdit
  <2> QED BY <1>0, <2>1 DEF Untold, CRType
<1>3. ASSUME NEW extra, UserDelete(Keda, extra) PROVE Untold(cr[Keda], cr'[Keda])
  <2> DEFINE d == MarkDeleted(cr[Keda], extra)
  <2>1. cr'[Keda] = Settle(d)
    BY <1>0, <1>3, NamesAssumption DEF UserDelete
  <2>2. d.phase = cr[Keda].phase /\ d.addon = cr[Keda].addon
    BY <1>0 DEF MarkDeleted, CRType
  <2> HIDE DEF d
  <2> QED BY <1>0, <2>1, <2>2, SettleUntold
<1>4. ASSUME NEW n \in Names, n # Keda, NEW s,
             UserCreate(n, s) \/ UserEdit(n, s) \/ UserDelete(n, s)
      PROVE  Untold(cr[Keda], cr'[Keda])
  BY <1>0, <1>4, NamesAssumption DEF UserCreate, UserEdit, UserDelete, Untold
<1> QED BY <1>1, <1>2, <1>3, <1>4 DEF User

LEMMA ResourceWriters ==
  ASSUME [Next]_vars
  PROVE  \/ UNCHANGED cr \/ MarkIgnored \/ MarkInstallSucceeded \/ ReportFailure
         \/ addFinalizer \/ RemoveFinalizer \/ User
         \/ \E n \in Names : ForegroundDone(n)
<1>1. CASE Reconcile
  BY <1>1 DEF Reconcile, Begin, BeginFails, Install, Finalize, installGeneralResources,
              installController, installMetricsServer, installAdmissionWebhooks,
              installMonitoring, installHTTPAddon, ensurePrometheusMonitoringRBAC,
              deleteHTTPAddon, deleteGeneral, deleteController, deleteMetrics
<1>2. CASE ~Reconcile
  BY <1>2 DEF Next, vars, CacheSync, Restart, OutsideDelete, Collector, Collect
<1> QED BY <1>1, <1>2

LEMMA UntoldStep ==
  ASSUME ProtectInv, [Next]_vars, ~MarkInstallSucceeded, ~ReportFailure
  PROVE  Untold(cr[Keda], cr'[Keda])
<1>0. TypeOK /\ cr[Keda] \in CRType /\ cr \in [Names -> CRType]
  BY KedaType DEF ProtectInv, TypeOK
<1>1. CASE UNCHANGED cr
  BY <1>1 DEF Untold
<1>2. CASE MarkIgnored
  BY <1>0, <1>2, NamesAssumption DEF MarkIgnored, ProtectInv, WorkerInv, Untold
<1>3. CASE addFinalizer \/ RemoveFinalizer
  <2>1. PICK new : FinalizerPatch(new)
    BY <1>3 DEF addFinalizer, RemoveFinalizer
  <2>2. cr' = cr \/ cr' = [cr EXCEPT ![req] = SetFinalizers(@, new)]
    BY <2>1 DEF FinalizerPatch
  <2>3. cr'[Keda] = cr[Keda] \/ cr'[Keda] = SetFinalizers(cr[Keda], new)
    BY <1>0, <2>2, NamesAssumption
  <2> QED BY <1>0, <2>3, SetFinalizersUntold DEF Untold
<1>4. CASE User
  BY <1>4, UntoldUser
<1>5. ASSUME NEW n \in Names, ForegroundDone(n) PROVE Untold(cr[Keda], cr'[Keda])
  <2>1. \/ cr'[Keda] = cr[Keda]
        \/ cr'[Keda] = SetFinalizers(cr[Keda], cr[Keda].finalizers \ {Foreground})
    BY <1>0, <1>5, NamesAssumption DEF ForegroundDone
  <2>2. CASE cr'[Keda] = cr[Keda]
    BY <2>2 DEF Untold
  <2>3. CASE cr'[Keda] # cr[Keda]
    BY <1>0, <2>1, <2>3, SetFinalizersUntold
  <2> QED BY <2>2, <2>3
<1> QED BY <1>1, <1>2, <1>3, <1>4, <1>5, ResourceWriters

\* The two that do, for the resource keda.
LEMMA ToldStep ==
  ASSUME ProtectInv, MarkInstallSucceeded \/ ReportFailure
  PROVE  /\ pc \in {"succeed", "fail"} /\ UNCHANGED obj
         /\ \/ cr'[Keda] = cr[Keda]
            \/ /\ cr'[Keda].phase \in {IF pc = "succeed" THEN "Succeeded" ELSE status.phase,
                                       cr[Keda].phase}
               /\ cr'[Keda].addon = IF status.addon # inst.addon THEN status.addon
                                    ELSE cr[Keda].addon
<1>0. /\ TypeOK /\ cr[Keda] \in CRType /\ cr \in [Names -> CRType]
      /\ status \in StatusType /\ req = Keda
  BY KedaType DEF ProtectInv, TypeOK, WorkerInv, MarkInstallSucceeded, ReportFailure, InstallPCs
<1> DEFINE new == IF pc = "succeed" THEN [status EXCEPT !.phase = "Succeeded"] ELSE status
<1>1. /\ new.addon = status.addon
      /\ new.phase = IF pc = "succeed" THEN "Succeeded" ELSE status.phase
  BY <1>0 DEF StatusType
<1>2. cr' = cr \/ cr' = [cr EXCEPT ![Keda] = StatusPatch(@, new)]
  BY <1>0 DEF MarkInstallSucceeded, ReportFailure
<1> HIDE DEF new
<1>3. cr'[Keda] = cr[Keda] \/ cr'[Keda] = StatusPatch(cr[Keda], new)
  BY <1>0, <1>2, NamesAssumption
<1>4. /\ StatusPatch(cr[Keda], new).phase \in {new.phase, cr[Keda].phase}
      /\ StatusPatch(cr[Keda], new).addon = IF new.addon # inst.addon THEN new.addon
                                           ELSE cr[Keda].addon
  BY <1>0 DEF StatusPatch, CRType
<1>5. pc \in {"succeed", "fail"} /\ UNCHANGED obj
  BY DEF MarkInstallSucceeded, ReportFailure
<1> QED BY <1>1, <1>3, <1>4, <1>5

-----------------------------------------------------------------------------
(* The two properties *)

\* The HTTP Add-on entry of the status, all the operator remembers of having
\* installed the add-on, is dropped by installHTTPAddon, by a failed reconcile or
\* with the resource only when no operand of the add-on is left.
THEOREM AddonRemembered == Spec => ForgetAddonOnlyWhenGone
<1> DEFINE A == cr[Keda].addon # "nil" /\ cr'[Keda].addon = "nil"
                  => \A o \in Operands("addon") : ~Present(o)'
<1>1. ProtectInv /\ ProtectInv' /\ AddonInv /\ [Next]_vars => [A]_vars
  <2> SUFFICES ASSUME ProtectInv, ProtectInv', AddonInv, [Next]_vars,
                      cr[Keda].addon # "nil", cr'[Keda].addon = "nil"
               PROVE  \A o \in Operands("addon") : ~Present(o)'
    OBVIOUS
  <2>1. CASE MarkInstallSucceeded \/ ReportFailure
    <3>1. /\ pc \in {"succeed", "fail"} /\ UNCHANGED obj
          /\ status.addon = "nil" /\ inst.addon # "nil"
      BY <2>1, ToldStep
    <3> QED BY <3>1 DEF AddonInv, NonePresent, Present
  <2>2. CASE ~MarkInstallSucceeded /\ ~ReportFailure
    <3>1. ~Held(cr'[Keda])
      BY <2>2, UntoldStep DEF Untold
    <3> QED BY <3>1 DEF ProtectInv, FinalizerProtects, FinalizedGroups, Held
  <2> QED BY <2>1, <2>2
<1> QED
  BY <1>1, ProtectAlways, StatusAlways, PTL DEF Spec, ForgetAddonOnlyWhenGone

\* "Installation Succeeded" is written by MarkInstallSucceeded only when every
\* operand of the core manifests is as this reconcile rendered it, or the next
\* reconcile is queued already, or the resource is being deleted, whatever users,
\* outsiders and the garbage collector did between the stages.
THEOREM SuccessIsTrue == Spec => SucceededIsTrue
<1> DEFINE A == cr[Keda].phase # "Succeeded" /\ cr'[Keda].phase = "Succeeded"
                  => \/ Keda \in queue'
                     \/ cr'[Keda].life = "deleting"
                     \/ \A g \in {"general", "controller", "metrics", "webhooks"} :
                           \A o \in Operands(g) :
                              IF o \in Unwanted(inst.spec) THEN obj'[o] = NoObj
                              ELSE \/ obj'[o] = Rendered(o)
                                   \/ obj'[o] = Removed /\ o \notin Deployments \cap Owned
<1>1. ProtectInv /\ StageInv /\ [Next]_vars => [A]_vars
  <2> SUFFICES ASSUME ProtectInv, StageInv, [Next]_vars,
                      cr[Keda].phase # "Succeeded", cr'[Keda].phase = "Succeeded"
               PROVE  \/ Keda \in queue'
                      \/ cr'[Keda].life = "deleting"
                      \/ \A g \in CoreGroups : \A o \in Operands(g) :
                            IF o \in Unwanted(inst.spec) THEN obj'[o] = NoObj
                            ELSE \/ obj'[o] = Rendered(o)
                                 \/ obj'[o] = Removed /\ o \notin Deployments \cap Owned
    BY DEF CoreGroups
  <2>1. MarkInstallSucceeded \/ ReportFailure
    BY UntoldStep DEF Untold
  <2>2. pc = "succeed" /\ UNCHANGED obj
    BY <2>1, ToldStep DEF StageInv
  <2>3. queue \subseteq queue' /\ cr'[Keda].life = cr[Keda].life
    BY <2>1, StatusReportTame DEF MarkInstallSucceeded, ReportFailure, Done, Requeue, Return
  <2>4. Excused \/ \A g \in CoreGroups : AsRendered(g)
    BY <2>2 DEF StageInv, Through
  <2> QED BY <2>2, <2>3, <2>4 DEF Excused, AsRendered
<1> QED
  BY <1>1, ProtectAlways, StatusAlways, PTL DEF Spec, SucceededIsTrue

-----------------------------------------------------------------------------
(***************************************************************************)
(* What outlives the KedaController.                                       *)
(***************************************************************************)

\* Incarnations are counted from 1, so that an owner reference is told from none.
Named(c) == c.life # "absent" => c.uid # 0

\* Every operand InjectOwner applies to has an owner, of whichever incarnation.
OwnerInv ==
    /\ Named(cr[Keda])
    /\ \A o \in Owned : Present(o) => obj[o].owner # 0

LEMMA NamedStep ==
  ASSUME ProtectInv, Named(cr[Keda]), [Next]_vars PROVE Named(cr'[Keda])
<1>0. /\ TypeOK /\ cr[Keda] \in CRType /\ cr[Keda].uid \in Nat
      /\ cr \in [Names -> CRType]
  BY KedaType DEF ProtectInv, TypeOK
<1>1. CASE UNCHANGED cr
  BY <1>1
<1>2. CASE MarkIgnored \/ MarkInstallSucceeded \/ ReportFailure
  BY <1>2, StatusReportTame DEF Named
<1>3. CASE addFinalizer \/ RemoveFinalizer
  <2>1. PICK new \in SUBSET {Fin, Foreground} : FinalizerPatch(new)
    BY <1>0, <1>3 DEF addFinalizer, RemoveFinalizer, TypeOK, CRType
  <2>2. req = Keda
    BY <1>3 DEF ProtectInv, WorkerInv, addFinalizer, RemoveFinalizer, FinalizePCs
  <2>3. CASE UNCHANGED cr
    BY <2>3
  <2>4. CASE /\ cr'[Keda] = SetFinalizers(cr[Keda], new)
             /\ cr[Keda].life \in {"live", "deleting"}
    BY <1>0, <2>4, SetFinalizersCases DEF Named
  <2> QED BY <2>1, <2>2, <2>3, <2>4, FinalizerPatchCases
<1>4. CASE User
  <2>1. ASSUME NEW s, UserCreate(Keda, s) PROVE Named(cr'[Keda])
    <3>1. cr'[Keda] = Created(cr[Keda].uid + 1, s)
      BY <1>0, <2>1, NamesAssumption DEF UserCreate
    <3> QED BY <1>0, <3>1, CreatedFields DEF Named
  <2>2. ASSUME NEW s, UserEdit(Keda, s) PROVE Named(cr'[Keda])
    <3>1. cr'[Keda] = [cr[Keda] EXCEPT !.spec = s]
      BY <1>0, <2>2, NamesAssumption DEF UserEdit
    <3> QED BY <1>0, <3>1 DEF Named, CRType
  <2>3. ASSUME NEW extra \in {{}, {Foreground}}, UserDelete(Keda, extra)
        PROVE  Named(cr'[Keda])
    <3>1. cr'[Keda] = Settle(MarkDeleted(cr[Keda], extra)) /\ cr[Keda].life = "live"
      BY <1>0, <2>3, NamesAssumption DEF UserDelete
    <3>2. Ends(cr[Keda], Settle(MarkDeleted(cr[Keda], extra)))
      BY <1>0, DeletedFields
    <3> QED BY <3>1, <3>2 DEF Ends, Named
  <2>4. ASSUME NEW n \in Names, n # Keda, NEW s,
               UserCreate(n, s) \/ UserEdit(n, s) \/ UserDelete(n, s)
        PROVE  Named(cr'[Keda])
    BY <1>0, <2>4, NamesAssumption DEF UserCreate, UserEdit, UserDelete
  <2> QED BY <1>4, <2>1, <2>2, <2>3, <2>4 DEF User
<1>5. ASSUME NEW n \in Names, ForegroundDone(n) PROVE Named(cr'[Keda])
  <2> DEFINE new == cr[Keda].finalizers \ {Foreground}
  <2>1. \/ cr'[Keda] = cr[Keda]
        \/ cr'[Keda] = SetFinalizers(cr[Keda], new) /\ cr[Keda].life = "deleting"
    BY <1>0, <1>5, NamesAssumption DEF ForegroundDone
  <2>2. new \subseteq {Fin, Foreground}
    BY <1>0 DEF CRType
  <2> HIDE DEF new
  <2> QED BY <1>0, <2>1, <2>2, SetFinalizersCases DEF Named
<1> QED BY <1>1, <1>2, <1>3, <1>4, <1>5, ResourceWriters

\* Operands come into being only as an install stage renders them.
Grown(o) == obj'[o] = obj[o] \/ obj'[o].state # "present"
              \/ (pc \in InstallPCs /\ obj'[o] = Rendered(o))

LEMMA ApplyGrows ==
  ASSUME NEW g, NEW k, Apply(g, k), pc \in InstallPCs, NEW o \in Objects
  PROVE  Grown(o)
BY DEF Apply, Write, Grown

LEMMA DeleteGrows ==
  ASSUME NEW g, NEW k, NEW o \in Objects,
         obj' = [p \in Objects |-> IF p \in AfterOf(g, k) THEN NoObj ELSE obj[p]]
  PROVE  Grown(o)
BY DEF Grown, NoObj

LEMMA GeneralGrows ==
  ASSUME TypeOK, installGeneralResources, NEW o \in Objects PROVE Grown(o)
<1> DEFINE deleted(p) == IF p \in Unwanted(inst.spec) THEN NoObj ELSE obj[p]
           upTo(k) == [p \in Objects |->
                         IF p \in FirstOf("general", k) \ Unwanted(inst.spec)
                         THEN Rendered(p) ELSE deleted(p)]
<1>1. pc \in InstallPCs
  BY DEF installGeneralResources, InstallPCs
<1>2. obj' = obj \/ \E k : obj' = upTo(k)
  BY DEF installGeneralResources, Write
<1>3. NoObj.state # "present"
  BY DEF NoObj
<1> QED BY <1>1, <1>2, <1>3 DEF Grown

LEMMA GrownStep ==
  ASSUME TypeOK, [Next]_vars, NEW o \in Objects PROVE Grown(o)
<1> USE DEF InstallPCs
<1>1. CASE UNCHANGED obj
  BY <1>1 DEF Grown
<1>2. CASE installGeneralResources
  BY <1>2, GeneralGrows
<1>3. CASE installController \/ installMetricsServer \/ installAdmissionWebhooks
  BY <1>3, ApplyGrows
     DEF installController, installMetricsServer, installAdmissionWebhooks, InstallStage
<1>4. CASE installMonitoring \/ ensurePrometheusMonitoringRBAC
  BY <1>1, <1>4, ApplyGrows
     DEF installMonitoring, ensurePrometheusMonitoringRBAC, InstallStage
<1>5. CASE installHTTPAddon
  <2>1. \/ UNCHANGED obj
        \/ \E k : Apply("addon", k) \/ Delete("addon", k)
    BY <1>5 DEF installHTTPAddon, disableHTTPAddon, enableHTTPAddon
  <2>2. pc \in InstallPCs
    BY <1>5 DEF installHTTPAddon
  <2> QED BY <1>1, <2>1, <2>2, ApplyGrows, DeleteGrows DEF Delete, Write
<1>6. CASE deleteHTTPAddon \/ deleteGeneral \/ deleteController \/ deleteMetrics
  BY <1>6, DeleteGrows
     DEF deleteHTTPAddon, deleteGeneral, deleteController, deleteMetrics, FinalizeStage,
         Delete, Write
<1>7. ASSUME NEW p \in Objects, Collect(p) \/ OutsideDelete(p) PROVE Grown(o)
  BY <1>7, RemoveOneShrinks DEF Shrinks, Grown
<1>8. CASE User \/ Restart \/ \E n \in Names : CacheSync(n) \/ ForegroundDone(n)
  BY <1>1, <1>8 DEF User, UserCreate, UserEdit, UserDelete, Restart, CacheSync, ForegroundDone
<1>9. CASE \/ UNCHANGED vars
           \/ \E n \in Names : Begin(n) \/ BeginFails(n)
           \/ MarkIgnored \/ MarkInstallSucceeded \/ ReportFailure
           \/ addFinalizer \/ RemoveFinalizer
  BY <1>1, <1>9 DEF vars, Begin, BeginFails, MarkIgnored, MarkInstallSucceeded,
                    ReportFailure, addFinalizer, RemoveFinalizer
<1> QED
  BY <1>2, <1>3, <1>4, <1>5, <1>6, <1>7, <1>8, <1>9
  DEF Next, Reconcile, Install, Finalize, Collector

LEMMA OwnerStep == ProtectInv /\ OwnerInv /\ [Next]_vars => OwnerInv'
<1> SUFFICES ASSUME ProtectInv, OwnerInv, [Next]_vars PROVE OwnerInv'
  OBVIOUS
<1>1. Named(cr[Keda])'
  BY NamedStep DEF OwnerInv
<1>2. ASSUME NEW o \in Owned, Present(o)' PROVE obj'[o].owner # 0
  <2>1. o \in Objects /\ Grown(o)
    BY ClusterAssumption, GrownStep DEF ProtectInv
  <2>2. CASE obj'[o] = obj[o]
    BY <1>2, <2>2 DEF OwnerInv, Present
  <2>3. CASE pc \in InstallPCs /\ obj'[o] = Rendered(o)
    <3>1. inst.uid # 0
      BY <2>3 DEF ProtectInv, WorkerInv, OwnerInv, Named, Held
    <3> QED BY <2>3, <3>1 DEF Rendered
  <2> QED BY <1>2, <2>1, <2>2, <2>3 DEF Grown, Present
<1> QED BY <1>1, <1>2 DEF OwnerInv

LEMMA OwnerInit == Init => OwnerInv
<1> SUFFICES ASSUME Init PROVE OwnerInv
  OBVIOUS
<1>1. cr[Keda].life = "absent"
  BY NamesAssumption, GoneFields DEF Init
<1>2. \A o \in Objects : ~Present(o)
  BY DEF Init, Present, NoObj
<1> QED BY <1>1, <1>2, ClusterAssumption DEF OwnerInv, Named

\* Once the KedaController is gone and the operator, the informer and the garbage
\* collector have nothing left to do, no operand with an owner reference and no
\* operand of finalizeKedaController is left, of this or of an earlier incarnation.
THEOREM OnlyUnownedLeft == Spec => []LeftoversAreUnowned
<1>1. ProtectInv /\ OwnerInv => LeftoversAreUnowned
  <2> SUFFICES ASSUME ProtectInv, OwnerInv, Quiet, cr[Keda].life = "absent",
                      NEW o \in Objects, Present(o)
               PROVE  o \notin Owned /\ o \notin GuardedOperands
    BY DEF LeftoversAreUnowned
  <2>1. o \notin GuardedOperands
    BY DEF ProtectInv, FinalizerProtects, GuardedOperands
  <2>2. ~Collectable(o)
    BY DEF Quiet
  <2>3. o \notin Owned
    BY <2>2 DEF Collectable, OwnerInv
  <2> QED BY <2>1, <2>3
<1>2. Spec => []OwnerInv
  BY OwnerInit, OwnerStep, ProtectAlways, PTL DEF Spec
<1> QED BY <1>1, <1>2, ProtectAlways, PTL
=============================================================================
