--------------------------- MODULE CheckSumsProofs ---------------------------
(***************************************************************************)
(* Proofs about CheckSums: three workers write parts of one status from    *)
(* stale copies without undoing each other's.                              *)
(***************************************************************************)
EXTENDS CheckSums, TLAPS

\* A worker changes its own part of the status it copied and nothing else.
CopyInv ==
    \A w \in Workers : pc[w] = "patch" =>
       /\ w \in Kinds => new[w].phase = inst[w].status.phase
       /\ \A k \in Kinds \ {w} : new[w].sums[k] = inst[w].status.sums[k]

\* The order in which data becomes known: what is on record was on its way
\* before, which was cached before, which was written before.
SumInv ==
    \A k \in Kinds :
       /\ cr.status.sums[k].version <= objCache[k].version
       /\ objCache[k].version <= object[k].version
       /\ pc[k] = "patch" => /\ cr.status.sums[k].version <= new[k].sums[k].version
                             /\ new[k].sums[k].version <= objCache[k].version

CheckSumsInv == TypeOK /\ CopyInv /\ SumInv

-----------------------------------------------------------------------------
(* Types *)

LEMMA KindsAreWorkers == Kinds \subseteq Workers /\ "kedacontroller" \notin Kinds
BY DEF Workers, Kinds

LEMMA NoTypes == NoStatus \in StatusType /\ NoCR \in CRType /\ NoObject \in ObjectType
<1>1. NoSum \in Sums
  BY DEF NoSum, Sums
<1>2. NoStatus \in StatusType
  BY <1>1 DEF NoStatus, StatusType
<1>3. NoCR \in CRType
  BY <1>2 DEF NoCR, CRType
<1>4. NoObject \in ObjectType
  BY DEF NoObject, ObjectType
<1> QED BY <1>2, <1>3, <1>4

LEMMA SumType ==
  ASSUME NEW k \in Kinds, NEW o \in ObjectType, NEW sum \in CheckSum(k, o)
  PROVE  sum \in Sums /\ sum.version = o.version
<1>1. PICK i \in 1..Orders[k] : sum = [version |-> o.version, order |-> i]
  BY DEF CheckSum
<1>2. o.version \in Nat /\ i \in Nat
  BY OrdersAssumption DEF ObjectType
<1> QED BY <1>1, <1>2 DEF Sums

\* The three ways a status is derived from another.
LEMMA MergedType ==
  ASSUME NEW s \in StatusType, NEW base \in StatusType, NEW to \in StatusType
  PROVE  /\ Merged(s, base, to) \in StatusType
         /\ Merged(s, base, to).phase = IF to.phase # base.phase THEN to.phase ELSE s.phase
         /\ \A k \in Kinds : Merged(s, base, to).sums[k] =
               IF to.sums[k] # base.sums[k] THEN to.sums[k] ELSE s.sums[k]
<1> DEFINE sums == [k \in Kinds |-> IF to.sums[k] # base.sums[k] THEN to.sums[k] ELSE s.sums[k]]
           phase == IF to.phase # base.phase THEN to.phase ELSE s.phase
<1>1. sums \in [Kinds -> Sums] /\ phase \in {"", "Succeeded", "Failed"}
  BY DEF StatusType
<1>2. \A k \in Kinds : sums[k] = IF to.sums[k] # base.sums[k] THEN to.sums[k] ELSE s.sums[k]
  OBVIOUS
<1>3. Merged(s, base, to) = [phase |-> phase, sums |-> sums]
  BY DEF Merged
<1>4. phase = IF to.phase # base.phase THEN to.phase ELSE s.phase
  OBVIOUS
<1> HIDE DEF sums, phase
<1>5. [phase |-> phase, sums |-> sums] \in StatusType
  BY <1>1 DEF StatusType
<1>6. /\ [phase |-> phase, sums |-> sums].phase = phase
      /\ [phase |-> phase, sums |-> sums].sums = sums
  OBVIOUS
<1>7. Merged(s, base, to).sums = sums /\ Merged(s, base, to).phase = phase
  BY <1>3, <1>6
<1>8. Merged(s, base, to) \in StatusType
  BY <1>3, <1>5
<1> QED BY <1>2, <1>4, <1>7, <1>8

LEMMA WithSum ==
  ASSUME NEW s \in StatusType, NEW k \in Kinds, NEW sum \in Sums
  PROVE  LET t == [s EXCEPT !.sums[k] = sum] IN
         /\ t \in StatusType /\ t.phase = s.phase /\ t.sums[k] = sum
         /\ \A h \in Kinds \ {k} : t.sums[h] = s.sums[h]
<1> DEFINE sums == [s.sums EXCEPT ![k] = sum]
           t == [s EXCEPT !.sums = sums]
<1>1. /\ sums \in [Kinds -> Sums] /\ sums[k] = sum
      /\ \A h \in Kinds \ {k} : sums[h] = s.sums[h]
  BY DEF StatusType
<1> HIDE DEF sums
<1>2. t \in StatusType /\ t.phase = s.phase /\ t.sums = sums
  BY <1>1 DEF StatusType
<1> QED BY <1>1, <1>2 DEF sums

LEMMA WithPhase ==
  ASSUME NEW s \in StatusType, NEW outcome \in {"Succeeded", "Failed"}
  PROVE  LET t == [s EXCEPT !.phase = outcome] IN t \in StatusType /\ t.sums = s.sums
BY DEF StatusType

LEMMA FinishType ==
  ASSUME TypeOK, NEW w \in Workers, Finish(w)
  PROVE  /\ pc' \in [Workers -> {"idle", "patch"}] /\ inst' \in [Workers -> CRType]
         /\ new' \in [Workers -> StatusType]
BY NoTypes DEF TypeOK, Finish
-----------------------------------------------------------------------------
(* Every action keeps the invariant *)

LEMMA InitKeeps == Init => CheckSumsInv
<1> SUFFICES ASSUME Init PROVE CheckSumsInv
  OBVIOUS
<1>1. TypeOK
  BY NoTypes, CheckSumBoundsAssumption DEF Init, TypeOK
<1>2. CopyInv
  BY DEF Init, CopyInv
<1>3. \A k \in Kinds : /\ cr.status.sums[k].version = 0
                       /\ objCache[k].version = 0 /\ object[k].version = 0
  BY DEF Init, NoCR, NoStatus, NoSum, NoObject
<1>4. SumInv
  BY <1>3, KindsAreWorkers DEF SumInv, Init
<1> QED BY <1>1, <1>2, <1>4 DEF CheckSumsInv

\* What TypeOK says of the versions that SumInv compares.
LEMMA VersionsAreNumbers ==
  ASSUME TypeOK, NEW k \in Kinds
  PROVE  /\ cr.status.sums[k].version \in Nat /\ crCache.status.sums[k].version \in Nat
         /\ objCache[k].version \in Nat /\ object[k].version \in Nat
         /\ object[k].writes \in Nat
         /\ \A w \in Workers : new[w].sums[k].version \in Nat
<1>1. cr.status \in StatusType /\ crCache.status \in StatusType
  BY DEF TypeOK, CRType
<1>2. \A w \in Workers : new[w] \in StatusType
  BY DEF TypeOK
<1>3. \A s \in StatusType : s.sums[k].version \in Nat
  BY DEF StatusType, Sums
<1>4. objCache[k] \in ObjectType /\ object[k] \in ObjectType
  BY DEF TypeOK
<1>5. \A o \in ObjectType : o.version \in Nat /\ o.writes \in Nat
  BY DEF ObjectType
<1> QED BY <1>1, <1>2, <1>3, <1>4, <1>5

LEMMA ReconcileObjectKeeps ==
  ASSUME CheckSumsInv, NEW k \in Kinds, ReconcileObject(k)
  PROVE  CheckSumsInv'
<1> USE DEF CheckSumsInv
<1>1. k \in Workers /\ crCache \in CRType /\ crCache.status \in StatusType
  BY KindsAreWorkers DEF TypeOK, CRType
<1>2. PICK sum \in CheckSum(k, objCache[k]) :
        \/ UNCHANGED <<pc, inst, new>>
        \/ /\ pc' = [pc EXCEPT ![k] = "patch"]
           /\ inst' = [inst EXCEPT ![k] = crCache]
           /\ new' = [new EXCEPT ![k] = [crCache.status EXCEPT !.sums[k] = sum]]
  BY DEF ReconcileObject
<1>3. UNCHANGED <<cr, crCache, object, objCache, installs, faults>> /\ queue' \subseteq queue
  BY DEF ReconcileObject
<1>4. sum \in Sums /\ sum.version = objCache[k].version
  BY <1>2, SumType DEF TypeOK
<1>5. CASE UNCHANGED <<pc, inst, new>>
  BY <1>3, <1>5 DEF TypeOK, CopyInv, SumInv
<1>6. CASE /\ pc' = [pc EXCEPT ![k] = "patch"]
           /\ inst' = [inst EXCEPT ![k] = crCache]
           /\ new' = [new EXCEPT ![k] = [crCache.status EXCEPT !.sums[k] = sum]]
  <2> DEFINE t == [crCache.status EXCEPT !.sums[k] = sum]
  <2>1. /\ t \in StatusType /\ t.phase = crCache.status.phase /\ t.sums[k] = sum
        /\ \A h \in Kinds \ {k} : t.sums[h] = crCache.status.sums[h]
    BY <1>1, <1>4, WithSum
  <2>2. new' = [new EXCEPT ![k] = t]
    BY <1>6
  <2> HIDE DEF t
  <2>3. TypeOK'
    BY <1>1, <1>3, <1>6, <2>1, <2>2 DEF TypeOK
  <2>4. /\ new'[k] = t /\ inst'[k] = crCache /\ pc'[k] = "patch"
        /\ \A w \in Workers \ {k} : /\ new'[w] = new[w] /\ inst'[w] = inst[w]
                                    /\ pc'[w] = pc[w]
    BY <1>1, <1>6, <2>2 DEF TypeOK
  <2>5. CopyInv'
    BY <2>1, <2>4 DEF CopyInv
  <2>6. cr.status.sums[k].version <= objCache[k].version /\ objCache[k].version \in Nat
    BY VersionsAreNumbers DEF SumInv
  <2>7. new'[k].sums[k].version = objCache[k].version
    BY <1>4, <2>1, <2>4
  <2>8. SumInv'
    BY <1>3, <2>4, <2>6, <2>7, KindsAreWorkers DEF SumInv
  <2> QED BY <2>3, <2>5, <2>8
<1> QED BY <1>2, <1>5, <1>6

LEMMA ReconcileKedaControllerKeeps ==
  ASSUME CheckSumsInv, NEW outcome \in {"Succeeded", "Failed"},
         ReconcileKedaController(outcome)
  PROVE  CheckSumsInv'
<1> USE DEF CheckSumsInv
<1> DEFINE r == "kedacontroller"
           t == [crCache.status EXCEPT !.phase = outcome]
<1>1. r \in Workers /\ r \notin Kinds /\ crCache \in CRType /\ crCache.status \in StatusType
  BY KindsAreWorkers DEF TypeOK, CRType, Workers
<1>2. t \in StatusType /\ t.sums = crCache.status.sums
  BY <1>1, WithPhase
<1>3. /\ pc' = [pc EXCEPT ![r] = "patch"]
      /\ inst' = [inst EXCEPT ![r] = crCache]
      /\ new' = [new EXCEPT ![r] = t]
      /\ installs < MaxInstalls /\ installs' = installs + 1
      /\ UNCHANGED <<cr, crCache, object, objCache, queue, faults>>
  BY DEF ReconcileKedaController
<1> HIDE DEF r, t
<1>4. installs' \in 0..MaxInstalls
  BY <1>3, CheckSumBoundsAssumption DEF TypeOK
<1>5. TypeOK'
  BY <1>1, <1>2, <1>3, <1>4 DEF TypeOK
<1>6. /\ new'[r] = t /\ inst'[r] = crCache
      /\ \A w \in Workers \ {r} : new'[w] = new[w] /\ inst'[w] = inst[w] /\ pc'[w] = pc[w]
  BY <1>1, <1>3 DEF TypeOK
<1>7. CopyInv'
  BY <1>1, <1>2, <1>6 DEF CopyInv
<1>8. SumInv'
  BY <1>1, <1>3, <1>6, KindsAreWorkers DEF SumInv
<1> QED BY <1>5, <1>7, <1>8

\* What a patch that arrives does to the recorded status: the outcome is the
\* reconciler's, a checksum that of the worker of its kind, and it never goes back.
LEMMA PatchArrives ==
  ASSUME CheckSumsInv, NEW w \in Workers, pc[w] = "patch",
         cr' = [cr EXCEPT !.status = Merged(@, inst[w].status, new[w])]
  PROVE  /\ cr' \in CRType /\ cr'.life = cr.life
         /\ \A k \in Kinds \ {w} : cr'.status.sums[k] = cr.status.sums[k]
         /\ w \in Kinds => \/ cr'.status.sums[w] = cr.status.sums[w]
                          \/ cr'.status.sums[w] = new[w].sums[w]
         /\ \A k \in Kinds : /\ cr.status.sums[k].version <= cr'.status.sums[k].version
                             /\ cr'.status.sums[k].version <= objCache[k].version
         /\ cr'.status.phase # cr.status.phase =>
               /\ w = "kedacontroller"
               /\ cr'.status.phase = new[w].phase
<1> USE DEF CheckSumsInv
<1> DEFINE m == Merged(cr.status, inst[w].status, new[w])
<1>1. cr \in CRType /\ cr.status \in StatusType /\ inst[w].status \in StatusType
      /\ new[w] \in StatusType
  BY DEF TypeOK, CRType
<1>2. /\ m \in StatusType
      /\ m.phase = IF new[w].phase # inst[w].status.phase THEN new[w].phase ELSE cr.status.phase
      /\ \A k \in Kinds : m.sums[k] =
            IF new[w].sums[k] # inst[w].status.sums[k] THEN new[w].sums[k] ELSE cr.status.sums[k]
  BY <1>1, MergedType
<1>3. cr' = [cr EXCEPT !.status = m]
  OBVIOUS
<1> HIDE DEF m
<1>4. cr' \in CRType /\ cr'.life = cr.life /\ cr'.status = m
  BY <1>1, <1>2, <1>3 DEF CRType
<1>5. /\ \A k \in Kinds \ {w} : new[w].sums[k] = inst[w].status.sums[k]
      /\ w \in Kinds => new[w].phase = inst[w].status.phase
  BY DEF CopyInv
<1>6. \A k \in Kinds \ {w} : cr'.status.sums[k] = cr.status.sums[k]
  BY <1>2, <1>4, <1>5
<1>7. w \in Kinds => \/ cr'.status.sums[w] = cr.status.sums[w]
                     \/ cr'.status.sums[w] = new[w].sums[w]
  BY <1>2, <1>4
<1>8. ASSUME NEW k \in Kinds
      PROVE  /\ cr.status.sums[k].version <= cr'.status.sums[k].version
             /\ cr'.status.sums[k].version <= objCache[k].version
  <2>1. /\ cr.status.sums[k].version \in Nat
        /\ cr.status.sums[k].version <= objCache[k].version
    BY VersionsAreNumbers DEF SumInv
  <2>2. CASE k # w
    BY <1>6, <2>1, <2>2
  <2>3. CASE k = w
    BY <1>7, <2>1, <2>3 DEF SumInv
  <2> QED BY <2>2, <2>3
<1>9. cr'.status.phase # cr.status.phase =>
         w = "kedacontroller" /\ cr'.status.phase = new[w].phase
  BY <1>2, <1>4, <1>5 DEF Workers
<1> QED BY <1>4, <1>6, <1>7, <1>8, <1>9

LEMMA FinishKeeps ==
  ASSUME CheckSumsInv, NEW w \in Workers, Finish(w)
  PROVE  /\ CopyInv'
         /\ \A v \in Workers : pc'[v] = "patch" =>
               v # w /\ pc[v] = "patch" /\ new'[v] = new[v]
<1> USE DEF CheckSumsInv
<1>1. /\ pc'[w] = "idle"
      /\ \A v \in Workers \ {w} : new'[v] = new[v] /\ inst'[v] = inst[v] /\ pc'[v] = pc[v]
  BY DEF TypeOK, Finish
<1>2. CopyInv'
  BY <1>1 DEF CopyInv
<1> QED BY <1>1, <1>2

LEMMA PatchKeeps ==
  ASSUME CheckSumsInv, NEW w \in Workers, UpdateKedaControllerStatus(w)
  PROVE  CheckSumsInv'
<1> USE DEF CheckSumsInv
<1>1. /\ pc[w] = "patch" /\ Finish(w)
      /\ UNCHANGED <<crCache, object, objCache, installs>>
  BY DEF UpdateKedaControllerStatus
<1>2. /\ CopyInv'
      /\ \A v \in Workers : pc'[v] = "patch" =>
            v # w /\ pc[v] = "patch" /\ new'[v] = new[v]
  BY <1>1, FinishKeeps
<1>3. /\ pc' \in [Workers -> {"idle", "patch"}] /\ inst' \in [Workers -> CRType]
      /\ new' \in [Workers -> StatusType]
  BY <1>1, FinishType
<1>4. CASE /\ cr' = [cr EXCEPT !.status = Merged(@, inst[w].status, new[w])]
           /\ UNCHANGED <<queue, faults>>
  <2>1. /\ cr' \in CRType
        /\ \A k \in Kinds \ {w} : cr'.status.sums[k] = cr.status.sums[k]
        /\ \A k \in Kinds : cr'.status.sums[k].version <= objCache[k].version
    BY <1>1, <1>4, PatchArrives
  <2>2. TypeOK'
    BY <1>1, <1>3, <1>4, <2>1 DEF TypeOK
  <2>3. SumInv'
    BY <1>1, <1>2, <2>1, KindsAreWorkers DEF SumInv
  <2> QED BY <1>2, <2>2, <2>3
<1>5. CASE UNCHANGED cr /\ queue' = queue \cup ({w} \cap Kinds) /\ (UNCHANGED faults \/ Fault)
  <2>1. faults' \in 0..MaxFaults
    BY <1>5, CheckSumBoundsAssumption DEF TypeOK, Fault
  <2>2. TypeOK'
    BY <1>1, <1>3, <1>5, <2>1 DEF TypeOK
  <2>3. SumInv'
    BY <1>1, <1>2, <1>5, KindsAreWorkers DEF SumInv
  <2> QED BY <1>2, <2>2, <2>3
<1> QED BY <1>4, <1>5 DEF UpdateKedaControllerStatus

LEMMA ObjectSyncKeeps ==
  ASSUME CheckSumsInv, NEW k \in Kinds, ObjectSync(k)
  PROVE  CheckSumsInv'
<1> USE DEF CheckSumsInv
<1>1. /\ objCache' = [objCache EXCEPT ![k] = object[k]] /\ queue' = queue \cup {k}
      /\ UNCHANGED <<cr, crCache, object, pc, inst, new, installs, faults>>
  BY DEF ObjectSync
<1>2. TypeOK'
  BY <1>1 DEF TypeOK
<1>3. CopyInv'
  BY <1>1 DEF CopyInv
<1>4. ASSUME NEW h \in Kinds
      PROVE  objCache[h].version <= objCache'[h].version /\ objCache'[h].version <= object[h].version
  <2>1. objCache[h].version <= object[h].version /\ object[h].version \in Nat
    BY VersionsAreNumbers DEF SumInv
  <2>2. objCache'[h] = object[h] \/ objCache'[h] = objCache[h]
    BY <1>1 DEF TypeOK
  <2> QED BY <2>1, <2>2, VersionsAreNumbers
<1>5. SumInv'
  <2> SUFFICES ASSUME NEW h \in Kinds
               PROVE  /\ cr.status.sums[h].version <= objCache'[h].version
                      /\ objCache'[h].version <= object[h].version
                      /\ pc[h] = "patch" =>
                            /\ cr.status.sums[h].version <= new[h].sums[h].version
                            /\ new[h].sums[h].version <= objCache'[h].version
    BY <1>1 DEF SumInv
  <2>1. /\ cr.status.sums[h].version \in Nat /\ objCache[h].version \in Nat
        /\ new[h].sums[h].version \in Nat /\ objCache'[h].version \in Nat
    BY <1>2, VersionsAreNumbers, KindsAreWorkers DEF TypeOK, ObjectType
  <2> QED BY <1>4, <2>1 DEF SumInv
<1> QED BY <1>2, <1>3, <1>5

LEMMA WriteObjectKeeps ==
  ASSUME CheckSumsInv, NEW k \in Kinds, NEW bump \in {0, 1}, WriteObject(k, bump)
  PROVE  CheckSumsInv'
<1> USE DEF CheckSumsInv
<1> DEFINE o == [version |-> object[k].version + bump, writes |-> object[k].writes + 1]
<1>1. /\ object' = [object EXCEPT ![k] = o]
      /\ UNCHANGED <<cr, crCache, objCache, queue, pc, inst, new, installs, faults>>
  BY DEF WriteObject
<1>2. object[k].version \in Nat /\ object[k].writes \in Nat
  BY VersionsAreNumbers
<1>3. o \in ObjectType /\ object[k].version <= o.version
  BY <1>2 DEF ObjectType
<1> HIDE DEF o
<1>4. TypeOK'
  BY <1>1, <1>3 DEF TypeOK
<1>5. CopyInv'
  BY <1>1 DEF CopyInv
<1>6. \A h \in Kinds : objCache[h].version <= object'[h].version
  <2> SUFFICES ASSUME NEW h \in Kinds PROVE objCache[h].version <= object'[h].version
    OBVIOUS
  <2>1. object'[h] = object[h] \/ (h = k /\ object'[h] = o)
    BY <1>1 DEF TypeOK
  <2>2. objCache[h].version <= object[h].version
    BY DEF SumInv
  <2>3. objCache[h].version \in Nat /\ o.version \in Nat
    BY <1>3, VersionsAreNumbers DEF ObjectType
  <2> QED BY <1>2, <1>3, <2>1, <2>2, <2>3
<1>7. SumInv'
  BY <1>1, <1>6 DEF SumInv
<1> QED BY <1>4, <1>5, <1>7

\* The KedaController comes and goes; its last status goes with it.
LEMMA LifeKeeps ==
  ASSUME CheckSumsInv, CreateKedaController \/ DeleteKedaController
  PROVE  CheckSumsInv'
<1> USE DEF CheckSumsInv
<1>1. UNCHANGED <<crCache, object, objCache, queue, pc, inst, new, installs, faults>>
  BY DEF CreateKedaController, DeleteKedaController
<1>2. cr' \in CRType /\ (cr'.status = cr.status \/ cr'.status = NoStatus)
  BY NoTypes DEF TypeOK, CRType, CreateKedaController, DeleteKedaController
<1>3. TypeOK'
  BY <1>1, <1>2 DEF TypeOK
<1>4. CopyInv'
  BY <1>1 DEF CopyInv
<1>5. \A k \in Kinds : NoStatus.sums[k].version = 0
  BY DEF NoStatus, NoSum
<1>6. ASSUME NEW k \in Kinds
      PROVE  /\ cr'.status.sums[k].version <= objCache[k].version
             /\ pc[k] = "patch" => cr'.status.sums[k].version <= new[k].sums[k].version
  <2>1. objCache[k].version \in Nat /\ new[k].sums[k].version \in Nat
    BY VersionsAreNumbers, KindsAreWorkers
  <2>2. CASE cr'.status = cr.status
    BY <2>2 DEF SumInv
  <2>3. CASE cr'.status = NoStatus
    BY <1>5, <2>1, <2>3
  <2> QED BY <1>2, <2>2, <2>3
<1>7. SumInv'
  BY <1>1, <1>6 DEF SumInv
<1> QED BY <1>3, <1>4, <1>7

LEMMA RestartKeeps ==
  ASSUME CheckSumsInv, Restart
  PROVE  CheckSumsInv'
<1> USE DEF CheckSumsInv
<1>1. /\ crCache' = cr /\ objCache' = object
      /\ pc' = [w \in Workers |-> "idle"] /\ inst' = [w \in Workers |-> NoCR]
      /\ new' = [w \in Workers |-> NoStatus] /\ queue' \subseteq Kinds
      /\ UNCHANGED <<cr, object, installs>> /\ Fault
  BY DEF Restart
<1>2. faults' \in 0..MaxFaults
  BY <1>1, CheckSumBoundsAssumption DEF TypeOK, Fault
<1>3. TypeOK'
  BY <1>1, <1>2, NoTypes DEF TypeOK
<1>4. \A w \in Workers : pc'[w] = "idle"
  BY <1>1
<1>5. CopyInv'
  BY <1>4 DEF CopyInv
<1>6. \A k \in Kinds : /\ cr.status.sums[k].version <= object[k].version
                       /\ object[k].version <= object[k].version
  BY VersionsAreNumbers DEF SumInv
<1>7. SumInv'
  BY <1>1, <1>4, <1>6, KindsAreWorkers DEF SumInv
<1> QED BY <1>3, <1>5, <1>7

LEMMA NextKeeps == CheckSumsInv /\ [Next]_vars => CheckSumsInv'
<1> SUFFICES ASSUME CheckSumsInv, [Next]_vars PROVE CheckSumsInv'
  OBVIOUS
<1>1. CASE \E k \in Kinds : ReconcileObject(k) \/ ObjectSync(k)
  BY <1>1, ReconcileObjectKeeps, ObjectSyncKeeps
<1>2. CASE \E w \in Workers : UpdateKedaControllerStatus(w)
  BY <1>2, PatchKeeps
<1>3. CASE \E outcome \in {"Succeeded", "Failed"} : ReconcileKedaController(outcome)
  BY <1>3, ReconcileKedaControllerKeeps
<1>4. CASE \E k \in Kinds, bump \in {0, 1} : WriteObject(k, bump)
  BY <1>4, WriteObjectKeeps
<1>5. CASE CRSync
  BY <1>5 DEF CRSync, CheckSumsInv, TypeOK, CopyInv, SumInv
<1>6. CASE CreateKedaController \/ DeleteKedaController
  BY <1>6, LifeKeeps
<1>7. CASE Restart
  BY <1>7, RestartKeeps
<1>8. CASE UNCHANGED vars
  BY <1>8 DEF vars, CheckSumsInv, TypeOK, CopyInv, SumInv
<1> QED BY <1>1, <1>2, <1>3, <1>4, <1>5, <1>6, <1>7, <1>8 DEF Next

LEMMA CheckSumsAlways == Spec => []CheckSumsInv
BY InitKeeps, NextKeeps, PTL DEF Spec

-----------------------------------------------------------------------------
(* Theorems *)

\* The recorded status, the copies three workers hold of it and the statuses
\* they are about to write keep their shape, whatever the checksums are.
THEOREM CheckSumsTyped == Spec => []TypeOK
BY CheckSumsAlways, PTL DEF CheckSumsInv

\* The step that changes the status of a live KedaController is a patch.
LEMMA OnlyPatchesChangeStatus ==
  ASSUME CheckSumsInv, [Next]_vars, cr.life = "live", cr'.life = "live",
         cr'.status # cr.status
  PROVE  \E w \in Workers : /\ pc[w] = "patch"
                            /\ cr' = [cr EXCEPT !.status = Merged(@, inst[w].status, new[w])]
<1>1. UNCHANGED vars => cr' = cr
  BY DEF vars
<1>2. \A k \in Kinds : (ReconcileObject(k) \/ ObjectSync(k)) => cr' = cr
  BY DEF ReconcileObject, ObjectSync
<1>3. \A outcome : ReconcileKedaController(outcome) => cr' = cr
  BY DEF ReconcileKedaController
<1>4. \A k \in Kinds, bump \in {0, 1} : WriteObject(k, bump) => cr' = cr
  BY DEF WriteObject
<1>5. CRSync \/ Restart => cr' = cr
  BY DEF CRSync, Restart
<1>6. ~ CreateKedaController
  BY DEF CreateKedaController
<1>7. ~ DeleteKedaController
  BY DEF DeleteKedaController
<1>8. PICK w \in Workers : UpdateKedaControllerStatus(w)
  BY <1>1, <1>2, <1>3, <1>4, <1>5, <1>6, <1>7 DEF Next
<1> QED BY <1>8 DEF UpdateKedaControllerStatus

\* UpdateKedaControllerStatus sends a difference against a stale copy, yet no
\* order of the three controllers, no lag of a cache, no failed call and no
\* restart puts the checksum of older data back on record, for any number of
\* writes and for objects with any number of entries.
THEOREM SumsAdvance == Spec => SumNeverGoesBack
<1> DEFINE A == cr.life = "live" /\ cr'.life = "live" =>
                  \A k \in Kinds : cr.status.sums[k].version <= cr'.status.sums[k].version
<1>1. CheckSumsInv /\ [Next]_vars => A
  <2> SUFFICES ASSUME CheckSumsInv, [Next]_vars, cr.life = "live", cr'.life = "live",
                      NEW k \in Kinds
               PROVE  cr.status.sums[k].version <= cr'.status.sums[k].version
    OBVIOUS
  <2>1. CASE cr'.status = cr.status
    BY <2>1, VersionsAreNumbers DEF CheckSumsInv
  <2>2. CASE cr'.status # cr.status
    BY <2>2, OnlyPatchesChangeStatus, PatchArrives
  <2> QED BY <2>1, <2>2
<1> HIDE DEF A
<1>2. CheckSumsInv /\ [Next]_vars => [A]_vars
  BY <1>1
<1>3. Spec => [][A]_vars
  BY <1>2, CheckSumsAlways, PTL DEF Spec
<1> QED BY <1>3 DEF SumNeverGoesBack, A

\* A checksum written late, from a copy with an earlier outcome in it, leaves
\* the outcome alone: only the KedaController reconciler's patch changes it, and
\* it changes it to the outcome that reconcile reached.
THEOREM OutcomesKept == Spec => OutcomeKept
<1> DEFINE A == cr.life = "live" /\ cr'.life = "live" /\ cr'.status.phase # cr.status.phase
                  => /\ pc["kedacontroller"] = "patch"
                     /\ cr'.status.phase = new["kedacontroller"].phase
<1>1. CheckSumsInv /\ [Next]_vars => A
  <2> SUFFICES ASSUME CheckSumsInv, [Next]_vars, cr.life = "live", cr'.life = "live",
                      cr'.status.phase # cr.status.phase
               PROVE  /\ pc["kedacontroller"] = "patch"
                      /\ cr'.status.phase = new["kedacontroller"].phase
    OBVIOUS
  <2>1. cr'.status # cr.status
    OBVIOUS
  <2>2. PICK w \in Workers :
           /\ pc[w] = "patch"
           /\ cr' = [cr EXCEPT !.status = Merged(@, inst[w].status, new[w])]
    BY <2>1, OnlyPatchesChangeStatus
  <2> QED BY <2>2, PatchArrives
<1> HIDE DEF A
<1>2. CheckSumsInv /\ [Next]_vars => [A]_vars
  BY <1>1
<1>3. Spec => [][A]_vars
  BY <1>2, CheckSumsAlways, PTL DEF Spec
<1> QED BY <1>3 DEF OutcomeKept, A
=============================================================================
