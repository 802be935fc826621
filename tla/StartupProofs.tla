---------------------------- MODULE StartupProofs ----------------------------
(***************************************************************************)
(* Proofs about Startup: the bootstrap of the default KedaController, for  *)
(* any number of processes that start, crash and overlap.                  *)
(***************************************************************************)
EXTENDS Startup, TLAPS

Stages == {"down", "sync", "namespace", "keda", "create", "annotate", "done", "gaveUp"}

BootTypes ==
    /\ boot \in [Procs -> Stages]
    /\ crCache \in [Procs -> {"absent", "default", "user"}]
    /\ cr \in {"absent", "default", "user"}

\* Whoever knows of a KedaController, or is about to annotate the namespace,
\* does so because there has been one, although it may be gone again.
SeenInv ==
    /\ cr # "absent" => seen
    /\ \A p \in Procs : crCache[p] # "absent" \/ boot[p] = "annotate" => seen

\* A process gets past the namespace only without the annotation.
BeforeInv == \A p \in Procs : boot[p] \in {"keda", "create"} => p \in before

BootInv == BootTypes /\ SeenInv /\ BeforeInv

-----------------------------------------------------------------------------
(* Every action keeps the invariant *)

LEMMA InitKeeps == Init => BootInv
BY DEF Init, BootInv, BootTypes, SeenInv, BeforeInv, Stages

LEMMA SetupKeeps ==
  ASSUME BootInv, NEW p \in Procs, SetupWithManager(p)
  PROVE  BootInv'
BY DEF BootInv, BootTypes, SeenInv, BeforeInv, Stages, SetupWithManager, cluster

LEMMA WaitForCacheSyncKeeps ==
  ASSUME BootInv, NEW p \in Procs, WaitForCacheSync(p)
  PROVE  BootInv'
<1>1. /\ boot' = [boot EXCEPT ![p] = "namespace"] \/ boot' = [boot EXCEPT ![p] = "gaveUp"]
      /\ crCache' = [crCache EXCEPT ![p] = cr] \/ crCache' = crCache
      /\ UNCHANGED <<cr, annotated, seen, before>>
  BY DEF WaitForCacheSync, Continue, GiveUp, cluster
<1> QED BY <1>1 DEF BootInv, BootTypes, SeenInv, BeforeInv, Stages

LEMMA ReadNamespaceKeeps ==
  ASSUME BootInv, NEW p \in Procs, ReadNamespace(p)
  PROVE  BootInv'
<1>1. /\ \/ boot' = [boot EXCEPT ![p] = "done"] /\ before' = before
         \/ boot' = [boot EXCEPT ![p] = "keda"] /\ before' = before \cup {p}
         \/ boot' = [boot EXCEPT ![p] = "gaveUp"] /\ before' = before
      /\ UNCHANGED <<cr, annotated, seen, crCache>>
  BY DEF ReadNamespace, Continue, GiveUp, cluster
<1> QED BY <1>1 DEF BootInv, BootTypes, SeenInv, BeforeInv, Stages

LEMMA ReadKedaControllerKeeps ==
  ASSUME BootInv, NEW p \in Procs, ReadKedaController(p)
  PROVE  BootInv'
<1>1. /\ boot[p] = "keda"
      /\ \/ boot' = [boot EXCEPT ![p] = "create"]
         \/ crCache[p] # "absent" /\ boot' = [boot EXCEPT ![p] = "annotate"]
         \/ boot' = [boot EXCEPT ![p] = "gaveUp"]
      /\ UNCHANGED <<cr, annotated, seen, crCache, before>>
  BY DEF ReadKedaController, At, Continue, GiveUp, cluster
<1> QED BY <1>1 DEF BootInv, BootTypes, SeenInv, BeforeInv, Stages

LEMMA CreateDefaultKeeps ==
  ASSUME BootInv, NEW p \in Procs, CreateDefault(p)
  PROVE  BootInv'
<1>1. /\ \/ cr' = "default" /\ seen' = TRUE /\ boot' = [boot EXCEPT ![p] = "annotate"]
         \/ cr' = "default" /\ seen' = TRUE /\ boot' = [boot EXCEPT ![p] = "gaveUp"]
         \/ UNCHANGED <<cr, seen>> /\ boot' = [boot EXCEPT ![p] = "gaveUp"]
      /\ UNCHANGED <<annotated, crCache, before>>
  BY DEF CreateDefault, Continue, GiveUp
<1> QED BY <1>1 DEF BootInv, BootTypes, SeenInv, BeforeInv, Stages

LEMMA AnnotateKeeps ==
  ASSUME BootInv, NEW p \in Procs, Annotate(p)
  PROVE  BootInv'
<1>1. /\ boot' = [boot EXCEPT ![p] = "done"] \/ boot' = [boot EXCEPT ![p] = "gaveUp"]
      /\ UNCHANGED <<cr, seen, crCache, before>>
  BY DEF Annotate, Continue, GiveUp
<1> QED BY <1>1 DEF BootInv, BootTypes, SeenInv, BeforeInv, Stages

\* A cache that catches up learns of a KedaController that is there.
LEMMA CacheKeeps ==
  ASSUME BootInv, NEW p \in Procs, Lead(p) \/ CacheSync(p)
  PROVE  BootInv'
<1>1. crCache' = [crCache EXCEPT ![p] = cr] /\ UNCHANGED <<cr, annotated, seen, boot, before>>
  BY DEF Lead, CacheSync, cluster
<1> QED BY <1>1 DEF BootInv, BootTypes, SeenInv, BeforeInv, Stages

LEMMA CrashKeeps ==
  ASSUME BootInv, NEW p \in Procs, Crash(p)
  PROVE  BootInv'
<1>1. /\ boot' = [boot EXCEPT ![p] = "down"] /\ before' = before \ {p}
      /\ crCache' = [crCache EXCEPT ![p] = "absent"]
      /\ UNCHANGED <<cr, annotated, seen>>
  BY DEF Crash, cluster
<1> QED BY <1>1 DEF BootInv, BootTypes, SeenInv, BeforeInv, Stages

LEMMA UserKeeps ==
  ASSUME BootInv, UserCreate \/ UserDelete
  PROVE  BootInv'
<1>1. /\ (cr' = "user" /\ seen' = TRUE) \/ (cr' = "absent" /\ seen' = seen)
      /\ UNCHANGED <<boot, crCache, before>>
  BY DEF UserCreate, UserDelete, process
<1> QED BY <1>1 DEF BootInv, BootTypes, SeenInv, BeforeInv, Stages

\* The steps that follow the TLS profile leave the bootstrap alone.
LEMMA ProfileSteps ==
  ASSUME \/ APIServerSync \/ Begin \/ kedaTLSEnvVarTransforms \/ UNCHANGED vars
         \/ \E a \in APIServers : AdminEdit(a)
  PROVE  UNCHANGED cluster /\ UNCHANGED process
BY DEF APIServerSync, Begin, kedaTLSEnvVarTransforms, AdminEdit, vars

LEMMA ProfileKeeps ==
  ASSUME BootInv, UNCHANGED cluster, UNCHANGED process
  PROVE  BootInv'
BY DEF BootInv, BootTypes, SeenInv, BeforeInv, cluster, process

LEMMA NextKeeps == BootInv /\ [Next]_vars => BootInv'
<1> SUFFICES ASSUME BootInv, [Next]_vars PROVE BootInv'
  OBVIOUS
<1>1. CASE \E p \in Procs : SetupWithManager(p)
  BY <1>1, SetupKeeps
<1>2. CASE \E p \in Procs : ensureKedaController(p)
  BY <1>2, WaitForCacheSyncKeeps, ReadNamespaceKeeps, ReadKedaControllerKeeps,
     CreateDefaultKeeps, AnnotateKeeps DEF ensureKedaController
<1>3. CASE \E p \in Procs : Lead(p) \/ CacheSync(p)
  BY <1>3, CacheKeeps
<1>4. CASE \E p \in Procs : Crash(p)
  BY <1>4, CrashKeeps
<1>5. CASE UserCreate \/ UserDelete
  BY <1>5, UserKeeps
<1>6. CASE \/ APIServerSync \/ Begin \/ kedaTLSEnvVarTransforms \/ UNCHANGED vars
           \/ \E a \in APIServers : AdminEdit(a)
  BY <1>6, ProfileSteps, ProfileKeeps
<1> QED BY <1>1, <1>2, <1>3, <1>4, <1>5, <1>6 DEF Next, Operator

LEMMA BootAlways == Spec => []BootInv
BY InitKeeps, NextKeeps, PTL DEF Spec

-----------------------------------------------------------------------------
(* Theorems *)

\* The steps that change the KedaController or the annotation.
LEMMA WhoCreates ==
  ASSUME [Next]_vars, cr' # cr, cr' = "default"
  PROVE  \E p \in Procs : CreateDefault(p) /\ boot[p] = "create" /\ cr = "absent"
<1>1. \A p \in Procs : SetupWithManager(p) \/ WaitForCacheSync(p) \/ ReadNamespace(p)
                         \/ ReadKedaController(p) => cr' = cr
  BY DEF SetupWithManager, WaitForCacheSync, ReadNamespace, ReadKedaController, cluster
<1>2. \A p \in Procs : Annotate(p) \/ Lead(p) \/ CacheSync(p) \/ Crash(p) => cr' = cr
  BY DEF Annotate, Lead, CacheSync, Crash, cluster
<1>3. ~ UserCreate /\ ~ UserDelete
  BY DEF UserCreate, UserDelete
<1>4. (\/ APIServerSync \/ Begin \/ kedaTLSEnvVarTransforms \/ UNCHANGED vars
       \/ \E a \in APIServers : AdminEdit(a)) => cr' = cr
  BY ProfileSteps DEF cluster
<1>5. PICK p \in Procs : CreateDefault(p)
  BY <1>1, <1>2, <1>3, <1>4 DEF Next, Operator, ensureKedaController
<1> QED BY <1>5 DEF CreateDefault, At

LEMMA WhoAnnotates ==
  ASSUME [Next]_vars, ~annotated, annotated'
  PROVE  \E p \in Procs : boot[p] = "annotate"
<1>1. \A p \in Procs : SetupWithManager(p) \/ WaitForCacheSync(p) \/ ReadNamespace(p)
                         \/ ReadKedaController(p) \/ CreateDefault(p) => annotated' = annotated
  BY DEF SetupWithManager, WaitForCacheSync, ReadNamespace, ReadKedaController,
         CreateDefault, cluster
<1>2. \A p \in Procs : Lead(p) \/ CacheSync(p) \/ Crash(p) => annotated' = annotated
  BY DEF Lead, CacheSync, Crash, cluster
<1>3. UserCreate \/ UserDelete => annotated' = annotated
  BY DEF UserCreate, UserDelete
<1>4. (\/ APIServerSync \/ Begin \/ kedaTLSEnvVarTransforms \/ UNCHANGED vars
       \/ \E a \in APIServers : AdminEdit(a)) => annotated' = annotated
  BY ProfileSteps DEF cluster
<1>5. PICK p \in Procs : Annotate(p)
  BY <1>1, <1>2, <1>3, <1>4 DEF Next, Operator, ensureKedaController
<1> QED BY <1>5 DEF Annotate, At

\* However many processes overlap, a KedaController that was deleted after the
\* namespace was annotated is brought back only by a process whose goroutine had
\* read the namespace before; one that starts later finds the annotation.
THEOREM DeletionsAreFinal == Spec => DeletionIsFinal
<1> DEFINE A == annotated /\ cr = "absent" /\ cr' = "default"
                  => \E p \in before : boot[p] = "create"
<1>1. BootInv /\ [Next]_vars => A
  BY WhoCreates DEF BootInv, BeforeInv
<1> HIDE DEF A
<1>2. BootInv /\ [Next]_vars => [A]_vars
  BY <1>1
<1>3. Spec => [][A]_vars
  BY <1>2, BootAlways, PTL DEF Spec
<1> QED BY <1>3 DEF DeletionIsFinal, A

\* ensureKedaController annotates only after it created the KedaController or
\* found one in its cache; a crash, a refused Create or a stale cache between the
\* two steps never leaves a fresh cluster annotated and without its default.
THEOREM CreatedBeforeAnnotated == Spec => AnnotatedOnlyAfterCreation
<1> DEFINE A == ~annotated /\ annotated' => seen
<1>1. BootInv /\ [Next]_vars => A
  BY WhoAnnotates DEF BootInv, SeenInv
<1> HIDE DEF A
<1>2. BootInv /\ [Next]_vars => [A]_vars
  BY <1>1
<1>3. Spec => [][A]_vars
  BY <1>2, BootAlways, PTL DEF Spec
<1> QED BY <1>3 DEF AnnotatedOnlyAfterCreation, A

\* The default never takes the place of what a user created: ensureKedaController
\* may believe a stale cache, but Create is refused.
THEOREM UserKedaControllersKept == Spec => UserKedaControllerKept
<1> DEFINE A == cr = "user" => cr' # "default"
<1>1. [Next]_vars => A
  BY WhoCreates
<1> HIDE DEF A
<1>2. [Next]_vars => [A]_vars
  BY <1>1
<1>3. Spec => [][A]_vars
  BY <1>2, PTL DEF Spec
<1> QED BY <1>3 DEF UserKedaControllerKept, A
=============================================================================
