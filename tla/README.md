# A TLA+ model of the KEDA OLM operator

The operator (`internal/controller/keda`) watches the custom resource
`KedaController`, installs KEDA and the HTTP Add-on from embedded manifests,
reports the outcome in the resource's status, and removes the installation when
the resource is deleted. This directory models its control logic in TLA+,
model-checks it with TLC on small clusters, shows that the reconciler implements
an abstract life cycle, and proves that refinement and every safety property the
runs check with TLAPS, for manifests, clusters, user settings and histories of any
size.

Source paths below are relative to the root of the repository;
`kedacontroller_controller.go` and its neighbours are in
`internal/controller/keda/`.

## 1. Inventory

| Component | State it keeps | Operations | What makes it correct |
|---|---|---|---|
| KedaController reconciler (`kedacontroller_controller.go`, `kedacontroller_finalizer.go`) | the resource's finalizers and status; the operands; a cached copy for the length of one reconcile | `Reconcile`, the seven install stages, `finalizeKedaController`, `addFinalizer` | operands never outlive the finalizer; the status is truthful; it converges, finishes deletions and comes to rest |
| HTTP Add-on (`installHTTPAddon`, `deleteHTTPAddon`) | the operands of three manifests; `status.httpAddon`, the only memory of an installation | install, remove | what was installed is removed when it is disabled |
| GCP Workload Identity (`gcp_workload_identity.go`, `gcp/`) | Secret `keda-gcp-credentials`; the wiring of the operator's Deployment; `status.gcpWorkloadIdentity` | choose the configuration, find the platform, ensure or delete the Secret, wire the pod | nobody else's Secret is touched; the Deployment never points at a Secret the operator deleted; wrong endpoints never replace right ones |
| Checksum controllers (`configmap_controller.go`, `secret_controller.go`) | `status.configmapdatasum`, `status.secretdatasum` | reconcile one named ConfigMap and one named Secret | three writers of one status do not undo each other |
| Deployment transformers (`transform/transform.go`, the transformer lists of the install stages) | none: a Deployment in, a Deployment out | some 40 transformers, lined up by the install functions | the user's values win; volumes, mounts and CA directories fit together |
| Prometheus RBAC (`prometheus_rbac.go`) | a Role and a RoleBinding, which the web console writes too | ensure, re-create when the RoleRef drifted | the binding comes back after a failed re-creation; working access and others' control are kept |
| Audit logging (`ensureMetricsServerAuditLogPolicyConfigMap` and helpers) | the policy ConfigMap | ensure, render | rejected combinations change nothing |
| Default KedaController (`ensureKedaController`) | an annotation on the operator's namespace | create once, remember | created at most once, never again after a user deleted it |
| Cluster TLS profile (`util/tls.go`, the APIServer watch) | `injectTLSEnvVars`, decided once per process | detect, watch, resolve, render | the Deployments end up with the current profile |
| Manifests (`parseManifestsFromFile`, `sortMetricsResources`, `parseHTTPAddonManifests`, `renderForDelete`) | the split manifests, fixed at start-up | parse, render, apply, delete | all of it is installed, and found again when it is deleted; the orders of installation and removal are safe |
| gRPC certificate rotator, process start-up, API types | | vendored, flags, declarations | |

Interactions. One manager runs three controllers, each with one worker and a
work queue that keeps a name at most once and never hands it to two workers. All
reads of watched kinds go through informer caches that lag behind the API
server. The reconciler is woken by its resource, by owned Deployments and by the
periodic resync, *not* by its Secret, ConfigMaps or webhook configuration. All
three controllers write the same status with merge patches that carry no
resourceVersion. Users, other controllers and the garbage collector change the
same objects at any time.

What is hard here: stale reads kept across a long reconcile; a process that ends
between two writes; stages that fail half-way and are retried; a status that is
both a report and the operator's memory; a deletion that races an installation;
look-ups that answer "no" when the call fails; Go maps iterated into lists.
`PROJECT.json` lists these hazards line by line with the properties that watch
them.

## 2. Modules

| Module | Models | Checked by |
|---|---|---|
| `KedaReconciler` | `Reconcile`, the install stages, the finalizer, the add-on, users, restarts, informer, garbage collector | `MCKedaReconciler`, 2 configurations |
| `Lifecycle` | nothing: the abstract life of a KedaController and its operands that `KedaReconciler` implements | as a property of `reconciler` |
| `Lists` | walking along a list and keeping some of it (`Only`), as the filters and loops of the code do | through `Manifests` and `Rendering` |
| `Manifests` | the embedded manifests: split, sorted, rendered, applied and deleted one call at a time | `MCManifests`, 2 configurations |
| `GCPCredentials` | the credential Secret from configuration to status, and its part in the finalizer | `MCGCPCredentials`, 3 configurations |
| `GCPConfig` | reading and validating the Workload Identity parameters, the credential document (operators only) | through `Rendering` |
| `Rendering` | what the transformers make of the five Deployments; extends `GCPConfig` | `MCRendering`, 2 configurations |
| `CheckSums` | the checksum controllers and the KedaController reconciler on one status | `MCCheckSums` |
| `EnsuredObjects` | the CA bundle and audit policy ConfigMaps, the Prometheus Role and RoleBinding | `EnsuredObjects_ensured.cfg` |
| `Startup` | starting processes: OpenShift detection, the default KedaController, the TLS profile | `MCStartup` |
| `KedaReconcilerProofs`, `ManifestsProofs`, `RenderingProofs`, `GCPCredentialsProofs`, `CheckSumsProofs`, `EnsuredObjectsProofs`, `StartupProofs` | proofs about the module they are named after | TLAPS |
| `ListsProofs` | induction along lists, and what `Only`, concatenation and reversal do to a list | TLAPS |

How they fit: `KedaReconciler` says when each stage runs and what a stage leaves
behind when it fails; `Manifests` opens the stages up into API calls, `Rendering`
into transformers, `GCPCredentials` and `EnsuredObjects` into the objects that are
not applied from a manifest. `Startup` comes before the first reconcile, and
`CheckSums` runs beside all of them.

### KedaReconciler

`cr` is the resource at the API server, `cache` the manager's copy, `queue` the
work queue, `obj` the operands. `inst` and `status` are the local variables
`instance` and `status` of `Reconcile`: read once from `cache`, used to the end.
`pc` says which stage is next; every stage of `Reconcile` and of
`finalizeKedaController` is one action named after its function. A stage that
applies a manifest either applies all of it or fails after its first *k* operands
(`Apply` walks the manifest forwards, `Delete` backwards); the failing call may
have taken effect or not. Inside a stage nothing else is interleaved except by
such a failure: the operands of one manifest are written from one copy, and no
decision of the stage depends on another actor's write in between. A reconcile
whose read of the resource fails is requeued (`BeginFails`).

Others may remove any operand (`OutsideDelete`). Only for a Deployment with an owner
reference does the watch queue a request. Any other operand is then marked
`Removed`: the code learns of it in the next reconcile, whatever causes that one,
and `SucceededIsTrue` and `Converges` say so. Users edit the KedaController named
`keda`; a resource of another name is created and deleted with the default spec, of
which the code reads nothing.

The status is written by `StatusPatch`, which sends only the fields that differ
from the copy the reconcile started from, as `client.MergeFrom` does. Finalizers
are written by `FinalizerPatch`, which replaces the list by one computed from
`inst`; the API server refuses to add a finalizer to a resource that is being
deleted and removes the resource with its last finalizer (`Settle`).

Operands are abstracted to existence, the spec they were rendered from and their
owner. A rendering is taken to be a function of spec and owner. That is not so
for two kinds of spec, which the instances leave out: with several CA ConfigMaps
the order of the volumes comes from a Go map, and with an audit log volume the
log path contains the time. For these every reconcile may change the Deployment,
which queues another, so `Quiesces` is not claimed for them.

### Lifecycle

The promise behind the finalizer without caches, queues, stages and errors. A
KedaController is *open* until the operator holds it, *held* while operands may
come and go, *ending* when it was deleted but the operator may still be
installing, *draining* when operands only go, and let go with none left.
`KedaReconciler!LifePhase` is the refinement mapping; the interesting part is the
step from ending to draining, which is taken when the cache shows the deletion
and no install is under way. From then on no operand may come back, across
failures and restarts, until the resource is released.

### Manifests

A resource is its kind, name and namespace, the namespace its body refers to, the
selector of the one NetworkPolicy that is edited, and whether it is owned.
`SetupWithManager` splits the manifest (`GroupOf` is the switch of
`parseManifestsFromFile`) and sorts the metrics server's part by `Rank`. `Only`, from
`Lists`, is the `Filter` of manifestival, written as a recursion along the list so
that it can be reasoned about. `EmbeddedAssumption` says what the files under `resources/` have
in common with every manifest the code is written for (section 4). A
reconcile is a list of API calls in the order of `Reconcile` or
`finalizeKedaController`, and each call is one step; between any two the process
may end, a call may fail, or the user may edit and delete the KedaController. The
instance runs the embedded order and the reverse one: nothing but the sort may
decide whether the APIService is safe.

### GCPCredentials

Begins where `KedaReconciler` reads a fresh resource, and looks into what it
leaves out: `gcpWorkloadIdentityConfig`, `gcpPlatform`,
`ensureGCPCredentialsSecret`, the Deployment's wiring,
`deleteGCPCredentialsSecret` in `installController` and in the finalizer.
`secret` and `cache` are the Secret and its cached copy; nothing wakes the
reconciler when the Secret changes. `Create` fails on an existing Secret,
`Update` carries the resourceVersion of the cached copy, `Delete` names the
Secret only. The stages after `installController` do not touch the Secret, but
their errors end the reconcile (`LaterStageFails`).

The configuration is abstracted there to valid, rejected or absent. `GCPConfig`
has what lies behind this: a source is a record of seven parameters, each possibly
surrounded by white space; `parseConfig` trims, validates the e-mail address,
resolves the audience from itself or from its three components, and refuses
contradictions. `Rendering` begins with it, as `Reconcile` does, and ends with the
pod that mounts the result.

### CheckSums

Three workers with a read step and a patch step each. A checksum is a version of
the data together with the order in which the entries of a Go map were hashed
(`CalculateSecretedDataCheckSum` ranges over the map), so that the same data has
several checksums as soon as it has two entries. That makes the recorded value
flap without a change of the data; the properties here speak of the version.
Versions only grow, as those of certificates do. Data that is changed and changed
back before the cached KedaController follows is outside `SumsConverge`: the
comparison with the cached checksum would find nothing to do.

### Rendering

Starts from a Deployment of the manifest and a `KedaController`, and runs the
transformers in the order the install functions line them up (`Pipeline`). An
entry is a name (or an argument prefix) and a value. The lists are kept as lists,
because the code replaces the first match and appends otherwise (`Put`, `PutAll`,
`SetArgs`, as recursive functions along the new entries). Volumes whose
names come out of a Go map are appended in every order (`Rekeyed`). The numbered
names `cabundle<N>` and `/custom/ca<N>` are the constants `CAVolume` and `CADir`,
and `CANames` is what `strings.HasPrefix(name, "cabundle")` accepts. An argument of the user has one of three forms: bare, `--key=value`, and
`--key=value` with a further `=` in the value, of which `ReplaceArbitraryArg` keeps
the head only (finding 5). Label and
annotation maps are merged, the other fields replaced; image, seccomp profiles,
log settings, audit settings and the GCP wiring are transformers like the others.
Rejected settings (`Reject`) end the rendering before anything is applied.

### EnsuredObjects

Four objects that a reconcile ensures one after the other: Get from a cache, then
Create, Update (with the resourceVersion of the cached copy), or, for a drifted
RoleBinding, Delete and Create as two steps. An object is its content, the RoleRef
and whose controller reference it carries; `fresh` is the set of objects whose
cached copy is current. The operator updates an object it controls in every
reconcile, because a successful `SetControllerReference` counts as a change.
The stages between the audit policy and the Prometheus objects write none of the
four, but decide whether their turn comes (`installStagesBetween`): audit settings
that are not accepted (`Rejected`) end every reconcile there, other errors some.

### Startup

Two processes overlap, as in a rolling update. Each decides once whether it is on
OpenShift, and runs `ensureKedaController` in a goroutine: five steps, each of
which may fail and then ends the goroutine for good. One process leads and
renders two Deployments, one step each, with the profile its cache shows at that
moment. When the profile cannot be read, the Deployment is rendered without its
variables and the reconcile goes on (`Unread`). `before` remembers which processes read the namespace before it was
annotated; it is there for the properties only, as is `seen`.

## 3. Runs

| Run | Expectation | Shows |
|---|---|---|
| `reconciler` | pass | `FinalizerProtects`, `LeftoversAreUnowned`, `ForgetAddonOnlyWhenGone`, `SucceededIsTrue`, `ImplementsLifecycle`, `Converges`, `FailureIsReported`, `DeletionCompletes`, `Quiesces`, with two resources, three user operations, one fault anywhere |
| `addon_leak` | violation of `DisabledAddonIsRemoved` | finding 1 |
| `gcp_credentials` | pass | `DeletedOnlyWhenUnmounted`, `ForeignNeverOverwritten`, `CredentialsConverge` |
| `gcp_endpoints` | violation of `CorrectEndpointsAreKept` | finding 2 |
| `foreign_secret` | violation of `OthersAreLeftAlone` | finding 3 |
| `checksums` | pass | `SumNeverGoesBack`, `OutcomeKept`, `SumsConverge` |
| `rendering` | pass | `UserVariableWins`, `UserArgumentWins`, `MountsHaveVolumes`, `CADirsAreMounted`, `OtherVolumesKept`, `ProviderIsTheIntendedOne`, `CredentialsReachTheOperator` |
| `cut_arguments` | violation of `UserArgumentIsUsed` | finding 5 |
| `manifests` | pass | `InstalledIsComplete`, `FinalizerFindsEverything`, `ServedOnlyWhileRunning`, `EgressIsSelective`, `OwnersAreLocal` |
| `owner_namespace` | violation of `LocalsAreOwned` | finding 4 |
| `ensured` | pass | `ControllerKept`, `WorkingBindingKept`, `EnsuredInTheEnd` |
| `startup` | pass | `DeletionIsFinal`, `AnnotatedOnlyAfterCreation`, `UserKedaControllerKept`, `BootstrapSettles`, `ProfileConverges` |

Every property of a passing run has a mutant in `PROJECT.json`: the definition it
replaces, with the bug written out, is in the module just before the correct one.

`tlc -config <cfg> <module>` repeats a run, `tlapm <module>Proofs.tla` the proofs
of a module.

### Bounds

* `MaxUid` 2: a resource is deleted and created again under the same name, so
  that a copy of the first meets the second.
* `MaxEdits` 3 in `KedaReconciler` and `GCPCredentials`: create, change and delete in
  any order; re-creation needs create, delete, create.
* `MaxFaults` 1: one fault at any point, of any kind (a failing call that did or
  did not take effect, a restart, an operand deleted by hand). Each of the
  code's error paths begins with a single fault. The proofs have no such bound.
* `MaxOthers` 2: somebody deletes the Secret (or one of the ensured objects) and
  somebody creates another.
* Operands: one of each kind that is treated differently (owned or not, a watched
  Deployment or not, deleted on `egress: deny`); the add-on has two so that it
  can be half installed.
* `Orders`: one for the ConfigMap, whose data is one CA bundle, two for the
  Secret, a certificate with its key.
* `MCRendering` takes all pairs of colliding variables and of arguments and all
  single volumes under the names that the manifests and transformers use, on
  every kind of cluster, every audit setting, the Kubernetes versions around the
  seccomp limit, and the Workload Identity parameters in every combination of
  good, bad and missing, in the spec and in the environment. Collisions are
  between a user's entry and one other, or between two of the user's. Three CA
  volumes: two ConfigMaps of the user and the one of the cluster. The proofs take
  lists of any length. `cut_arguments` takes one argument at a time, which is enough
  to lose part of it.
* `MCManifests`: the embedded files with one resource for each group of resources
  that are treated alike, in the order of the files and reversed, in the namespace
  `keda` and in another one. Users and aborts are not bounded.
* `Contested` in `EnsuredObjects`: others write one ConfigMap and the RoleBinding.
  The CA bundle differs from the audit policy, and the Role from the RoleBinding,
  only in having fewer special cases. Two audit settings, one accepted and one not.
* `MCStartup`: two processes, two operations of users and administrators, one
  fault; profiles that resolve to the same, to another, and to an error.

### Fairness

The worker, the informers and the garbage collector keep running: weak fairness.
Users and faults owe nothing. Taking a request is strongly fair per name
(`SF_vars(Begin(n))`), because the work queue hands out names in turn: a name
that is requeued over and over (a configuration that stays invalid) does not
starve another. In `GCPCredentials` and `EnsuredObjects` the
periodic resync of the manager's cache (ten hours by default) is fair; without it
nobody would notice a deleted Secret or RoleBinding. In `Startup` every process is
started and its goroutine scheduled, and some process leads: the Deployment of the
operator restarts its pods, and the lease of a dead leader expires. The work queue's back-off
delays are finite and left out.

`CHECK_DEADLOCK FALSE` where an operator with an empty queue is at rest and the
bounds on users and faults end the behaviours, and in `Rendering`, which ends. In
`EnsuredObjects` and `Manifests` there is always something to do, and deadlock is
checked.

## 4. Proofs

The theorems hold for every value of the constants under the named `ASSUME`s of
the modules, which TLC evaluates in every run: any set of names and specs,
manifests of any length, any number of processes, data versions, edits and
faults. The inductive invariants were also run through TLC on the instances of
section 3; for `Rendering` with the names in `ArgsOnce` restricted to those of the
argument list, since TLC has no unbounded quantifiers, and of `TypeInv` only
`IsDeployment(deploy)`, since component and input never change.

| Module | Theorem | Property |
|---|---|---|
| `KedaReconcilerProofs` | `TypeCorrect`, `Protected`, `OnlyUnownedLeft`, `LifecycleImplemented`, `AddonRemembered`, `SuccessIsTrue` | `TypeOK`, `FinalizerProtects`, `LeftoversAreUnowned`, `ImplementsLifecycle`, `ForgetAddonOnlyWhenGone`, `SucceededIsTrue` |
| `ManifestsProofs` | `InstallationComplete`, `NothingLeftBehind`, `APIHasServer`, `EgressStaysSelective`, `OwnersStayLocal` | `InstalledIsComplete`, `FinalizerFindsEverything`, `ServedOnlyWhileRunning`, `EgressIsSelective`, `OwnersAreLocal` |
| `RenderingProofs` | `IntendedProvider`, `CredentialsArrive`, `UserVariablesWin`, `UserArgumentsWin`, `MountsFindVolumes`, `CABundlesAreMounted`, `OtherVolumesStay` | `ProviderIsTheIntendedOne`, `CredentialsReachTheOperator`, `UserVariableWins`, `UserArgumentWins`, `MountsHaveVolumes`, `CADirsAreMounted`, `OtherVolumesKept` |
| `GCPCredentialsProofs` | `GCPTyped`, `DeletedAfterUnmounting`, `ForeignKept` | `TypeOK`, `DeletedOnlyWhenUnmounted`, `ForeignNeverOverwritten` |
| `CheckSumsProofs` | `CheckSumsTyped`, `SumsAdvance`, `OutcomesKept` | `TypeOK`, `SumNeverGoesBack`, `OutcomeKept` |
| `EnsuredObjectsProofs` | `EnsuredTyped`, `ControllersKept`, `WorkingBindingsKept` | `TypeOK`, `ControllerKept`, `WorkingBindingKept` |
| `StartupProofs` | `DeletionsAreFinal`, `CreatedBeforeAnnotated`, `UserKedaControllersKept` | `DeletionIsFinal`, `AnnotatedOnlyAfterCreation`, `UserKedaControllerKept` |

### FinalizerProtects

Assumptions: `keda` is a possible name, specs have their type, no operand is in
two manifests, the bounds are naturals.

`FinalizerProtects` is not inductive. An install stage creates operands on the
word of a copy of the resource taken from a stale cache, and the finalizer is
dropped on the word of another; nothing in `FinalizerProtects` relates these
copies to the API server. `ProtectInv` adds

* `CacheInv`: a cached copy that is live and has the finalizer is still covered
  by the resource at the API server, same uid: nobody but the worker removes the
  finalizer, and a resource that has it cannot vanish; a cached copy that is being
  deleted does not come back to life under its finalizer;
* `WorkerInv`: the same for the copy the worker holds, per stage: no install
  stage runs unless the resource is held, no finalizer stage while it is live and
  held;
* `FinalizeInv`: what the finalizer has deleted stays deleted until it is through,
  because the one worker is the only one to create operands;
* `AbsentInv`: a resource that is gone has no finalizers.

The step proof goes action by action. Most actions touch the resource only in
ways `Harmless` describes (they keep a held resource held and do not make a
deleting one live) or only remove operands (`ShrinkKeeps`); the install stages,
the finalizer stages, `Begin`, `addFinalizer` and `RemoveFinalizer` have lemmas
of their own.

`OnlyUnownedLeft` uses it for what the finalizer deletes; the webhooks' manifest it
does not. Of that, whatever `InjectOwner` applies to names an owner, of whichever
incarnation (`OwnerInv`), so once the resource is gone and the garbage collector has
nothing left to do, only operands without an owner reference can remain.

### The life cycle and the status

`LifecycleImplemented` adds `StaleInv` to `ProtectInv`: uids only grow, so that the
cached copy is of the present resource or of an earlier one; a deletion that the
cache shows is not taken back; and a finalizer stage that works on a held resource
has its deletion in the cache. With it the cache of a draining KedaController stays
at the deletion, no install can begin from it, and every step of `KedaReconciler`
is a step of `Lifecycle` or leaves phase and operands alone.

`SuccessIsTrue` needs to know, at every stage, that the manifests of the stages
before are still as they were rendered, unless a request is queued or the resource
is being deleted (`StageInv`); that is where the owner references and the watch on
Deployments come in. `AddonRemembered` follows the entry of the add-on from the
copy the reconcile read, through the stage of the add-on, to the patch
(`AddonInv`), and uses `FinalizerProtects` for the resource that goes altogether.

### Manifests

`EmbeddedAssumption` is what the proofs need of the files, checked against
`resources/keda.yaml`, `keda-olm-operator.yaml` and `keda-http-addon.yaml`: a name
is used once per kind, across all files; nothing has an owner; every kind is a
Namespace, a CRD (both of which OLM installs) or has a case in
`parseManifestsFromFile`; the add-on has no Namespace, CRD, NetworkPolicy or
APIService; `keda-auth-reader` is in `kube-system`, so that the `ReplaceNamespace`
that puts it back there after `ReplaceAllNamespaces` left it alone changes nothing
for the embedded file; the egress policy has one match
expression with both pods; and the APIService refers to a Service of the release
with a Deployment of the same name. The order, the length and the rest of the
contents are free. Without uniqueness, two resources could be rendered to the same
identity and the later one would win; without the handled kinds, the parser would
drop a resource silently.

`ManifestsInv` says of every state: `PhaseInv`, what the calls left to do are for;
`ClusterInv`, what is in the cluster is the rendering of some operand, in its place,
with a selective policy and a local owner; `InstallInv`, during an installation
every operand is settled or has a call ahead that settles it; `FinalizeInv`, during
a deletion everything left that the finalizer deletes has a call ahead, and nothing
is left once the KedaController is gone; `ServedInv`, the calls ahead create the
server of the API before the API and delete it after. `InstalledIsComplete` and
`FinalizerFindsEverything` are the ends of the third and the fourth.

The rest of the module, with `ListsProofs`, is about lists. `Only` keeps exactly the elements of the set
and their order, the sort keeps the elements and puts the APIService behind its
server, and concatenation and reversal keep the order between groups (`OnlySet`,
`SortKeeps`, `FlattenHas`, `FlattenGuarded`, `InstallGuarded`, `DeleteGuarded`).
These are inductions along a list. The induction theorems of the library take an
operator as a parameter; here induction goes through sets instead (`SetInduction`:
a set of numbers with 0 and all successors has all of them, from the least element
of its complement), which also shows that the recursive functions exist
(`Recursion`).

### Rendering

Assumptions: the lists of a KedaController are lists of any length of entries with
string names and values (`InputsAssumption`); there are as many numbered CA names as
ConfigMaps, different from each other and from the names the manifests and the
transformers use, none of which begins with `cabundle` (`CAAssumption`);
and the texts the module writes are strings (`TextsAssumption`, which the provers
cannot see for themselves).

The proof has three layers.

* Lists. `Sets` says what one new entry makes of a list: it is there, it has replaced
  nothing but an entry of its name, and names that came once still do; `SetsAll` says
  the same of a list of new entries, of which those stay that no later one replaces.
  `Put`, `PutAll`, `ReplaceDeploymentVolumes` and `SetArgs` are shown to do this, by
  induction along the new entries. Arguments without a prefix are the
  exception (`free`): they replace nothing and are not added twice.
  `Rekeyed` keeps the other entries and their order, and adds what is keyed once, for
  every order of iteration.
* Steps. `Untouched` says which lists each transformer leaves alone, and lemmas for
  each list what the others do to it. `OrderInv` carries the order of the
  pipelines: which transformer comes before which, and that the user's mounts follow
  directly on the user's volumes. It turns "the transformer has run" into
  `Done("env")`, `Done("gcp")` and so on, and "it is still to come" into `Pending`.
* Invariants, one for each question: `ConfigInv` (nothing is rendered from a rejected
  configuration), `EnvInv`, `ArgsInv` (also: no `--ca-dir` before the operator's own,
  which therefore displace nothing), `CredentialsInv`,
  `VolumesInv` with `PlainVolumes` and `SeccompInv`, and `BundlesInv`. Each holds
  because whatever runs after the transformer in question either leaves its list
  alone, or writes under other names, or is the user's. `MountsHaveVolumes` is not
  inductive: when the user's mounts are added, the user's volumes have to have arrived,
  and when the CA volumes are added, which are looked up by the name of a ConfigMap,
  none of them may take the place of a volume that is mounted. In the operator's
  pipeline only `certificates` is there by then.

### The other components

* `GCPInv`: in the stage that deletes the Secret the Deployment is already applied
  without credentials, and nobody wires it up again before the stage is over. That a
  foreign Secret is never overwritten rests on the conflict an update from a stale
  copy meets.
* `CheckSumsInv`: what a worker is about to write differs from the copy it read only
  in that worker's own part (`CopyInv`), and the version on record is not ahead of
  the one under way, nor that of the cache, nor that of the object (`SumInv`). A merge
  patch sends what differs from the copy, so a copy that has grown old does no harm.
* `EnsuredInv`: a copy that is fresh is the object (`FreshInv`), and nothing is left of
  an object that does not exist (`AbsentInv`). An update from a copy that is not fresh
  is refused.
* `BootInv`: whoever is about to annotate the namespace knows of a KedaController
  that existed (`SeenInv`), and whoever is past the check of the namespace passed it
  before the annotation (`BeforeInv`).

### Only model-checked

The liveness properties: `Converges`, `FailureIsReported`, `DeletionCompletes`,
`Quiesces`, `CredentialsConverge`, `SumsConverge`, `EnsuredInTheEnd`,
`BootstrapSettles` and `ProfileConverges`. TLAPS does not reason about fairness and
`ENABLED`. All other properties of the passing runs are proved.

## 5. Findings

1. **A disabled add-on can stay** (`addon_leak`). `status.httpAddon` reaches the
   API server only with the status patch at the end of a reconcile. If the
   operator restarts, or the patch fails, after the add-on was applied, and the
   add-on is disabled before the next reconcile, nothing remembers it.
2. **A failed List is a fallback to the public endpoints** (`gcp_endpoints`).
   `gcpPlatform` treats a failed read as an error on purpose, but
   `RunningOnOpenshift`, which it asks first, answers "no" on an error.
3. **Somebody else's Secret can be deleted** (`foreign_secret`).
   `deleteGCPCredentialsSecret` checks on a cached copy that the Secret is the
   operator's and deletes by name, without a precondition. A Secret that somebody
   else created under that name in the meantime goes with it, although the comment
   of the function says that such Secrets are left alone.
4. **Outside the namespace `keda` nothing is owned** (`owner_namespace`).
   `InjectOwner` adds the reference only if resource and KedaController are in the
   same namespace, and every install function runs it before
   `ReplaceAllNamespaces`, when the resources are still in `keda`. In another
   namespace, edits of a Deployment then do not wake the reconciler, and the
   manifest of the webhooks, which the finalizer does not list, is not collected
   either.
5. **A value with an `=` is cut** (`cut_arguments`). `ReplaceArbitraryArg` splits an
   argument after every `=` and uses the first two pieces, so that
   `--feature-gates=A=true` becomes `--feature-gates=A=`. `UserArgumentWins` holds
   for all other arguments, compared with what the user wrote.

Observations without a run of their own, each at the edge of a property that says
how far the code does go:

* The ValidatingWebhookConfiguration outlives the KedaController: it is
  cluster-scoped, so it has no owner reference, and no stage of
  `finalizeKedaController` (`kedacontroller_finalizer.go:34`) deletes the webhooks'
  manifest, although the top-level `README.md:81` speaks of "removal of the KEDA
  Controller resources". `LeftoversAreUnowned` says that nothing else stays: what
  remains has no owner reference and belongs to no manifest of the finalizer.
* An operand without a watch that others removed comes back with the next reconcile
  only, and the status says `Installation Succeeded` until then; `SucceededIsTrue`
  and `Converges` leave out these operands and no others.
* On OpenShift the interceptor's user variables are applied before the operator's
  TLS, proxy and CA variables and lose against them, although
  `kedacontroller_types.go:427` says "overriding any variable of the same name that
  the operator sets itself"; `UserVariableWins` holds for all other containers and
  clusters.
* When `apiserver/cluster` cannot be read, the log says that the update of the TLS
  variables is skipped, but the Deployment is applied without them, and nothing
  requeues; `ProfileConverges` leaves out a Deployment rendered like this.
* Audit settings that are not accepted fail the metrics server's stage, and with it
  the webhooks, the add-on and the Prometheus objects, which come later in the
  reconcile; `EnsuredInTheEnd` expects the Role and the RoleBinding only while the
  settings are accepted.
* `ensureCACertVolumesAndMounts` looks volumes up by the name of the ConfigMap, so
  that a CA ConfigMap named like another volume replaces it. `OtherVolumesKept`
  holds for other names.
* An audit policy ConfigMap without data makes
  `ensureMetricsServerAuditLogPolicyConfigMap` assign into a nil map. The panic
  repeats until the ConfigMap is deleted; `EnsuredInTheEnd` leaves it out.
* A process whose first question about OpenShift failed never follows the TLS
  profile; `ProfileConverges` is about the others.
* A process that read the namespace before another annotated it may create the
  default KedaController after a user has deleted it; `DeletionIsFinal` says that no
  other can.
* A user's `--ca-dir` argument replaces the first of the operator's and leaves the
  others; `UserArgumentWins` promises only that it is there, and `CADirsAreMounted`
  leaves it out.
* User volumes with the same name, mounts without a volume, or a CA ConfigMap named
  like a volume are rendered as they are, and the API server refuses the Deployment;
  `MountsHaveVolumes` is about settings that fit together (`Coherent`).
* A ConfigMap named twice in `caConfigMaps` yields two mounts but one volume;
  `KedaOperatorEnsureCertificatesVolume` looks for the webhooks container
  (harmless, the manifest has the mount); the finalizer judges the Secret by the
  cache, so that a Secret created just before may outlive the KedaController until
  the garbage collector comes.

## 6. Not modelled, and what comes next

Not modelled: the gRPC certificate rotator (a library with its own state);
`getWatchNamespace`, flags and health checks (no state); generated deep copies;
logging and events; the minute in the audit log path; and the transformers that
set one value nobody else reads: the annotations that ask OpenShift for serving
certificates and CA bundles, the ServiceAccount's annotations and labels, the
DNS port in one NetworkPolicy. In `Startup` the read of the namespace is taken to
be current, since it starts the informer it reads from.

What would come next: the checksum over a Go map (the hash is a choice of order in
`CheckSums`, and no property says that it is stable, because it is not) and the
minute in the audit log path, once the code makes them deterministic, so that
`Quiesces` can be stated for every spec; and the transformers above, when a second
one reads what they write.
