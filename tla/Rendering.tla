------------------------------ MODULE Rendering ------------------------------
(***************************************************************************)
(* How the Deployment of a component is rendered from the embedded         *)
(* manifest: the transformers of internal/controller/keda/transform and    *)
(* the order in which the install functions line them up.                  *)
(*                                                                         *)
(* A Deployment is abstracted to the four lists of its container that      *)
(* several transformers write (environment variables, arguments, volumes   *)
(* and volume mounts), its label and annotation maps, the container image, *)
(* the seccomp profiles, and the fields that are replaced as a whole.  An  *)
(* entry of a list is a name and a value; the name of an argument is its   *)
(* prefix up to the "=", and "" when it has none.                          *)
(*                                                                         *)
(* A rendering starts from one of Inputs, takes one step per transformer   *)
(* and ends when none is left.                                             *)
(***************************************************************************)
EXTENDS Lists, GCPConfig

CONSTANTS
    Components,  \* the components rendered
    CAVolume,    \* the volume names "cabundle" + N, and
    CADir,       \* the directories "/custom/ca" + N, for N = 0, 1, ...
    CANames,     \* the names that begin with "cabundle"
    Inputs       \* the settings of the cluster (openshift, kube, tls, infra), of the
                 \* operator's environment (image, wif) and of the user (env, args,
                 \* volumes, mounts, caConfigMaps, log, maps, fields, addonImage,
                 \* version, block, audit, lifetime)

VARIABLES
    component,  \* what is rendered
    input,      \* the cluster it is rendered for and what the user asks for
    deploy,     \* the Deployment so far
    todo        \* the transformers still to run

vars == <<component, input, deploy, todo>>

KedaComponents == {"operator", "metrics", "webhooks"}
AddonComponents == {"interceptor", "addon"}

Entry(n, v) == [name |-> n, value |-> v]
NamesOf(list) == {list[i].name : i \in DOMAIN list}

Image(n, t) == [name |-> n, tag |-> t]

\* The entries of a list have names and values.
Entries == [name : STRING, value : STRING]

\* The texts that the manifests and the transformers write.  They are strings, which
\* the proofs cannot do without and the provers do not know.
Texts ==
    {"--zap-log-level=", "info", "--zap-encoder=", "console", "--zap-time-encoding=",
     "rfc3339", "WATCH_NAMESPACE", "", "--leader-elect", "--enable-cert-rotation=",
     "true", "certificates", "kedaorg-certs", "/certs", "error", "--client-ca-file=",
     "/certs/ca.crt", "--tls-cert-file=", "/certs/tls.crt", "--tls-private-key-file=",
     "/certs/tls.key", "temp-vol", "emptyDir", "/tmp", "KEDA_HTTP_PROXY_PORT", "8080",
     "KEDA_HTTP_SCALER_PORT", "9090", "watched", "TLS_MIN_VERSION", "profile",
     "TLS_CIPHER_LIST", "KEDA_HTTP_TLS_CA_DIRS", "/custom/ca0", "false",
     "/certs/ocp-tls.crt", "/certs/ocp-tls.key", "audit-policy", "policy",
     "/var/audit-policy", "audit-log", "claim", "/var/audit-policy/log",
     "--audit-log-format=", "--audit-log-maxage=", "--audit-log-maxbackup=",
     "--audit-log-maxsize=", "--v=", "3", "bound-sa-token", "gcp-credentials",
     "keda-gcp-credentials", "/var/run/secrets/openshift", "/var/run/secrets/gcp",
     "GOOGLE_APPLICATION_CREDENTIALS", "file", "CLOUDSDK_CORE_PROJECT",
     "interceptor-certs", "proxy-certs", "KEDA_HTTP_PROXY_TLS_ENABLED",
     "--audit-policy-file=", "policy.yaml", "--audit-log-path=", "-", "service-certs",
     "--ca-dir=", "keda-ocp-cabundle", "openshift"}

ASSUME TextsAssumption == Texts \subseteq STRING

MapNames == {"deploymentAnnotations", "deploymentLabels", "podAnnotations", "podLabels"}
FieldNames == {"replicas", "nodeSelector", "tolerations", "affinity", "priorityClassName",
               "resources"}

ZapArgs == <<Entry("--zap-log-level=", "info"), Entry("--zap-encoder=", "console"),
             Entry("--zap-time-encoding=", "rfc3339")>>

\* What the manifest has of a container, in a pod whose seccomp profile is set for
\* the pod (the add-on) or for the container (KEDA).
Container(env, args, volumes, mounts, seccomp) ==
    [env |-> env, args |-> args, volumes |-> volumes, mounts |-> mounts,
     seccomp |-> {seccomp}, image |-> Image("default", "manifest"),
     maps |-> [m \in MapNames |-> <<>>], fields |-> [f \in FieldNames |-> "manifest"]]

\* The embedded manifests, resources/keda.yaml and keda-http-addon.yaml.
Manifest ==
    [operator |->
       Container(<<Entry("WATCH_NAMESPACE", "")>>,
                 <<Entry("", "--leader-elect")>> \o ZapArgs
                   \o <<Entry("--enable-cert-rotation=", "true")>>,
                 <<Entry("certificates", "kedaorg-certs")>>,
                 <<Entry("certificates", "/certs")>>, "container"),
     metrics |->
       Container(<<Entry("WATCH_NAMESPACE", "")>>,
                 <<Entry("--zap-log-level=", "error"),
                   Entry("--client-ca-file=", "/certs/ca.crt"),
                   Entry("--tls-cert-file=", "/certs/tls.crt"),
                   Entry("--tls-private-key-file=", "/certs/tls.key")>>,
                 <<Entry("temp-vol", "emptyDir"), Entry("certificates", "kedaorg-certs")>>,
                 <<Entry("temp-vol", "/tmp"), Entry("certificates", "/certs")>>, "container"),
     webhooks |->
       Container(<<Entry("WATCH_NAMESPACE", "")>>, ZapArgs,
                 <<Entry("certificates", "kedaorg-certs")>>,
                 <<Entry("certificates", "/certs")>>, "container"),
     interceptor |->
       Container(<<Entry("KEDA_HTTP_PROXY_PORT", "8080")>>, ZapArgs, <<>>, <<>>, "pod"),
     addon |->
       Container(<<Entry("KEDA_HTTP_SCALER_PORT", "9090")>>, ZapArgs, <<>>, <<>>, "pod")]

-----------------------------------------------------------------------------
(* The transformers on lists *)

\* The position of the first entry of the name, which is in the list.
FirstOf(list, n) ==
    CHOOSE i \in DOMAIN list : list[i].name = n /\ \A j \in 1..(i - 1) : list[j].name # n

\* Overwrite the first entry of the same name, or append.
Put(list, e) ==
    IF e.name \in NamesOf(list) THEN [list EXCEPT ![FirstOf(list, e.name)] = e]
    ELSE Append(list, e)

\* ReplaceContainerEnv and the two that merge volume mounts: each new entry is
\* looked up in the list as it has become.
PutAll(list, new) ==
    LET merged[i \in 0..Len(new)] == IF i = 0 THEN list ELSE Put(merged[i - 1], new[i])
    IN merged[Len(new)]

ReplaceDeploymentVolumesAppending(list, new) == list \o new

\* ReplaceDeploymentVolumes looks names up in the list it started with.
ReplaceDeploymentVolumes(list, new) ==
    LET known == {e \in ToSet(new) : e.name \in NamesOf(list)}
    IN PutAll(list, Only(new, known)) \o Only(new, ToSet(new) \ known)

replaceContainerArgAppending(args, e) ==
    IF \E i \in DOMAIN args : args[i] = e THEN args ELSE Append(args, e)

\* An argument with a prefix replaces the first one with this prefix; one
\* without is added unless it is there.
replaceContainerArg(args, e) ==
    IF e.name # "" THEN Put(args, e)
    ELSE IF \E i \in DOMAIN args : args[i] = e THEN args ELSE Append(args, e)

SetArgs(args, new) ==
    LET merged[i \in 0..Len(new)] ==
          IF i = 0 THEN args ELSE replaceContainerArg(merged[i - 1], new[i])
    IN merged[Len(new)]

\* All arguments with the prefix become one per value, at the place of the first.
replaceContainerArgs(args, prefix, values) ==
    LET new == [i \in DOMAIN values |-> Entry(prefix, values[i])]
        first == FirstOf(args, prefix)
        others == {e \in ToSet(args) : e.name # prefix}
    IN IF prefix \notin NamesOf(args) THEN args \o new
       ELSE SubSeq(args, 1, first - 1) \o new
              \o Only(SubSeq(args, first + 1, Len(args)), others)

\* The user writes an argument as prefix, "=" and value, or as a bare value; the
\* prefix is the one with the "--" in front, which is added if it is missing.  Of a
\* value with another "=" in it only the head, up to and with that "=", is used.
ReplaceArbitraryArg(a) ==
    CASE a.form = "bare"  -> Entry("", a.value)
      [] a.form = "plain" -> Entry(a.prefix, a.value)
      [] a.form = "more"  -> Entry(a.prefix, a.head)

-----------------------------------------------------------------------------
(* Volumes for CA bundles *)

\* Names and directories are numbered; the names in this module begin otherwise.
ASSUME CAAssumption ==
    /\ CAVolume \in Seq(CANames) /\ CADir \in Seq(STRING) /\ Len(CAVolume) = Len(CADir)
    /\ IsInjective(CAVolume)
    /\ CANames \subseteq STRING
    /\ {"certificates", "temp-vol", "audit-policy", "audit-log", "bound-sa-token",
        "gcp-credentials", "interceptor-certs", "keda-ocp-cabundle"} \cap CANames = {}

IsCA(name) == name \in CANames

\* The CA bundle of the cluster goes first on OpenShift, unless the user lists it.
caConfigMaps ==
    IF component = "interceptor" THEN <<"keda-ocp-cabundle">>
    ELSE IF input.openshift /\ "keda-ocp-cabundle" \notin ToSet(input.caConfigMaps)
    THEN <<"keda-ocp-cabundle">> \o input.caConfigMaps
    ELSE input.caConfigMaps

cabundleVolumesFromTheEnd(maps) ==
    [m \in ToSet(maps) |->
       Entry(CAVolume[Len(maps) + 1 - (CHOOSE i \in DOMAIN maps : maps[i] = m)], m)]

\* The volume of each ConfigMap, in a Go map keyed by the name of the ConfigMap: of
\* two positions with the same name the later one stays.
cabundleVolumes(maps) ==
    [m \in ToSet(maps) |->
       Entry(CAVolume[CHOOSE i \in DOMAIN maps :
                         maps[i] = m /\ \A j \in DOMAIN maps : maps[j] = m => j <= i], m)]

\* The mount of each position, keyed by the name of the volume.
cabundleVolumeMounts(maps) ==
    [v \in {CAVolume[i] : i \in DOMAIN maps} |->
       Entry(v, CADir[CHOOSE i \in DOMAIN maps : CAVolume[i] = v])]

RekeyedDroppingOthers(list, keyed) ==
    LET placed == Only(list, {e \in ToSet(list) : e.name \in DOMAIN keyed})
    IN {placed \o rest : rest \in SetToSeqs({keyed[k] : k \in DOMAIN keyed \ NamesOf(placed)})}

\* Entries whose name is a key are replaced by what is keyed, other cabundle
\* entries are dropped, and the keys not met are appended in any order.
Rekeyed(list, keyed) ==
    LET kept == Only(list, {e \in ToSet(list) : e.name \in DOMAIN keyed \/ ~IsCA(e.name)})
        placed == [i \in DOMAIN kept |->
                     IF kept[i].name \in DOMAIN keyed THEN keyed[kept[i].name] ELSE kept[i]]
        missing == {keyed[k] : k \in DOMAIN keyed \ NamesOf(list)}
    IN {placed \o rest : rest \in SetToSeqs(missing)}

-----------------------------------------------------------------------------
(* The order of the transformers in installController, installMetricsServer, *)
(* installAdmissionWebhooks and installHTTPAddon *)

\* kedaOperatorSpecTransforms; the metrics server and the webhooks follow suit.
SpecTransforms == <<"spec", "volumes", "mounts", "args">>

\* httpAddonComponentTransforms.
AddonTransforms == <<"image", "env", "log", "spec", "volumes", "mounts", "seccomp">>

OperatorPipelineGCPEarly ==
    <<"watchNamespace", "tls", "caArgs", "caVolumes", "certificates", "certRotation",
      "seccomp", "image", "gcp", "log">> \o SpecTransforms \o <<"env">>

OperatorPipeline ==
    <<"watchNamespace", "tls", "caArgs", "caVolumes", "certificates", "certRotation",
      "seccomp", "image", "log">> \o SpecTransforms \o <<"gcp", "env">>

\* The audit flags come between the fields of the spec and the volumes.
MetricsPipeline ==
    <<"image", "tls", "seccomp", "certificates", "certPaths", "audit", "log", "spec",
      "auditConfig", "volumes", "mounts", "args", "env">>

WebhooksPipeline ==
    <<"watchNamespace", "tls", "seccomp", "certificates", "image", "log">>
      \o SpecTransforms \o <<"env">>

InterceptorPipeline ==
    AddonTransforms \o <<"certSecret", "proxyTLS", "tls", "caEnv", "caVolumes">>

PipelineEnvEarly(c) ==
    CASE c = "operator"    -> <<"env">> \o OperatorPipeline
      [] c = "metrics"     -> <<"env">> \o Only(MetricsPipeline, ToSet(MetricsPipeline) \ {"env"})
      [] c = "webhooks"    -> WebhooksPipeline
      [] c = "interceptor" -> InterceptorPipeline
      [] c = "addon"       -> AddonTransforms

Pipeline(c) ==
    CASE c = "operator"    -> OperatorPipeline
      [] c = "metrics"     -> MetricsPipeline
      [] c = "webhooks"    -> WebhooksPipeline
      [] c = "interceptor" -> InterceptorPipeline
      [] c = "addon"       -> AddonTransforms

\* An argument of the user, without "=", with one, or with more than one.
Arguments ==
    [form : {"bare"}, value : STRING] \cup [form : {"plain"}, prefix : STRING, value : STRING]
      \cup [form : {"more"}, prefix : STRING, value : STRING, head : STRING]

\* What the lists of a KedaController can contain; CAVolume is long enough for all
\* the ConfigMaps and the one of the cluster.
ASSUME InputsAssumption ==
    /\ Components \subseteq KedaComponents \cup AddonComponents
    /\ \A i \in Inputs :
         /\ i.openshift \in BOOLEAN /\ i.tls \in BOOLEAN
         /\ i.audit \in {"off", "stdout", "volume", "noclaim"}
         /\ {i.env, i.volumes, i.mounts} \subseteq Seq(Entries)
         /\ i.args \in Seq(Arguments)
         /\ i.caConfigMaps \in Seq(STRING) /\ Len(i.caConfigMaps) < Len(CAVolume)
         /\ {i.log.level, i.log.encoder, i.log.time} \subseteq STRING
         /\ {i.lifetime.format, i.lifetime.maxage, i.lifetime.maxbackup, i.lifetime.maxsize}
              \subseteq STRING
         /\ {p.token.text : p \in {i.wif, i.block.params}} \subseteq STRING
         /\ {p.project.text : p \in {i.wif, i.block.params}} \subseteq STRING
         /\ i.infra.project \in STRING

Init ==
    /\ component \in Components /\ input \in Inputs
    /\ deploy = Manifest[component]
    /\ todo = <<"gcpConfig">> \o Pipeline(component)

Step(t) ==
    /\ todo # <<>> /\ Head(todo) = t
    /\ todo' = Tail(todo)
    /\ UNCHANGED <<component, input>>

\* An error ends the install before anything is rendered.
Reject(t) ==
    /\ todo # <<>> /\ Head(todo) = t
    /\ todo' = <<"rejected">>
    /\ UNCHANGED <<component, input, deploy>>

\* A transformer is lined up only under its condition.
When(condition, new) == deploy' = IF condition THEN new ELSE deploy

gcpConfig == gcpWorkloadIdentityConfig(input.block, input.wif)

\* Reconcile validates the Workload Identity parameters before it installs anything.
CheckGCPConfig ==
    \/ gcpConfig.kind # "invalid" /\ Step("gcpConfig") /\ UNCHANGED deploy
    \/ gcpConfig.kind = "invalid" /\ Reject("gcpConfig")

WithCertificates(volume) ==
    [deploy EXCEPT !.volumes = Put(@, Entry("certificates", volume)),
                   !.mounts = IF component = "operator" THEN @
                              ELSE Put(@, Entry("certificates", "/certs"))]

\* Only an existing variable is changed.
ReplaceWatchNamespace ==
    /\ Step("watchNamespace")
    /\ When("WATCH_NAMESPACE" \in NamesOf(deploy.env),
            [deploy EXCEPT !.env = Put(@, Entry("WATCH_NAMESPACE", "watched"))])

\* The two TLS variables of the profile, when the cluster's profile is known.
TLSEnvVars ==
    /\ Step("tls")
    /\ When(input.tls /\ (component = "interceptor" => input.openshift),
            [deploy EXCEPT !.env = PutAll(@, <<Entry("TLS_MIN_VERSION", "profile"),
                                               Entry("TLS_CIPHER_LIST", "profile")>>)])

EnsureCADirs ==
    /\ Step("caArgs")
    /\ deploy' = [deploy EXCEPT !.args =
                    replaceContainerArgs(@, "--ca-dir=", SubSeq(CADir, 1, Len(caConfigMaps)))]

EnsureCADirsEnv ==
    /\ Step("caEnv")
    /\ When(input.openshift,
            [deploy EXCEPT !.env = Put(@, Entry("KEDA_HTTP_TLS_CA_DIRS", "/custom/ca0"))])

ensureCACertVolumesAndMounts ==
    /\ Step("caVolumes")
    /\ \/ /\ component = "interceptor" => input.openshift
          /\ \E volumes \in Rekeyed(deploy.volumes, cabundleVolumes(caConfigMaps)),
                mounts \in Rekeyed(deploy.mounts, cabundleVolumeMounts(caConfigMaps)) :
               deploy' = [deploy EXCEPT !.volumes = volumes, !.mounts = mounts]
       \/ component = "interceptor" /\ ~input.openshift /\ UNCHANGED deploy

\* The projected certificates of the component's service, on OpenShift.  In the
\* operator's Deployment only the volume is replaced: the mount is looked for in
\* the container of the webhooks.
EnsureCertificatesVolume ==
    /\ Step("certificates")
    /\ When(input.openshift, WithCertificates("service-certs"))

SetOperatorCertRotation ==
    /\ Step("certRotation")
    /\ deploy' = [deploy EXCEPT !.args =
                    replaceContainerArg(@, Entry("--enable-cert-rotation=",
                                                 IF input.openshift THEN "false" ELSE "true"))]

EnsurePathsToCerts ==
    /\ Step("certPaths")
    /\ When(input.openshift,
            [deploy EXCEPT !.args =
               SetArgs(@, <<Entry("--client-ca-file=", "/certs/ca.crt"),
                            Entry("--tls-cert-file=", "/certs/ocp-tls.crt"),
                            Entry("--tls-private-key-file=", "/certs/ocp-tls.key")>>)])

\* Lifetime limits make no sense for stdout, where they have to be empty or numbers
\* below one; for a volume they are not looked at, but the claim has to be found.
AuditAccepted ==
    /\ input.audit # "noclaim"
    /\ input.audit = "stdout" =>
         \A l \in {"maxage", "maxbackup", "maxsize"} : input.lifetime[l] \in {"", "0"}

EnsureAuditPolicyConfigMapMountsVolume(d) ==
    [d EXCEPT !.volumes = Put(@, Entry("audit-policy", "policy")),
              !.mounts = Put(@, Entry("audit-policy", "/var/audit-policy"))]

EnsureAuditLogMount(d) ==
    [d EXCEPT !.volumes = Put(@, Entry("audit-log", "claim")),
              !.mounts = Put(@, Entry("audit-log", "/var/audit-policy/log"))]

ReplaceAuditConfig(d, flag, value) ==
    [d EXCEPT !.args = replaceContainerArg(@, Entry(flag, value))]

\* Auditing to stdout or to a volume.
EnsureAudit ==
    LET policy == ReplaceAuditConfig(EnsureAuditPolicyConfigMapMountsVolume(deploy),
                                     "--audit-policy-file=", "policy.yaml")
        logged(d, to) == ReplaceAuditConfig(d, "--audit-log-path=", to)
    IN /\ Step("audit")
       /\ AuditAccepted
       /\ deploy' = CASE input.audit = "off" -> deploy
                      [] input.audit = "stdout" -> logged(policy, "-")
                      [] input.audit = "volume" -> logged(EnsureAuditLogMount(policy), "file")

RejectAudit == ~AuditAccepted /\ Reject("audit")

\* The flags that are set, whether auditing is on or off.
auditConfigTransformation ==
    LET flags == <<Entry("--audit-log-format=", input.lifetime.format),
                   Entry("--audit-log-maxage=", input.lifetime.maxage),
                   Entry("--audit-log-maxbackup=", input.lifetime.maxbackup),
                   Entry("--audit-log-maxsize=", input.lifetime.maxsize)>>
    IN /\ Step("auditConfig")
       /\ deploy' = [deploy EXCEPT !.args =
                       SetArgs(@, Only(flags, {e \in ToSet(flags) : e.value # ""}))]

\* The metrics server takes a number only, under another name, and neither encoder.
\* What is not known is ignored.
KnownLogSettings ==
    IF component = "metrics"
    THEN Only(<<Entry("--v=", input.log.level)>>, {Entry("--v=", "3")})
    ELSE Only(<<Entry("--zap-log-level=", input.log.level),
                Entry("--zap-encoder=", input.log.encoder),
                Entry("--zap-time-encoding=", input.log.time)>>,
              {e \in Entries : e.value \in {"debug", "3", "json", "epoch"}})

ReplaceLogLevel ==
    /\ Step("log")
    /\ deploy' = [deploy EXCEPT !.args = SetArgs(@, KnownLogSettings)]

\* The name and tag an add-on image is asked for by, or nothing.
httpAddonResolveImage(image, version) ==
    LET tag == IF image.tag = "" THEN version ELSE image.tag
    IN IF image.name = "" /\ tag = "" THEN Image("", "")
       ELSE Image(IF image.name = "" THEN "default" ELSE image.name, tag)

\* The image named in the operator's environment; for the add-on, failing that, the
\* one of the spec.
ReplaceContainerImage ==
    LET wanted == IF input.image # "" THEN Image(input.image, "")
                  ELSE IF component \in AddonComponents
                  THEN httpAddonResolveImage(input.addonImage, input.version)
                  ELSE Image("", "")
    IN /\ Step("image")
       /\ When(wanted.name # "", [deploy EXCEPT !.image = wanted])

\* Kubernetes 1.23 and earlier; a version that cannot be read counts as later.
RunningOnClusterWithoutSeccompProfileDefault ==
    input.kube.known /\ input.kube.major <= 1 /\ input.kube.minor <= 23

RemoveSeccompProfile ==
    /\ Step("seccomp")
    /\ When(input.openshift /\ RunningOnClusterWithoutSeccompProfileDefault,
            [deploy EXCEPT !.seccomp = {}])

\* updateMap: the new values go over the old ones.
updateMap(old, new) ==
    [k \in DOMAIN old \cup DOMAIN new |-> IF k \in DOMAIN new THEN new[k] ELSE old[k]]

\* Labels and annotations are merged, the other fields replaced; each transformer
\* writes its own field.
ReplaceSpecFields ==
    /\ Step("spec")
    /\ deploy' = [deploy EXCEPT !.maps = [m \in MapNames |-> updateMap(@[m], input.maps[m])],
                                !.fields = updateMap(@, input.fields)]

ReplaceVolumes ==
    /\ Step("volumes")
    /\ deploy' = [deploy EXCEPT !.volumes = ReplaceDeploymentVolumes(@, input.volumes)]

ReplaceVolumeMounts ==
    /\ Step("mounts")
    /\ deploy' = [deploy EXCEPT !.mounts = PutAll(@, input.mounts)]

ReplaceArgs ==
    /\ Step("args")
    /\ deploy' = [deploy EXCEPT !.args =
                    SetArgs(@, [i \in DOMAIN input.args |-> ReplaceArbitraryArg(input.args[i])])]

\* Both empty on clusters other than OpenShift; a project of the configuration wins.
gcpPlatform ==
    IF input.openshift THEN PlatformFromInfrastructure(input.infra)
    ELSE [project |-> "", universe |-> ""]
gcpProject == IF gcpConfig.project # "" THEN gcpConfig.project ELSE gcpPlatform.project
gcpDocument == CredentialsJSON(gcpConfig, gcpPlatform.universe)

HashAnnotation == "kedacontroller.keda.sh/gcp-credentials-hash"

\* The token, the credential Secret and the hash of the credentials, when GCP
\* Workload Identity Federation is configured.
GCPDeploymentTransforms ==
    LET volumes == <<Entry("bound-sa-token", gcpConfig.token),
                     Entry("gcp-credentials", "keda-gcp-credentials")>>
        mounts == <<Entry("bound-sa-token", "/var/run/secrets/openshift"),
                    Entry("gcp-credentials", "/var/run/secrets/gcp")>>
        env == <<Entry("GOOGLE_APPLICATION_CREDENTIALS", "file")>>
                 \o (IF gcpProject = "" THEN <<>>
                     ELSE <<Entry("CLOUDSDK_CORE_PROJECT", gcpProject)>>)
        hash == [a \in {HashAnnotation} |-> CredentialsHash(gcpDocument)]
    IN /\ Step("gcp")
       /\ When(gcpConfig.kind = "config",
               [deploy EXCEPT !.volumes = ReplaceDeploymentVolumes(@, volumes),
                              !.mounts = PutAll(@, mounts),
                              !.env = PutAll(@, env),
                              !.maps.podAnnotations = updateMap(@, hash)])

ReplaceContainerEnv ==
    /\ Step("env")
    /\ deploy' = [deploy EXCEPT !.env = PutAll(@, input.env)]

EnsureCertSecretVolume ==
    /\ Step("certSecret")
    /\ When(input.openshift,
            [deploy EXCEPT !.volumes = Put(@, Entry("interceptor-certs", "proxy-certs")),
                           !.mounts = Put(@, Entry("interceptor-certs", "/certs"))])

EnsureProxyTLS ==
    /\ Step("proxyTLS")
    /\ When(input.openshift,
            [deploy EXCEPT !.env = Put(@, Entry("KEDA_HTTP_PROXY_TLS_ENABLED", "true"))])

-----------------------------------------------------------------------------
Next ==
    \/ CheckGCPConfig \/ ReplaceContainerImage \/ RemoveSeccompProfile \/ ReplaceSpecFields
    \/ ReplaceWatchNamespace \/ TLSEnvVars \/ EnsureCADirs \/ EnsureCADirsEnv
    \/ ensureCACertVolumesAndMounts \/ EnsureCertificatesVolume
    \/ SetOperatorCertRotation \/ EnsurePathsToCerts
    \/ EnsureAudit \/ RejectAudit \/ auditConfigTransformation
    \/ ReplaceLogLevel \/ ReplaceVolumes \/ ReplaceVolumeMounts \/ ReplaceArgs
    \/ GCPDeploymentTransforms \/ ReplaceContainerEnv
    \/ EnsureCertSecretVolume \/ EnsureProxyTLS

Spec == Init /\ [][Next]_vars

-----------------------------------------------------------------------------
(* Properties *)

Rendered == todo = <<>>

\* The last entry of its name in a list the user wrote.
IsLast(list, i) == \A j \in DOMAIN list : list[j].name = list[i].name => j <= i

UserEnvIn(env) ==
    \A i \in DOMAIN input.env : IsLast(input.env, i) =>
       {env[j] : j \in {k \in DOMAIN env : env[k].name = input.env[i].name}} = {input.env[i]}

\* README.md: "These values are applied after the ones the operator sets itself,
\* so a user-supplied variable always wins": whatever else is configured, a container
\* has the user's value and no second entry of that name.  Left out is the interceptor
\* on OpenShift, where TLS, proxy and CA variables are set after the user's.
UserVariableWins ==
    Rendered /\ (component = "interceptor" => ~input.openshift) => UserEnvIn(deploy.env)

\* The user's arguments as they are written, not as the operator reads them.
UserArguments ==
    [i \in DOMAIN input.args |->
       Entry(IF input.args[i].form = "bare" THEN "" ELSE input.args[i].prefix,
             input.args[i].value)]

\* The arguments no later one of the user's overrides.
InEffect(i) == UserArguments[i].name = "" \/ IsLast(UserArguments, i)

\* "Any user-defined arguments with possibility to override any existing or
\* previously defined arguments" (KedaOperatorSpec.Args), for arguments with at most
\* one "=": what the user wrote is there, once, and apart from --ca-dir, which may be
\* repeated, nothing the operator or the manifest sets under the same prefix is left
\* to contradict it.
UserArgumentWins ==
    LET same(e, j) == IF e.name = "" THEN deploy.args[j] = e ELSE deploy.args[j].name = e.name
    IN Rendered /\ component \in KedaComponents =>
         \A i \in DOMAIN input.args : InEffect(i) /\ input.args[i].form # "more" =>
            /\ UserArguments[i] \in ToSet(deploy.args)
            /\ UserArguments[i].name # "--ca-dir=" =>
                 \A j, k \in DOMAIN deploy.args :
                    same(UserArguments[i], j) /\ same(UserArguments[i], k) => j = k

\* README.md: "Define any argument with possibility to override already existing ones
\* [...] format is either with prefix '--key=value' or just 'value'": every argument the
\* user wrote and did not override is in the container.  The code breaks it for a value
\* with an "=" in it (--feature-gates=A=true): ReplaceArbitraryArg keeps "A=".
UserArgumentIsUsed ==
    Rendered /\ component \in KedaComponents =>
      \A i \in DOMAIN input.args : InEffect(i) => UserArguments[i] \in ToSet(deploy.args)

NamedOnce(list) == \A i, j \in DOMAIN list : list[i].name = list[j].name => i = j

\* What the user asks for fits together: no volume twice, no mount without a volume
\* of the user's or of the manifest, no CA ConfigMap twice or with the name of a
\* volume that it would replace.
Coherent ==
    /\ NamedOnce(input.volumes)
    /\ NamesOf(input.mounts) \subseteq
         NamesOf(input.volumes) \cup NamesOf(Manifest[component].volumes)
    /\ IsInjective(input.caConfigMaps) /\ "certificates" \notin ToSet(input.caConfigMaps)
    /\ "keda-ocp-cabundle" \notin NamesOf(input.volumes)

\* Every volume mount of the rendered container has its volume, and no name comes
\* twice, if that is so of what the user adds: otherwise the API server refuses the
\* Deployment and the install fails.  On an OpenShift up to Kubernetes 1.23, no
\* seccomp profile is left for it to refuse.
MountsHaveVolumes ==
    Rendered /\ Coherent =>
      /\ NamesOf(deploy.mounts) \subseteq NamesOf(deploy.volumes)
      /\ NamedOnce(deploy.volumes) /\ NamedOnce(deploy.mounts)
      /\ input.openshift /\ input.kube = [known |-> TRUE, major |-> 1, minor |-> 23]
           => deploy.seccomp = {}

\* Every directory the operator is told to load CAs from is one a CA bundle is
\* mounted at, and there is one for every ConfigMap, whatever order the volumes
\* were appended in (EnsureCACertsForOperatorDeployment).  A user who overrides
\* the directories or the volumes, or names a ConfigMap twice, is left out.
CADirsAreMounted ==
    /\ Rendered /\ component = "operator" /\ IsInjective(input.caConfigMaps)
    /\ \A i \in DOMAIN input.args : ReplaceArbitraryArg(input.args[i]).name # "--ca-dir="
    /\ \A n \in NamesOf(input.volumes) \cup NamesOf(input.mounts) : ~IsCA(n)
    =>
      \A i \in DOMAIN caConfigMaps :
         /\ Entry("--ca-dir=", CADir[i]) \in ToSet(deploy.args)
         /\ \E v \in CANames :
               /\ Entry(v, CADir[i]) \in ToSet(deploy.mounts)
               /\ Entry(v, caConfigMaps[i]) \in ToSet(deploy.volumes)

OtherVolumes(list) == Only(list, {e \in ToSet(list) : ~IsCA(e.name)})

\* ensureCACertVolumesAndMounts: "mounts configMapNames on containerName as
\* indexed cabundle volumes at /custom/ca<N>, replacing any stale cabundle
\* volumes/mounts": the other volumes stay as they are, unless one of them has the
\* name of a ConfigMap, by which the new volumes are looked up.
OtherVolumesKept ==
    [][ /\ todo # <<>> /\ Head(todo) = "caVolumes"
        /\ ToSet(caConfigMaps) \cap NamesOf(deploy.volumes) = {}
        => OtherVolumes(deploy.volumes) = OtherVolumes(deploy'.volumes) ]_vars

\* resolveAudience: "so that an install can't silently end up with a provider the
\* administrator didn't intend"; gcpWorkloadIdentityConfig: "exactly one source applies
\* at a time and the two are never merged field by field".  Whatever is installed has
\* every parameter of the source in effect as the administrator gave it, and nothing
\* of the other source; KEDA goes without cloud access only if neither asks for it.
ProviderIsTheIntendedOne ==
    LET given == IF input.block.given THEN input.block.params ELSE input.wif
        agrees(v, used) == v.text = <<>> \/ v.text = used
    IN Rendered =>
         IF gcpConfig.kind = "none"
         THEN ~input.block.given /\ NothingSet(input.wif)
         ELSE /\ gcpConfig.email = given.email.text
              /\ agrees(given.audience, gcpConfig.audience)
              /\ agrees(given.number, gcpConfig.audience[2])
              /\ agrees(given.pool, gcpConfig.audience[4])
              /\ agrees(given.provider, gcpConfig.audience[5])
              /\ given.token.text \in {"", gcpConfig.token}
              /\ given.project.text \in {"", gcpConfig.project}

\* CredentialsHashAnnotation: "set on the keda-operator pod template so that a change
\* of the credential configuration restarts the pods".  With Workload Identity the
\* rendered pod carries the hash of the document in effect, and it mounts the Secret
\* and the token, even if the user has an annotation, a volume or a mount of that name.
CredentialsReachTheOperator ==
    Rendered /\ component = "operator" /\ gcpConfig.kind = "config" =>
      /\ deploy.maps.podAnnotations[HashAnnotation] = CredentialsHash(gcpDocument)
      /\ {Entry("gcp-credentials", "keda-gcp-credentials"),
          Entry("bound-sa-token", gcpConfig.token)} \subseteq ToSet(deploy.volumes)
      /\ {Entry("gcp-credentials", "/var/run/secrets/gcp"),
          Entry("bound-sa-token", "/var/run/secrets/openshift")} \subseteq ToSet(deploy.mounts)
      /\ "GOOGLE_APPLICATION_CREDENTIALS" \in NamesOf(deploy.env)
=============================================================================
