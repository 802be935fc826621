----------------------------- MODULE MCRendering -----------------------------
(* Rendering for the settings that can collide: user entries under the names   *)
(* the manifests and the transformers use, on every kind of cluster, and the   *)
(* Workload Identity parameters in every combination of good, bad and missing. *)
EXTENDS Rendering

MCVolume == <<"cabundle0", "cabundle1", "cabundle2">>
MCDir == <<"/custom/ca0", "/custom/ca1", "/custom/ca2">>
MCNames == ToSet(MCVolume) \cup {"cabundle-own"}

AllComponents == {"operator", "metrics", "webhooks", "interceptor", "addon"}

Written(t) == [pad |-> FALSE, text |-> t]
NoParams == [email |-> Written(<<>>), audience |-> Written(<<>>), number |-> Written(<<>>),
             pool |-> Written(<<>>), provider |-> Written(<<>>), project |-> Written(""),
             token |-> Written("")]
GoodEmail == <<"keda", "@", "p", ".", "com">>
GoodAudience == <<"googleapis.com", <<"1">>, "global", <<"p">>, <<"q">>>>
GoodParams == [NoParams EXCEPT !.email = Written(GoodEmail), !.audience = Written(GoodAudience)]
NoBlock == [given |-> FALSE, params |-> NoParams]
Block(p) == [given |-> TRUE, params |-> p]

Base == [openshift |-> FALSE, kube |-> [known |-> TRUE, major |-> 1, minor |-> 30],
         tls |-> FALSE, infra |-> [gcp |-> TRUE, project |-> "cluster", universe |-> ""],
         image |-> "", wif |-> NoParams, block |-> NoBlock,
         env |-> <<>>, args |-> <<>>, volumes |-> <<>>, mounts |-> <<>>,
         caConfigMaps |-> <<>>, log |-> [level |-> "", encoder |-> "", time |-> ""],
         maps |-> [m \in MapNames |-> <<>>], fields |-> <<>>,
         addonImage |-> Image("", ""), version |-> "",
         audit |-> "off",
         lifetime |-> [format |-> "", maxage |-> "", maxbackup |-> "", maxsize |-> ""]]

Clusters == {[Base EXCEPT !.openshift = o, !.tls = t, !.block = b] :
               o, t \in BOOLEAN, b \in {NoBlock, Block(GoodParams)}}

EnvNames == {"WATCH_NAMESPACE", "TLS_MIN_VERSION", "CLOUDSDK_CORE_PROJECT",
             "KEDA_HTTP_PROXY_TLS_ENABLED", "FREE"}
EnvLists == {<<Entry(n, "u")>> : n \in EnvNames}
             \cup {<<Entry(n, "u"), Entry(m, "v")>> : n, m \in EnvNames}

Plain(prefix, value) == [form |-> "plain", prefix |-> prefix, value |-> value]
Bare(value) == [form |-> "bare", value |-> value]
Args == {Plain(p, "u") : p \in {"--zap-log-level=", "--v=", "--enable-cert-rotation=",
                                "--ca-dir=", "--tls-cert-file="}}
          \cup {Plain("--v=", "w"), Bare("--leader-elect"), Bare("extra"),
                [form |-> "more", prefix |-> "--v=", value |-> "u=x", head |-> "u="]}
ArgLists == {<<a>> : a \in Args} \cup {<<a, b>> : a, b \in Args}
Logs == {[level |-> l, encoder |-> "json", time |-> t] :
           l \in {"unknown", "debug", "3"}, t \in {"", "epoch"}}

VolumeNames == {"certificates", "cabundle0", "cabundle-own", "gcp-credentials", "audit-policy", "free"}
CALists == {<<>>, <<"a">>, <<"a", "b">>, <<"a", "keda-ocp-cabundle">>}

WithEnv == {[c EXCEPT !.env = e] : c \in Clusters, e \in EnvLists}
WithArgs == {[Base EXCEPT !.openshift = o, !.args = a, !.caConfigMaps = m, !.log = l] :
               o \in BOOLEAN, a \in ArgLists, m \in {<<>>, <<"a", "b">>}, l \in Logs}
WithVolumes == {[c EXCEPT !.volumes = <<Entry(n, "u")>>,
                          !.mounts = IF m THEN <<Entry(n, "/u")>> ELSE <<>>,
                          !.caConfigMaps = l] :
                  c \in Clusters, n \in VolumeNames, m \in BOOLEAN, l \in CALists}
WithAudit == {[c EXCEPT !.audit = a, !.lifetime.maxage = t, !.lifetime.maxsize = u] :
                c \in Clusters, a \in {"off", "stdout", "volume", "noclaim"},
                t \in {"", "0", "7", "bad"}, u \in {"", "7"}}
WithFields == {[c EXCEPT !.maps.podAnnotations = a, !.fields = [replicas |-> "u"],
                         !.kube = k, !.image = i, !.addonImage = Image(n, t), !.version = v] :
                 c \in Clusters, a \in {HashAnnotation :> <<"u">>, "free" :> <<"u">>},
                 k \in {[known |-> TRUE, major |-> 1, minor |-> m] : m \in {23, 24}}
                         \cup {[known |-> FALSE, major |-> 0, minor |-> 0]},
                 i \in {"", "relocated"}, n \in {"", "own"}, t \in {"", "t"}, v \in {"", "v"}}

Params == {[email |-> [pad |-> w, text |-> e], audience |-> [pad |-> w, text |-> a],
            number |-> Written(n), pool |-> Written(p), provider |-> Written(q),
            project |-> Written(IF w THEN "own" ELSE ""),
            token |-> Written(IF w THEN "own" ELSE "")] :
             w \in BOOLEAN,
             e \in {<<>>, GoodEmail, <<"keda">>, <<"@", "p", ".", "com">>,
                    <<"keda", "@", "p", "@", "q", ".", "com">>},
             a \in {<<>>, <<"p">>, GoodAudience,
                    <<"googleapis.com", <<"1">>, "eu", <<"p">>, <<"q">>>>},
             n \in {<<>>, <<"1">>, <<"x">>}, p \in {<<>>, <<"p">>, <<"/">>},
             q \in {<<>>, <<"q">>, <<"r">>}}
WithParams == {[Base EXCEPT !.block = Block(p), !.wif = GoodParams] : p \in Params}
                \cup {[Base EXCEPT !.wif = p, !.openshift = TRUE, !.infra.gcp = g] :
                        p \in Params, g \in BOOLEAN}

\* What one argument becomes.
OneArgument == {[Base EXCEPT !.args = <<a>>] : a \in Args}

MCInputs == Clusters \cup WithEnv \cup WithArgs \cup WithVolumes \cup WithAudit
              \cup WithFields \cup WithParams
=============================================================================
