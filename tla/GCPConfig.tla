------------------------------ MODULE GCPConfig ------------------------------
(***************************************************************************)
(* The GCP Workload Identity parameters: how a configuration is read from  *)
(* the operator's environment or from spec.operator.gcpWorkloadIdentity,   *)
(* validated, and turned into the credential document                      *)
(* (internal/controller/keda/gcp).                                         *)
(*                                                                         *)
(* A source is a record of the seven parameters.  A parameter is written   *)
(* as [pad, text]: pad tells whether white space surrounds the text.  The  *)
(* texts of email, number, pool and provider are sequences of tokens, the  *)
(* text of audience is the sequence of the variable segments of the        *)
(* resource name, and project and token (the audience of the projected     *)
(* token) are names.                                                       *)
(***************************************************************************)
EXTENDS Naturals, Sequences, SequencesExt

Digits == {"1", "2"}

TrimSpace(v) == v.text

\* Something before the first "@", and after it a domain with a dot and no "@".
validateServiceAccountEmail(email) ==
    LET at == SelectInSeq(email, LAMBDA c : c = "@")
        domain == SubSeq(email, at + 1, Len(email))
    IN at > 1 /\ "@" \notin ToSet(domain) /\ "." \in ToSet(domain)

\* audienceRegexp: //iam.<domain>/projects/<number>/locations/<location>/
\* workloadIdentityPools/<pool>/providers/<provider>.
MatchesAudience(audience) == Len(audience) = 5
MatchesProjectNumber(t) == ToSet(t) \subseteq Digits
\* The slash stands for the characters an identifier cannot have.
MatchesIdentifier(t) == "/" \notin ToSet(t)

audienceFormat(number, pool, provider) ==
    <<"googleapis.com", number, "global", pool, provider>>

\* Without the comparison of the two.
resolveAudienceUnchecked(audience, number, pool, provider) ==
    LET triplet == number # <<>> \/ pool # <<>> \/ provider # <<>>
    IN [ok |-> /\ audience # <<>> \/ triplet
               /\ audience # <<>> => MatchesAudience(audience),
        value |-> IF audience # <<>> THEN audience ELSE audienceFormat(number, pool, provider)]

\* The audience itself or the one its components make; when both are given they
\* have to agree.
resolveAudience(audience, number, pool, provider) ==
    LET triplet == number # <<>> \/ pool # <<>> \/ provider # <<>>
        built == audienceFormat(number, pool, provider)
        complete == number # <<>> /\ pool # <<>> /\ provider # <<>>
        wellFormed == /\ MatchesProjectNumber(number)
                      /\ MatchesIdentifier(pool) /\ MatchesIdentifier(provider)
    IN [ok |-> /\ audience # <<>> \/ triplet
               /\ audience # <<>> => MatchesAudience(audience)
               /\ triplet => complete /\ wellFormed /\ (audience # <<>> => audience = built),
        value |-> IF triplet THEN built ELSE audience]

NotConfigured == [kind |-> "none"]
Invalid == [kind |-> "invalid"]

\* Without the project, which alone configures nothing.
NothingSet(p) ==
    /\ TrimSpace(p.email) = <<>> /\ TrimSpace(p.audience) = <<>>
    /\ TrimSpace(p.number) = <<>> /\ TrimSpace(p.pool) = <<>> /\ TrimSpace(p.provider) = <<>>
    /\ TrimSpace(p.token) = ""

parseConfig(p, required, source) ==
    LET audience == resolveAudience(TrimSpace(p.audience), TrimSpace(p.number),
                                    TrimSpace(p.pool), TrimSpace(p.provider))
        email == TrimSpace(p.email)
        token == TrimSpace(p.token)
    IN IF ~required /\ NothingSet(p) THEN NotConfigured
       ELSE IF ~validateServiceAccountEmail(email) \/ ~audience.ok THEN Invalid
       ELSE [kind |-> "config", source |-> source, audience |-> audience.value,
             email |-> email, project |-> TrimSpace(p.project),
             token |-> IF token = "" THEN "openshift" ELSE token]

ConfigFromEnv(p) == parseConfig(p, FALSE, "OperatorEnvironment")
ConfigFromSpec(p) == parseConfig(p, TRUE, "KedaController")

\* A block that is there takes precedence as a whole; the two are never merged.
gcpWorkloadIdentityConfig(block, env) ==
    IF block.given THEN ConfigFromSpec(block.params) ELSE ConfigFromEnv(env)

\* The project and the universe domain of the cluster, empty when it is not on GCP.
PlatformFromInfrastructure(infra) ==
    IF infra.gcp THEN [project |-> infra.project, universe |-> infra.universe]
    ELSE [project |-> "", universe |-> ""]

\* The document names its universe only when that is not the public one; the hash
\* of a document stands for the document.
CredentialsJSON(config, universe) ==
    [audience |-> config.audience, email |-> config.email,
     endpoints |-> IF universe = "" THEN "googleapis.com" ELSE universe,
     universe_domain |-> IF universe = "googleapis.com" THEN "" ELSE universe]

CredentialsHash(document) == <<"sha256", document>>
=============================================================================
