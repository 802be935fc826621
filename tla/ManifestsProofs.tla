---------------------------- MODULE ManifestsProofs ----------------------------
(***************************************************************************)
(* Proofs about Manifests: for every manifest with the contents that       *)
(* EmbeddedAssumption names, in any order, installation and removal can be *)
(* interrupted at any call and taken up again without losing a resource,   *)
(* leaving one behind or opening the network.                              *)
(***************************************************************************)
EXTENDS Manifests, ListsProofs

-----------------------------------------------------------------------------
(* The groups *)

Groups == KedaGroups \cup AddonGroups

\* What the parser puts into a group.
Home(g) ==
    IF g \in KedaGroups THEN {r \in ToSet(yaml) : GroupOf(r) = g}
    ELSE {r \in ToSet(HTTPAddonManifest) : AddonGroupOf(r) = g}

LEMMA ManifestTypes ==
  ASSUME yaml \in KedaManifests
  PROVE  /\ yaml \in Seq(Resource) /\ HTTPAddonManifest \in Seq(Resource)
         /\ ToSet(yaml) \subseteq Resource /\ ToSet(HTTPAddonManifest) \subseteq Resource
<1>1. yaml \in Seq(Resource) /\ HTTPAddonManifest \in Seq(Resource)
  BY ManifestsAssumption
<1>2. ASSUME NEW s \in Seq(Resource) PROVE ToSet(s) \subseteq Resource
  BY DEF ToSet
<1> QED BY <1>1, <1>2

\* EmbeddedAssumption, for the manifest this operator was built with.
LEMMA Embedded ==
  ASSUME yaml \in KedaManifests
  PROVE  /\ \A r, q \in Operands : r.kind = q.kind /\ r.name = q.name => r = q
         /\ \A r \in Operands : ~r.owned /\ (r.name = "keda-auth-reader" => r.ns = "kube-system")
         /\ \A r \in ToSet(yaml) :
              r.kind \in {"Namespace", "CustomResourceDefinition"} \cup HandledKinds
         /\ \A r \in ToSet(HTTPAddonManifest) :
              r.kind \notin {"Namespace", "CustomResourceDefinition", "NetworkPolicy", "APIService"}
         /\ \A r \in ToSet(yaml) : IsEgressPolicy(r) => r.exprs = <<Pods>>
         /\ ToSet(yaml) \cap ToSet(HTTPAddonManifest) = {}
BY EmbeddedAssumption DEF Operands

LEMMA Homes ==
  ASSUME yaml \in KedaManifests
  PROVE  /\ \A g \in Groups : Home(g) \subseteq Operands
         /\ \A r \in Operands : \E g \in Groups : r \in Home(g)
         /\ \A g \in Groups : \A r \in Home(g) : IsEgressPolicy(r) =>
              r \in ToSet(yaml) /\ g = "general"
<1>1. ASSUME NEW g \in KedaGroups, NEW r \in ToSet(yaml), GroupOf(r) = g
      PROVE  r \in Operands /\ (IsEgressPolicy(r) => g = "general")
  BY <1>1 DEF GroupOf, KedaGroups, Operands, IsEgressPolicy
<1>2. ASSUME NEW r \in ToSet(yaml), r \in Operands PROVE GroupOf(r) \in KedaGroups
  <2>1. r.kind \in HandledKinds
    BY <1>2, Embedded DEF Operands
  <2> QED BY <2>1 DEF HandledKinds, GroupOf, KedaGroups
<1>3. ASSUME NEW r \in ToSet(HTTPAddonManifest)
      PROVE  r \in Operands /\ ~IsEgressPolicy(r) /\ AddonGroupOf(r) \in AddonGroups
  <2>1. r.kind \notin {"Namespace", "CustomResourceDefinition", "NetworkPolicy"}
    BY Embedded
  <2> QED BY <2>1 DEF Operands, IsEgressPolicy, AddonGroupOf, AddonGroups
<1>4. KedaGroups \cap AddonGroups = {}
  BY DEF KedaGroups, AddonGroups
<1>5. \A r \in Operands : r \in ToSet(yaml) \/ r \in ToSet(HTTPAddonManifest)
  BY DEF Operands
<1> QED BY <1>1, <1>2, <1>3, <1>4, <1>5 DEF Home, Groups

\* x holds what s has of the ranks up to k, sorted.
SortedTo(s, k, x) ==
    /\ x \in Seq(Resource) /\ ToSet(x) = {r \in ToSet(s) : Rank(r) <= k}
    /\ \A i, j \in 1..Len(x) : i < j => Rank(x[i]) <= Rank(x[j])

LEMMA SortedFurther ==
  ASSUME NEW s \in Seq(Resource), NEW k \in Nat, NEW x, SortedTo(s, k, x),
         NEW y, y = Only(s, {r \in ToSet(s) : Rank(r) = k + 1})
  PROVE  SortedTo(s, k + 1, x \o y)
<1>0. \A r : Rank(r) \in Nat
  BY DEF Rank
<1>1. y \in Seq(Resource) /\ ToSet(y) = {r \in ToSet(s) : Rank(r) = k + 1}
  <2> DEFINE S == {r \in ToSet(s) : Rank(r) = k + 1}
  <2>1. S \subseteq ToSet(s)
    OBVIOUS
  <2> HIDE DEF S
  <2>2. Only(s, S) \in Seq(Resource \cap S) /\ ToSet(Only(s, S)) = ToSet(s) \cap S
    BY OnlySet
  <2>3. Only(s, S) \in Seq(Resource) /\ ToSet(Only(s, S)) = S
    BY <2>1, <2>2
  <2> QED BY <2>3 DEF S
<1>2. x \in Seq(Resource) /\ ToSet(x) = {r \in ToSet(s) : Rank(r) <= k}
  BY DEF SortedTo
<1>3. x \o y \in Seq(Resource) /\ ToSet(x \o y) = ToSet(x) \cup ToSet(y)
  <2>1. x \in Seq(Resource) /\ y \in Seq(Resource)
    BY <1>1, <1>2
  <2> QED BY ONLY <2>1, ConcatSet
<1>4. ToSet(x \o y) = {r \in ToSet(s) : Rank(r) <= k + 1}
  <2>1. \A r : Rank(r) <= k + 1 <=> Rank(r) <= k \/ Rank(r) = k + 1
    BY <1>0
  <2> QED BY <1>1, <1>2, <1>3, <2>1
<1>5. /\ Len(x) \in Nat /\ Len(y) \in Nat /\ Len(x \o y) = Len(x) + Len(y)
      /\ \A i \in 1..Len(x) : (x \o y)[i] = x[i]
      /\ \A i \in 1..Len(y) : (x \o y)[Len(x) + i] = y[i]
  BY <1>1, <1>2
<1>6. /\ \A i \in 1..Len(x) : Rank(x[i]) <= k
      /\ \A i \in 1..Len(y) : Rank(y[i]) = k + 1
  <2>1. \A i \in 1..Len(x) : x[i] \in ToSet(x)
    BY <1>2, InToSet
  <2>2. \A i \in 1..Len(y) : y[i] \in ToSet(y)
    BY <1>1, InToSet
  <2> QED BY <1>1, <1>2, <2>1, <2>2
<1>7. ASSUME NEW i \in 1..(Len(x) + Len(y)), NEW j \in 1..(Len(x) + Len(y)), i < j
      PROVE  Rank((x \o y)[i]) <= Rank((x \o y)[j])
  <2>1. CASE j <= Len(x)
    <3>1. i \in 1..Len(x) /\ j \in 1..Len(x)
      BY <1>5, <1>7, <2>1
    <3> QED BY <1>5, <1>7, <3>1 DEF SortedTo
  <2>2. CASE ~(j <= Len(x))
    <3>1. j - Len(x) \in 1..Len(y) /\ Len(x) + (j - Len(x)) = j
      BY <1>5, <2>2
    <3>2. Rank((x \o y)[j]) = k + 1
      BY <1>5, <1>6, <3>1
    <3>3. CASE i <= Len(x)
      <4>1. i \in 1..Len(x)
        BY <1>5, <3>3
      <4>2. Rank((x \o y)[i]) <= k
        BY <1>5, <1>6, <4>1
      <4> QED BY <1>0, <3>2, <4>2
    <3>4. CASE ~(i <= Len(x))
      <4>1. i - Len(x) \in 1..Len(y) /\ Len(x) + (i - Len(x)) = i
        BY <1>5, <3>4
      <4>2. Rank((x \o y)[i]) = k + 1
        BY <1>5, <1>6, <4>1
      <4> QED BY <1>0, <3>2, <4>2
    <3> QED BY <3>3, <3>4
  <2> QED BY <2>1, <2>2
<1> QED BY <1>3, <1>4, <1>5, <1>7 DEF SortedTo

LEMMA SortKeeps ==
  ASSUME NEW s \in Seq(Resource)
  PROVE  SortedTo(s, 7, sortMetricsResources(s))
         /\ ToSet(sortMetricsResources(s)) = ToSet(s)
<1> DEFINE Ranked(k) == Only(s, {r \in ToSet(s) : Rank(r) = k})
           s1 == Ranked(0) \o Ranked(1)
           s2 == s1 \o Ranked(2)
           s3 == s2 \o Ranked(3)
           s4 == s3 \o Ranked(4)
           s5 == s4 \o Ranked(5)
           s6 == s5 \o Ranked(6)
           s7 == s6 \o Ranked(7)
<1>1. sortMetricsResources(s) = s7
  BY DEF sortMetricsResources
<1>2. \A r : Rank(r) \in Nat /\ Rank(r) <= 7
  BY DEF Rank
<1>3. SortedTo(s, 0, Ranked(0))
  <2> DEFINE S == {r \in ToSet(s) : Rank(r) = 0}
             y == Only(s, S)
  <2>1. \A r \in S : Rank(r) <= 0 /\ Rank(r) = 0
    OBVIOUS
  <2>2. \A r : Rank(r) <= 0 => Rank(r) = 0
    BY <1>2
  <2>3. S = {r \in ToSet(s) : Rank(r) <= 0}
    BY <2>1, <2>2
  <2> HIDE DEF S
  <2>4. y \in Seq(Resource \cap S) /\ ToSet(y) = ToSet(s) \cap S
    BY OnlySet
  <2>5. y \in Seq(Resource) /\ ToSet(y) = {r \in ToSet(s) : Rank(r) <= 0}
    BY <2>3, <2>4
  <2>6. \A i \in 1..Len(y) : y[i] \in S
    BY <2>4
  <2> HIDE DEF y
  <2>7. \A i, j \in 1..Len(y) : Rank(y[i]) <= Rank(y[j])
    BY <2>1, <2>6
  <2>8. SortedTo(s, 0, y)
    BY <2>5, <2>7 DEF SortedTo
  <2> QED BY <2>8 DEF y, S
<1>4. ASSUME NEW k \in Nat, NEW x, SortedTo(s, k, x) PROVE SortedTo(s, k + 1, x \o Ranked(k + 1))
  BY <1>4, SortedFurther
<1> HIDE DEF Ranked
<1>5. /\ 0 \in Nat /\ 1 \in Nat /\ 2 \in Nat /\ 3 \in Nat /\ 4 \in Nat /\ 5 \in Nat /\ 6 \in Nat
      /\ 0 + 1 = 1 /\ 1 + 1 = 2 /\ 2 + 1 = 3 /\ 3 + 1 = 4 /\ 4 + 1 = 5 /\ 5 + 1 = 6 /\ 6 + 1 = 7
  OBVIOUS
<1> HIDE DEF s1, s2, s3, s4, s5, s6, s7
<1>11. SortedTo(s, 1, s1)
  BY <1>3, <1>4, <1>5 DEF s1
<1>12. SortedTo(s, 2, s2)
  BY <1>4, <1>5, <1>11 DEF s2
<1>13. SortedTo(s, 3, s3)
  BY <1>4, <1>5, <1>12 DEF s3
<1>14. SortedTo(s, 4, s4)
  BY <1>4, <1>5, <1>13 DEF s4
<1>15. SortedTo(s, 5, s5)
  BY <1>4, <1>5, <1>14 DEF s5
<1>16. SortedTo(s, 6, s6)
  BY <1>4, <1>5, <1>15 DEF s6
<1>17. SortedTo(s, 7, s7)
  BY <1>4, <1>5, <1>16 DEF s7
<1>18. ToSet(s7) = ToSet(s)
  BY <1>2, <1>17 DEF SortedTo
<1> QED BY <1>1, <1>17, <1>18

\* Nothing is lost and nothing is added when the manifests are split.
LEMMA ParsedGroups ==
  ASSUME yaml \in KedaManifests
  PROVE  /\ Parsed # <<>>
         /\ \A g \in Groups : Parsed[g] \in Seq(Resource) /\ ToSet(Parsed[g]) = Home(g)
<1>0. yaml \in Seq(Resource) /\ HTTPAddonManifest \in Seq(Resource)
  BY ManifestTypes
<1>1. ASSUME NEW m \in Seq(Resource), NEW S, S \subseteq ToSet(m)
      PROVE  Only(m, S) \in Seq(Resource) /\ ToSet(Only(m, S)) = S
  <2>1. Only(m, S) \in Seq(Resource \cap S) /\ ToSet(Only(m, S)) = ToSet(m) \cap S
    BY OnlySet
  <2> QED BY <1>1, <2>1
<1>2. ASSUME NEW g \in KedaGroups
      PROVE  Parsed[g] \in Seq(Resource) /\ ToSet(Parsed[g]) = Home(g)
  <2> DEFINE S == {r \in ToSet(yaml) : GroupOf(r) = g}
  <2>1. Only(yaml, S) \in Seq(Resource) /\ ToSet(Only(yaml, S)) = S
    BY <1>0, <1>1
  <2>2. Parsed[g] = IF g = "metrics" THEN sortMetricsResources(Only(yaml, S)) ELSE Only(yaml, S)
    BY DEF Parsed, parseManifestsFromFile, Groups
  <2>3. Home(g) = S
    BY DEF Home
  <2> HIDE DEF S
  <2>4. /\ sortMetricsResources(Only(yaml, S)) \in Seq(Resource)
        /\ ToSet(sortMetricsResources(Only(yaml, S))) = S
    BY <2>1, SortKeeps DEF SortedTo
  <2> QED BY <2>1, <2>2, <2>3, <2>4
<1>3. ASSUME NEW g \in AddonGroups
      PROVE  Parsed[g] \in Seq(Resource) /\ ToSet(Parsed[g]) = Home(g)
  <2> DEFINE S == {r \in ToSet(HTTPAddonManifest) : AddonGroupOf(r) = g}
  <2>1. Only(HTTPAddonManifest, S) \in Seq(Resource) /\ ToSet(Only(HTTPAddonManifest, S)) = S
    BY <1>0, <1>1
  <2>2. g \notin KedaGroups
    BY DEF KedaGroups, AddonGroups
  <2>3. Parsed[g] = Only(HTTPAddonManifest, S)
    BY <2>2 DEF Parsed, parseHTTPAddonManifests
  <2>4. Home(g) = S
    BY <2>2 DEF Home
  <2> HIDE DEF S
  <2> QED BY <2>1, <2>3, <2>4
<1>4. Parsed # <<>>
  <2>1. "general" \in DOMAIN Parsed
    BY DEF Parsed, KedaGroups
  <2>2. DOMAIN <<>> = {}
    OBVIOUS
  <2> QED BY <2>1, <2>2
<1> QED BY <1>2, <1>3, <1>4 DEF Groups

-----------------------------------------------------------------------------
(* The transformers *)

\* The selector of the egress policy names exactly the pods V.
Selector(V) == IF V = {} THEN <<>> ELSE <<V>>

\* p and q differ in their pod selector at most.
SameBut(p, q) ==
    /\ p \in Resource /\ p.kind = q.kind /\ p.name = q.name /\ p.ns = q.ns
    /\ p.ref = q.ref /\ p.owned = q.owned

LEMMA Denying ==
  ASSUME NEW p \in Resource, NEW pod \in Pods, NEW allowed, NEW V \in SUBSET Pods,
         IsEgressPolicy(p) => p.exprs = Selector(V)
  PROVE  /\ SameBut(DenyEgress(p, pod, allowed), p)
         /\ IsEgressPolicy(p) => DenyEgress(p, pod, allowed).exprs = Selector(V \ ({pod} \ allowed))
<1>1. CASE pod \in allowed \/ ~IsEgressPolicy(p)
  <2>1. DenyEgress(p, pod, allowed) = p
    BY <1>1 DEF DenyEgress, RemoveNetworkPolicyPodSelector
  <2>2. pod \in allowed => V \ ({pod} \ allowed) = V
    OBVIOUS
  <2> QED BY <1>1, <2>1, <2>2 DEF SameBut
<1>2. CASE pod \notin allowed /\ IsEgressPolicy(p)
  <2> DEFINE NonEmpty == (SUBSET Pods) \ {{}}
             e == Only([i \in DOMAIN p.exprs |-> p.exprs[i] \ {pod}], NonEmpty)
  <2>1. DenyEgress(p, pod, allowed) = [p EXCEPT !.exprs = e]
    BY <1>2 DEF DenyEgress, RemoveNetworkPolicyPodSelector
  <2>2. V \ ({pod} \ allowed) = V \ {pod}
    BY <1>2
  <2>3. e = Selector(V \ {pod})
    <3>1. CASE V = {}
      <4>1. p.exprs = <<>>
        BY <1>2, <3>1 DEF Selector
      <4>2. [i \in DOMAIN p.exprs |-> p.exprs[i] \ {pod}] = <<>>
        BY <4>1
      <4>3. {} \in SUBSET Pods
        OBVIOUS
      <4>4. Only(<<>>, NonEmpty) = <<>>
        BY <4>3, OnlyShort
      <4> QED BY <3>1, <4>2, <4>4 DEF Selector
    <3>2. CASE V # {}
      <4>1. p.exprs = <<V>>
        BY <1>2, <3>2 DEF Selector
      <4>2. [i \in DOMAIN p.exprs |-> p.exprs[i] \ {pod}] = <<V \ {pod}>>
        BY <4>1
      <4>3. V \ {pod} \in SUBSET Pods
        OBVIOUS
      <4> HIDE DEF NonEmpty
      <4>4. Only(<<V \ {pod}>>, NonEmpty) = IF V \ {pod} \in NonEmpty THEN <<V \ {pod}>> ELSE <<>>
        BY ONLY <4>3, OnlyShort
      <4>5. V \ {pod} \in NonEmpty <=> V \ {pod} # {}
        BY <4>3 DEF NonEmpty
      <4> QED BY <4>2, <4>4, <4>5 DEF Selector
    <3> QED BY <3>1, <3>2
  <2>4. Selector(V \ {pod}) \in Seq(SUBSET Pods)
    <3>1. \A W \in SUBSET Pods : <<W>> \in Seq(SUBSET Pods) /\ <<>> \in Seq(SUBSET Pods)
      OBVIOUS
    <3>2. V \ {pod} \in SUBSET Pods
      OBVIOUS
    <3> QED BY ONLY <3>1, <3>2 DEF Selector
  <2> HIDE DEF e
  <2>5. SameBut([p EXCEPT !.exprs = e], p) /\ [p EXCEPT !.exprs = e].exprs = e
    <3>1. e \in Seq(SUBSET Pods)
      BY <2>3, <2>4
    <3>2. ASSUME NEW x \in Seq(SUBSET Pods)
          PROVE  SameBut([p EXCEPT !.exprs = x], p) /\ [p EXCEPT !.exprs = x].exprs = x
      BY DEF SameBut, Resource
    <3> QED BY ONLY <3>1, <3>2
  <2> QED BY <2>1, <2>2, <2>3, <2>5
<1> QED BY <1>1, <1>2

\* q is what the operator makes of r: r in its place, owned only from there.
Fits(q, r) ==
    /\ q \in Resource /\ SameResource(q, ReplaceAllNamespaces(r))
    /\ q.ref = ReplaceAllNamespaces(r).ref /\ (q.owned => q.ns = ns)

LEMMA Placing ==
  ASSUME NEW r \in Resource, ns \in STRING, ~r.owned
  PROVE  LET p == ReplaceAllNamespaces(InjectOwner(r)) IN
         Fits(p, r) /\ p.exprs = r.exprs /\ p.kind = r.kind /\ p.name = r.name
BY DEF Fits, SameResource, ReplaceAllNamespaces, InjectOwner, Resource

LEMMA Rendered ==
  ASSUME yaml \in KedaManifests, ns \in Namespaces, NEW allowed \in SUBSET Pods,
         NEW g \in Groups, NEW r \in Home(g)
  PROVE  /\ Fits(Rendering(g, allowed, r), r)
         /\ IsEgressPolicy(r) => Rendering(g, allowed, r).exprs = Selector(allowed)
<1> DEFINE p == ReplaceAllNamespaces(InjectOwner(r))
<1>1. r \in Operands /\ (IsEgressPolicy(r) => r \in ToSet(yaml) /\ g = "general")
  BY Homes
<1>2. r \in Resource
  BY <1>1, ManifestTypes DEF Operands
<1>3. ~r.owned /\ (r.name = "keda-auth-reader" => r.ns = "kube-system")
  BY <1>1, Embedded
<1>4. IsEgressPolicy(r) => r.exprs = <<Pods>>
  BY <1>1, Embedded
<1>5. ns \in STRING
  BY ManifestsAssumption
<1>6. Fits(p, r) /\ p.exprs = r.exprs /\ p.kind = r.kind /\ p.name = r.name
  BY <1>2, <1>3, <1>5, Placing
<1>11. r.name = "keda-auth-reader" => p.ns = "kube-system"
  BY <1>2, <1>3 DEF ReplaceAllNamespaces, InjectOwner, Resource
<1> HIDE DEF p
<1>7. p \in Resource /\ (IsEgressPolicy(p) <=> IsEgressPolicy(r))
  BY <1>6 DEF IsEgressPolicy, Fits
<1>8. CASE g = "general"
  <2> DEFINE p1 == DenyEgress(p, "keda-metrics-apiserver", allowed)
             p2 == DenyEgress(p1, "keda-operator", allowed)
             V1 == Pods \ ({"keda-metrics-apiserver"} \ allowed)
             V2 == V1 \ ({"keda-operator"} \ allowed)
  <2>1. Rendering(g, allowed, r) = p2
    BY <1>8 DEF Rendering, p
  <2>2. Pods = {"keda-operator", "keda-metrics-apiserver"}
    BY ManifestsAssumption
  <2>3. V1 \in SUBSET Pods /\ Pods \in SUBSET Pods /\ V2 = allowed /\ Pods # {}
        /\ "keda-operator" \in Pods /\ "keda-metrics-apiserver" \in Pods
    BY <2>2
  <2> HIDE DEF p1, p2, V1, V2
  <2>4. IsEgressPolicy(p) => p.exprs = Selector(Pods)
    BY <1>4, <1>6, <1>7, <2>3 DEF Selector
  <2>5. SameBut(p1, p) /\ (IsEgressPolicy(p) => p1.exprs = Selector(V1))
    BY <1>7, <2>3, <2>4, Denying DEF p1, V1
  <2>6. p1 \in Resource /\ (IsEgressPolicy(p1) <=> IsEgressPolicy(p))
    BY <2>5 DEF SameBut, IsEgressPolicy
  <2>7. SameBut(p2, p1) /\ (IsEgressPolicy(p1) => p2.exprs = Selector(V2))
    BY <2>3, <2>5, <2>6, Denying DEF p2, V2
  <2>8. Fits(p2, r)
    BY <1>6, <2>5, <2>7 DEF SameBut, Fits, SameResource
  <2> QED BY <1>7, <2>1, <2>3, <2>6, <2>7, <2>8
<1>9. CASE g = "metrics"
  <2>1. Rendering(g, allowed, r) = ReplaceNamespace(p)
    BY <1>9 DEF Rendering, p
  <2>2. ReplaceNamespace(p) = p
    BY <1>6, <1>7, <1>11 DEF ReplaceNamespace, Resource
  <2> QED BY <1>1, <1>6, <1>9, <2>1, <2>2
<1>10. CASE g # "general" /\ g # "metrics"
  <2>1. Rendering(g, allowed, r) = p
    BY <1>10 DEF Rendering, p
  <2> QED BY <1>1, <1>6, <1>10, <2>1
<1> QED BY <1>8, <1>9, <1>10

\* The finalizer looks for a resource where it was installed.
LEMMA RenderedForDelete ==
  ASSUME yaml \in KedaManifests, ns \in Namespaces, NEW g \in Groups, NEW r \in Home(g)
  PROVE  /\ renderForDelete(g, r) \in Resource
         /\ SameResource(renderForDelete(g, r), ReplaceAllNamespaces(r))
<1>1. r \in Operands
  BY Homes
<1>2. r \in Resource
  BY <1>1, ManifestTypes DEF Operands
<1>3. r.name = "keda-auth-reader" => r.ns = "kube-system"
  BY <1>1, Embedded
<1>4. ns \in STRING
  BY ManifestsAssumption
<1> QED BY <1>2, <1>3, <1>4 DEF renderForDelete, ReplaceNamespace, ReplaceAllNamespaces,
                               SameResource, Resource

-----------------------------------------------------------------------------
(* The calls *)

CallType == [verb : {"apply", "delete"}, r : Resource]

\* The call after which the cluster has of r what it should have.
Settles(c, r, allowed) ==
    /\ Fits(c.r, r)
    /\ c.verb = "delete" <=> IsEgressPolicy(r) /\ allowed = {}
    /\ IsEgressPolicy(r) => c.r.exprs = Selector(allowed)

InstallCall(allowed) == {c \in CallType : \E r \in Operands : Settles(c, r, allowed)}
GroupCall(g, allowed) == {c \in CallType : \E r \in Home(g) : Settles(c, r, allowed)}

LEMMA CallsSet ==
  ASSUME NEW T, NEW s \in Seq(T), NEW verb, NEW C, \A q \in ToSet(s) : Call(verb, q) \in C
  PROVE  /\ Calls(verb, s) \in Seq(C) /\ Len(Calls(verb, s)) = Len(s)
         /\ \A i \in 1..Len(s) : Calls(verb, s)[i] = Call(verb, s[i])
         /\ \A q \in ToSet(s) : Call(verb, q) \in ToSet(Calls(verb, s))
<1> DEFINE m == Calls(verb, s)
           n == Len(s)
<1>1. n \in Nat /\ DOMAIN s = 1..n
  OBVIOUS
<1>2. m = [i \in 1..n |-> Call(verb, s[i])]
  BY <1>1 DEF Calls
<1>3. \A x : x \in ToSet(s) <=> \E i \in 1..n : x = s[i]
  BY InToSet
<1> HIDE DEF m, n
<1>4. IsList(m, n, C) /\ \A i \in 1..n : m[i] = Call(verb, s[i])
  BY <1>2, <1>3 DEF IsList
<1>5. /\ m \in Seq(C) /\ Len(m) = n
      /\ \A x : x \in ToSet(m) <=> \E i \in 1..n : x = m[i]
  BY ONLY <1>1, <1>4, Mapped
<1>6. \A q \in ToSet(s) : Call(verb, q) \in ToSet(m)
  BY <1>3, <1>4, <1>5
<1> QED BY <1>4, <1>5, <1>6 DEF m, n

\* A stage settles every resource of its manifest and touches nothing else.
LEMMA InstallGroup ==
  ASSUME yaml \in KedaManifests, ns \in Namespaces, groups = Parsed,
         NEW allowed \in SUBSET Pods, NEW g \in Groups
  PROVE  /\ InstallCalls(g, allowed) \in Seq(GroupCall(g, allowed))
         /\ \A r \in Home(g) : \E c \in ToSet(InstallCalls(g, allowed)) :
              SameResource(c.r, ReplaceAllNamespaces(r))
<1> DEFINE list == groups[g]
           n == Len(list)
           rendered == [i \in DOMAIN list |-> Rendering(g, allowed, list[i])]
           empty == {q \in ToSet(rendered) : IsEmptyEgressPolicy(q)}
           gone == Calls("delete", Only(rendered, empty))
           there == Calls("apply", Only(rendered, ToSet(rendered) \ empty))
           C == GroupCall(g, allowed)
<1>1. InstallCalls(g, allowed) = gone \o there
  BY DEF InstallCalls
<1>2. list \in Seq(Resource) /\ ToSet(list) = Home(g)
  BY ParsedGroups
<1>3. n \in Nat /\ DOMAIN list = 1..n
  BY <1>2
<1>4. \A x : x \in Home(g) <=> \E i \in 1..n : x = list[i]
  BY <1>2, InToSet
<1>5. \A r \in Home(g) : r \in Operands
  BY Homes
<1> HIDE DEF list, n
<1>6. ASSUME NEW r \in Home(g)
      PROVE  /\ Fits(Rendering(g, allowed, r), r)
             /\ IsEgressPolicy(r) => Rendering(g, allowed, r).exprs = Selector(allowed)
             /\ IsEmptyEgressPolicy(Rendering(g, allowed, r)) <=> IsEgressPolicy(r) /\ allowed = {}
  <2> DEFINE q == Rendering(g, allowed, r)
  <2>1. Fits(q, r) /\ (IsEgressPolicy(r) => q.exprs = Selector(allowed))
    BY Rendered
  <2> HIDE DEF q
  <2>2. r \in Resource
    BY <1>5, ManifestTypes DEF Operands
  <2>3. IsEgressPolicy(q) <=> IsEgressPolicy(r)
    BY <2>1, <2>2 DEF Fits, SameResource, ReplaceAllNamespaces, IsEgressPolicy, Resource
  <2>4. IsEmptyEgressPolicy(q) <=> IsEgressPolicy(r) /\ allowed = {}
    <3>1. CASE allowed = {}
      BY <2>1, <2>3, <3>1 DEF IsEmptyEgressPolicy, Selector
    <3>2. CASE allowed # {}
      <4>1. <<allowed>> # <<>> /\ \A i \in DOMAIN <<allowed>> : <<allowed>>[i] = allowed
        OBVIOUS
      <4>2. IsEgressPolicy(r) => q.exprs = <<allowed>>
        BY <2>1, <3>2 DEF Selector
      <4> QED BY ONLY <2>3, <3>2, <4>1, <4>2 DEF IsEmptyEgressPolicy
    <3> QED BY <3>1, <3>2
  <2> QED BY <2>1, <2>4 DEF q
<1>7. /\ IsList(rendered, n, Resource)
      /\ \A i \in 1..n : rendered[i] = Rendering(g, allowed, list[i])
  <2>1. \A i \in 1..n : Rendering(g, allowed, list[i]) \in Resource
    BY <1>4, <1>6 DEF Fits
  <2> QED BY <1>3, <2>1 DEF IsList
<1> HIDE DEF rendered
<1>8. /\ rendered \in Seq(Resource) /\ Len(rendered) = n
      /\ \A x : x \in ToSet(rendered) <=> \E i \in 1..n : x = rendered[i]
  BY ONLY <1>3, <1>7, Mapped
<1>9. \A x : x \in ToSet(rendered) <=> \E r \in Home(g) : x = Rendering(g, allowed, r)
  BY <1>4, <1>7, <1>8
<1>10. ASSUME NEW q \in ToSet(rendered), NEW verb \in {"apply", "delete"},
              verb = "delete" <=> IsEmptyEgressPolicy(q)
       PROVE  Call(verb, q) \in C
  <2>1. PICK r \in Home(g) : q = Rendering(g, allowed, r)
    BY <1>9
  <2>2. Settles(Call(verb, q), r, allowed)
    BY <1>6, <1>10, <2>1 DEF Settles, Call
  <2>3. Call(verb, q) \in CallType
    BY <1>6, <2>1 DEF Call, CallType, Fits
  <2> QED BY <2>2, <2>3 DEF GroupCall
<1>11. /\ Only(rendered, empty) \in Seq(Resource \cap empty)
       /\ ToSet(Only(rendered, empty)) = ToSet(rendered) \cap empty
  BY ONLY <1>8, OnlySet
<1> DEFINE full == ToSet(rendered) \ empty
<1>12. /\ Only(rendered, full) \in Seq(Resource \cap full)
       /\ ToSet(Only(rendered, full)) = ToSet(rendered) \cap full
  BY ONLY <1>8, OnlySet
<1> HIDE DEF C
<1>13. \A q \in ToSet(Only(rendered, empty)) : Call("delete", q) \in C
  BY <1>10, <1>11
<1>14. \A q \in ToSet(Only(rendered, full)) : Call("apply", q) \in C
  BY <1>10, <1>12
<1>15. /\ gone \in Seq(C)
       /\ \A q \in ToSet(Only(rendered, empty)) : Call("delete", q) \in ToSet(gone)
  BY ONLY <1>11, <1>13, CallsSet
<1>16. /\ there \in Seq(C)
       /\ \A q \in ToSet(Only(rendered, full)) : Call("apply", q) \in ToSet(there)
  BY ONLY <1>12, <1>14, CallsSet
<1>17. gone \o there \in Seq(C) /\ ToSet(gone \o there) = ToSet(gone) \cup ToSet(there)
  <2> HIDE DEF gone, there
  <2> QED BY ONLY <1>15, <1>16, ConcatSet
<1>18. ASSUME NEW r \in Home(g)
       PROVE  \E c \in ToSet(gone \o there) : SameResource(c.r, ReplaceAllNamespaces(r))
  <2> DEFINE q == Rendering(g, allowed, r)
  <2>1. q \in ToSet(rendered) /\ SameResource(q, ReplaceAllNamespaces(r))
    BY <1>6, <1>9 DEF Fits
  <2> HIDE DEF q
  <2>2. Call("delete", q).r = q /\ Call("apply", q).r = q
    BY DEF Call
  <2>3. CASE q \in empty
    <3>1. Call("delete", q) \in ToSet(gone \o there)
      BY <1>11, <1>15, <1>17, <2>1, <2>3
    <3> QED BY <2>1, <2>2, <3>1
  <2>4. CASE q \notin empty
    <3>1. Call("apply", q) \in ToSet(gone \o there)
      BY <1>12, <1>16, <1>17, <2>1, <2>4
    <3> QED BY <2>1, <2>2, <3>1
  <2> QED BY <2>3, <2>4
<1> QED BY <1>1, <1>17, <1>18 DEF C

DeleteCall == {c \in CallType : c.verb = "delete"}

\* The finalizer looks for every resource of a group.
LEMMA DeleteGroup ==
  ASSUME yaml \in KedaManifests, ns \in Namespaces, groups = Parsed, NEW g \in Groups
  PROVE  /\ DeleteCalls(g) \in Seq(DeleteCall) /\ Len(DeleteCalls(g)) = Len(Parsed[g])
         /\ \A i \in 1..Len(Parsed[g]) : DeleteCalls(g)[i] =
              Call("delete", renderForDelete(g, Parsed[g][(Len(Parsed[g]) - i) + 1]))
         /\ \A r \in Home(g) : \E c \in ToSet(DeleteCalls(g)) :
              SameResource(c.r, ReplaceAllNamespaces(r))
<1> DEFINE list == Parsed[g]
           n == Len(list)
           rendered == [i \in DOMAIN list |-> renderForDelete(g, list[i])]
           back == Reverse(rendered)
           calls == Calls("delete", back)
<1>1. DeleteCalls(g) = calls
  BY DEF DeleteCalls
<1>2. list \in Seq(Resource) /\ ToSet(list) = Home(g)
  BY ParsedGroups
<1>3. n \in Nat /\ DOMAIN list = 1..n
  BY <1>2
<1>4. \A x : x \in Home(g) <=> \E i \in 1..n : x = list[i]
  BY <1>2, InToSet
<1> HIDE DEF list, n
<1>5. \A r \in Home(g) : renderForDelete(g, r) \in Resource
                        /\ SameResource(renderForDelete(g, r), ReplaceAllNamespaces(r))
  BY RenderedForDelete
<1>6. /\ IsList(rendered, n, Resource)
      /\ \A i \in 1..n : rendered[i] = renderForDelete(g, list[i])
  BY <1>3, <1>4, <1>5 DEF IsList
<1> HIDE DEF rendered
<1>7. /\ rendered \in Seq(Resource) /\ Len(rendered) = n
      /\ \A x : x \in ToSet(rendered) <=> \E i \in 1..n : x = rendered[i]
  BY ONLY <1>3, <1>6, Mapped
<1>8. /\ back \in Seq(Resource) /\ Len(back) = n /\ ToSet(back) = ToSet(rendered)
      /\ \A i \in 1..n : back[i] = rendered[(n - i) + 1]
  BY ONLY <1>7, ReverseList
<1> HIDE DEF back
<1>9. \A q \in ToSet(back) : Call("delete", q) \in DeleteCall
  <2>1. \A q \in ToSet(back) : q \in Resource
    BY <1>6, <1>7, <1>8 DEF IsList
  <2> QED BY <2>1 DEF Call, DeleteCall, CallType
<1>10. /\ calls \in Seq(DeleteCall) /\ Len(calls) = Len(back)
       /\ \A i \in 1..Len(back) : calls[i] = Call("delete", back[i])
       /\ \A q \in ToSet(back) : Call("delete", q) \in ToSet(calls)
  BY ONLY <1>8, <1>9, CallsSet
<1> HIDE DEF calls
<1>11. \A i \in 1..n : calls[i] = Call("delete", renderForDelete(g, list[(n - i) + 1]))
  <2>1. \A i \in 1..n : (n - i) + 1 \in 1..n
    BY <1>3
  <2> QED BY <1>6, <1>8, <1>10, <2>1
<1>12. ASSUME NEW r \in Home(g)
       PROVE  \E c \in ToSet(calls) : SameResource(c.r, ReplaceAllNamespaces(r))
  <2>1. renderForDelete(g, r) \in ToSet(back)
    BY <1>4, <1>6, <1>7, <1>8
  <2>2. Call("delete", renderForDelete(g, r)).r = renderForDelete(g, r)
    BY DEF Call
  <2> QED BY <1>5, <1>10, <2>1, <2>2
<1> QED BY <1>1, <1>8, <1>10, <1>11, <1>12 DEF list, n

AllInstallCalls(allowed) ==
    FlattenSeq([i \in DOMAIN InstallOrder |-> InstallCalls(InstallOrder[i], allowed)])

AllDeleteCalls == FlattenSeq([i \in DOMAIN FinalizeOrder |-> DeleteCalls(FinalizeOrder[i])])

LEMMA InstallAll ==
  ASSUME yaml \in KedaManifests, ns \in Namespaces, groups = Parsed, NEW allowed \in SUBSET Pods
  PROVE  /\ AllInstallCalls(allowed) \in Seq(InstallCall(allowed))
         /\ \A r \in Operands : \E c \in ToSet(AllInstallCalls(allowed)) :
              SameResource(c.r, ReplaceAllNamespaces(r))
<1> DEFINE C == InstallCall(allowed)
           ss == [i \in DOMAIN InstallOrder |-> InstallCalls(InstallOrder[i], allowed)]
<1>1. /\ DOMAIN InstallOrder = 1..8 /\ \A i \in 1..8 : InstallOrder[i] \in Groups
      /\ \A g \in Groups : \E i \in 1..8 : InstallOrder[i] = g
  BY DEF InstallOrder, Groups, KedaGroups, AddonGroups
<1>2. ASSUME NEW g \in Groups PROVE InstallCalls(g, allowed) \in Seq(C)
  <2>1. InstallCalls(g, allowed) \in Seq(GroupCall(g, allowed))
    BY InstallGroup
  <2>2. GroupCall(g, allowed) \subseteq C
    BY Homes DEF GroupCall, InstallCall
  <2> HIDE DEF C
  <2> QED BY ONLY <2>1, <2>2
<1> HIDE DEF C
<1>3. /\ IsList(ss, 8, Seq(C))
      /\ \A i \in 1..8 : ss[i] = InstallCalls(InstallOrder[i], allowed)
  BY <1>1, <1>2 DEF IsList
<1>4. AllInstallCalls(allowed) = FlattenSeq(ss)
  BY DEF AllInstallCalls
<1> HIDE DEF ss
<1>6. ss \in Seq(Seq(C)) /\ Len(ss) = 8
  <2>1. ASSUME NEW n \in Nat, NEW U, IsList(ss, n, U) PROVE ss \in Seq(U) /\ Len(ss) = n
    BY ONLY <2>1, n \in Nat, Mapped
  <2> QED BY ONLY <1>3, <2>1
<1>7. FlattenSeq(ss) \in Seq(C) /\ UNION {ToSet(ss[j]) : j \in 1..8} \subseteq ToSet(FlattenSeq(ss))
  BY ONLY <1>6, FlattenHas
<1>8. ASSUME NEW r \in Operands
      PROVE  \E c \in ToSet(FlattenSeq(ss)) : SameResource(c.r, ReplaceAllNamespaces(r))
  <2>1. PICK g \in Groups : r \in Home(g)
    BY Homes
  <2>2. PICK i \in 1..8 : InstallOrder[i] = g
    BY <1>1
  <2>3. PICK c \in ToSet(InstallCalls(g, allowed)) : SameResource(c.r, ReplaceAllNamespaces(r))
    BY <2>1, InstallGroup
  <2> QED BY <1>3, <1>7, <2>2, <2>3
<1> QED BY <1>4, <1>7, <1>8 DEF C

FinalizeGroups == {"scaler", "interceptor", "addonOperator", "general", "controller", "metrics"}

LEMMA FinalizeAll ==
  ASSUME yaml \in KedaManifests, ns \in Namespaces, groups = Parsed
  PROVE  /\ AllDeleteCalls \in Seq(DeleteCall)
         /\ \A g \in FinalizeGroups : \A r \in Home(g) : \E c \in ToSet(AllDeleteCalls) :
              SameResource(c.r, ReplaceAllNamespaces(r))
<1> DEFINE ss == [i \in DOMAIN FinalizeOrder |-> DeleteCalls(FinalizeOrder[i])]
<1>1. /\ DOMAIN FinalizeOrder = 1..6 /\ \A i \in 1..6 : FinalizeOrder[i] \in Groups
      /\ \A g \in FinalizeGroups : g \in Groups /\ \E i \in 1..6 : FinalizeOrder[i] = g
  BY DEF FinalizeOrder, FinalizeGroups, Groups, KedaGroups, AddonGroups
<1>2. \A g \in Groups : DeleteCalls(g) \in Seq(DeleteCall)
  BY DeleteGroup
<1>3. /\ IsList(ss, 6, Seq(DeleteCall))
      /\ \A i \in 1..6 : ss[i] = DeleteCalls(FinalizeOrder[i])
  BY <1>1, <1>2 DEF IsList
<1>4. AllDeleteCalls = FlattenSeq(ss)
  BY DEF AllDeleteCalls
<1> HIDE DEF ss
<1>6. ss \in Seq(Seq(DeleteCall)) /\ Len(ss) = 6
  <2>1. ASSUME NEW n \in Nat, NEW U, IsList(ss, n, U) PROVE ss \in Seq(U) /\ Len(ss) = n
    BY ONLY <2>1, n \in Nat, Mapped
  <2> QED BY ONLY <1>3, <2>1
<1>7. /\ FlattenSeq(ss) \in Seq(DeleteCall)
      /\ UNION {ToSet(ss[j]) : j \in 1..6} \subseteq ToSet(FlattenSeq(ss))
  BY ONLY <1>6, FlattenHas
<1>8. ASSUME NEW g \in FinalizeGroups, NEW r \in Home(g)
      PROVE  \E c \in ToSet(FlattenSeq(ss)) : SameResource(c.r, ReplaceAllNamespaces(r))
  <2>1. PICK i \in 1..6 : FinalizeOrder[i] = g
    BY <1>1
  <2>2. PICK c \in ToSet(DeleteCalls(g)) : SameResource(c.r, ReplaceAllNamespaces(r))
    BY <1>1, DeleteGroup
  <2> QED BY <1>3, <1>7, <2>1, <2>2
<1> QED BY <1>4, <1>7, <1>8

-----------------------------------------------------------------------------
(* The inductive invariant *)

TypeInv ==
    /\ yaml \in KedaManifests /\ ns \in Namespaces /\ groups \in {<<>>, Parsed}
    /\ egress \in SUBSET Pods /\ inst \in SUBSET Pods
    /\ cluster \subseteq Resource /\ todo \in Seq(CallType)

\* Which calls there are left to make: the kind of calls belongs to the phase.
PhaseInv ==
    /\ pc \in {"idle", "installed"} => todo = <<>>
    /\ pc = "install" => life # "gone" /\ todo \in Seq(InstallCall(inst))
    /\ pc = "finalize" => life = "deleting" /\ todo \in Seq(DeleteCall)
    /\ pc \in {"idle", "installed", "install", "finalize"}

\* Everything in the cluster comes from the manifests and is where it belongs.
ClusterInv ==
    \A q \in cluster : (\E r \in Operands : Fits(q, r)) /\ (IsEgressPolicy(q) => q.exprs # <<>>)

Installed(r) == \E q \in cluster : SameResource(q, ReplaceAllNamespaces(r))
Pending(r) == \E c \in ToSet(todo) : SameResource(c.r, ReplaceAllNamespaces(r))

\* The cluster has of r what the copy of the spec asks for.
Settled(r) ==
    /\ Installed(r) <=> (IsEgressPolicy(r) => inst # {})
    /\ \A q \in cluster : SameResource(q, ReplaceAllNamespaces(r)) /\ IsEgressPolicy(r) =>
         q.exprs = <<inst>>

\* An installation still has a call for whatever is not as it should be.
InstallInv ==
    pc \in {"install", "installed"} => \A r \in Operands : Pending(r) \/ Settled(r)

\* A deletion still has a call for whatever it has to delete.
FinalizeInv ==
    \A g \in FinalizeGroups : \A r \in Home(g) :
      /\ life = "gone" => ~Installed(r)
      /\ pc = "finalize" /\ Installed(r) => Pending(r)

Backend(kind, q) == q.kind = kind /\ q.name = "keda-metrics-apiserver" /\ q.ns = ns
Running(kind) == \E q \in cluster : Backend(kind, q)

BackendApplied(kind) == {c \in CallType : c.verb = "apply" /\ Backend(kind, c.r)}
APIApplied == {c \in CallType : c.verb = "apply" /\ c.r.kind = "APIService"}
BackendDeleted(kind) == {c \in CallType : Backend(kind, c.r)}
Deleted(r) == {c \in CallType : SameResource(c.r, ReplaceAllNamespaces(r))}

\* The API is registered after its server was installed, and gone before it.
Served(kind) ==
    /\ (\E a \in cluster : a.kind = "APIService") => Running(kind)
    /\ pc = "install" => Running(kind) \/ Guarded(todo, APIApplied, BackendApplied(kind))
    /\ pc = "finalize" => \A a \in Operands : a.kind = "APIService" =>
         ~Installed(a) \/ Guarded(todo, BackendDeleted(kind), Deleted(a))

ServedInv == \A kind \in {"Service", "Deployment"} : Served(kind)

ManifestsInv == TypeInv /\ PhaseInv /\ ClusterInv /\ InstallInv /\ FinalizeInv /\ ServedInv

-----------------------------------------------------------------------------
(* The order of the calls *)

\* The external metrics API, its Service and its Deployment are in one group, in
\* which the sort puts the API last.
LEMMA MetricsServer ==
  ASSUME yaml \in KedaManifests, NEW a \in Operands, a.kind = "APIService",
         NEW kind \in {"Service", "Deployment"}
  PROVE  /\ a \in Home("metrics") /\ a.ref = "keda" /\ Rank(a) = 6
         /\ \E s \in Home("metrics") : /\ s.kind = kind /\ s.name = "keda-metrics-apiserver"
                                        /\ s.ns = "keda" /\ Rank(s) \in {4, 5}
<1>1. a \in ToSet(yaml)
  BY Embedded DEF Operands
<1>2. /\ a.name \notin WebhookNames /\ a.ref = "keda"
      /\ \E s \in ToSet(yaml) : s.kind = kind /\ s.name = "keda-metrics-apiserver" /\ s.ns = "keda"
  BY <1>1, EmbeddedAssumption
<1>3. PICK s \in ToSet(yaml) : s.kind = kind /\ s.name = "keda-metrics-apiserver" /\ s.ns = "keda"
  BY <1>2
<1>4. GroupOf(a) = "metrics" /\ Rank(a) = 6
  BY <1>2 DEF GroupOf, Rank
<1>5. GroupOf(s) = "metrics" /\ Rank(s) \in {4, 5}
  BY <1>3 DEF GroupOf, Rank, ControllerNames, WebhookNames
<1>6. "metrics" \in KedaGroups
  BY DEF KedaGroups
<1> QED BY <1>1, <1>2, <1>3, <1>4, <1>5, <1>6 DEF Home

LEMMA MetricsSorted ==
  ASSUME yaml \in KedaManifests, NEW i \in 1..Len(Parsed["metrics"]),
         NEW j \in 1..Len(Parsed["metrics"]),
         Rank(Parsed["metrics"][i]) < Rank(Parsed["metrics"][j])
  PROVE  i < j
<1> DEFINE S == {r \in ToSet(yaml) : GroupOf(r) = "metrics"}
           list == Parsed["metrics"]
<1>1. yaml \in Seq(Resource)
  BY ManifestTypes
<1>2. Only(yaml, S) \in Seq(Resource \cap S)
  BY ONLY <1>1, OnlySet
<1>3. list = sortMetricsResources(Only(yaml, S))
  BY DEF Parsed, parseManifestsFromFile, KedaGroups
<1>4. \A r : Rank(r) \in Nat
  BY DEF Rank
<1> HIDE DEF S
<1>5. Only(yaml, S) \in Seq(Resource)
  BY <1>2
<1>6. SortedTo(Only(yaml, S), 7, list)
  BY <1>3, <1>5, SortKeeps
<1>7. list \in Seq(Resource) /\ \A k, l \in 1..Len(list) : k < l => Rank(list[k]) <= Rank(list[l])
  BY <1>6 DEF SortedTo
<1> HIDE DEF list
<1>8. Len(list) \in Nat
  BY <1>7
<1>9. i \in 1..Len(list) /\ j \in 1..Len(list) /\ Rank(list[i]) < Rank(list[j])
  BY DEF list
<1>10. i # j /\ ~(j < i)
  BY <1>4, <1>7, <1>9
<1> QED BY <1>8, <1>9, <1>10

\* The stage of the metrics server applies its manifest as it is sorted.
LEMMA MetricsInstall ==
  ASSUME yaml \in KedaManifests, ns \in Namespaces, groups = Parsed, NEW allowed \in SUBSET Pods
  PROVE  LET list == Parsed["metrics"]
             calls == InstallCalls("metrics", allowed)
         IN  /\ Len(calls) = Len(list)
             /\ \A i \in 1..Len(list) :
                  calls[i] = Call("apply", Rendering("metrics", allowed, list[i]))
<1> DEFINE g == "metrics"
           list == Parsed[g]
           n == Len(list)
           rendered == [i \in DOMAIN list |-> Rendering(g, allowed, list[i])]
           empty == {q \in ToSet(rendered) : IsEmptyEgressPolicy(q)}
           full == ToSet(rendered) \ empty
<1>0. g \in Groups
  BY DEF Groups, KedaGroups
<1>1. InstallCalls(g, allowed) = Calls("delete", Only(rendered, empty)) \o Calls("apply", Only(rendered, full))
  BY DEF InstallCalls
<1>2. list \in Seq(Resource) /\ ToSet(list) = Home(g)
  BY <1>0, ParsedGroups
<1>3. n \in Nat /\ DOMAIN list = 1..n
  BY <1>2
<1>4. \A i \in 1..n : list[i] \in Home(g)
  BY <1>2, InToSet
<1> HIDE DEF g
<1>5. ASSUME NEW r \in Home(g) PROVE Rendering(g, allowed, r) \in Resource
                                   /\ ~IsEmptyEgressPolicy(Rendering(g, allowed, r))
  <2>1. Fits(Rendering(g, allowed, r), r)
    BY <1>0, Rendered
  <2>2. r \in Operands /\ ~IsEgressPolicy(r)
    BY <1>0, Homes DEF g
  <2>3. r \in Resource
    BY <2>2, ManifestTypes DEF Operands
  <2> HIDE DEF rendered
  <2> QED BY <2>1, <2>2, <2>3 DEF Fits, SameResource, ReplaceAllNamespaces, IsEgressPolicy,
                                 IsEmptyEgressPolicy, Resource
<1> HIDE DEF list, n
<1>6. /\ IsList(rendered, n, Resource)
      /\ \A i \in 1..n : rendered[i] = Rendering(g, allowed, list[i])
  BY <1>3, <1>4, <1>5 DEF IsList
<1> HIDE DEF rendered
<1>7. /\ rendered \in Seq(Resource) /\ Len(rendered) = n
      /\ \A x : x \in ToSet(rendered) <=> \E i \in 1..n : x = rendered[i]
  BY ONLY <1>3, <1>6, Mapped
<1>8. empty = {} /\ full = ToSet(rendered)
  BY <1>4, <1>5, <1>6, <1>7
<1>9. Only(rendered, full) = rendered
  BY ONLY <1>7, <1>8, OnlyAll
<1> HIDE DEF empty, full
<1>10. Calls("delete", Only(rendered, empty)) = <<>>
  <2>1. Only(rendered, empty) \in Seq(Resource \cap empty)
    BY ONLY <1>7, OnlySet
  <2>2. Only(rendered, empty) = <<>>
    BY <1>8, <2>1
  <2> QED BY <2>2 DEF Calls
<1>11. \A q \in ToSet(rendered) : Call("apply", q) \in CallType
  BY <1>6, <1>7 DEF Call, CallType, IsList
<1> DEFINE calls == Calls("apply", rendered)
<1>12. calls \in Seq(CallType) /\ Len(calls) = n /\ \A i \in 1..n : calls[i] = Call("apply", rendered[i])
  <2>1. /\ calls \in Seq(CallType) /\ Len(calls) = Len(rendered)
        /\ \A i \in 1..Len(rendered) : calls[i] = Call("apply", rendered[i])
    BY ONLY <1>7, <1>11, CallsSet
  <2> QED BY ONLY <1>7, <2>1
<1> HIDE DEF calls
<1>13. InstallCalls(g, allowed) = calls
  <2>1. <<>> \o calls = calls
    BY <1>12
  <2> QED BY <1>1, <1>9, <1>10, <2>1 DEF calls
<1> QED BY <1>6, <1>12, <1>13 DEF list, n, g

LEMMA InstallGuarded ==
  ASSUME yaml \in KedaManifests, ns \in Namespaces, groups = Parsed, NEW allowed \in SUBSET Pods,
         NEW kind \in {"Service", "Deployment"}
  PROVE  Guarded(AllInstallCalls(allowed), APIApplied, BackendApplied(kind))
<1> DEFINE ss == [i \in DOMAIN InstallOrder |-> InstallCalls(InstallOrder[i], allowed)]
           P == APIApplied
           Q == BackendApplied(kind)
<1>1. DOMAIN InstallOrder = 1..8 /\ \A i \in 1..8 : InstallOrder[i] \in Groups
  BY DEF InstallOrder, Groups, KedaGroups, AddonGroups
<1>2. ASSUME NEW g \in Groups PROVE InstallCalls(g, allowed) \in Seq(CallType)
  <2>1. InstallCalls(g, allowed) \in Seq(GroupCall(g, allowed))
    BY InstallGroup
  <2>2. GroupCall(g, allowed) \subseteq CallType
    BY DEF GroupCall
  <2> QED BY ONLY <2>1, <2>2
<1>3. ASSUME NEW g \in Groups, NEW r \in Home(g), NEW q, Fits(q, r)
      PROVE  r \in Operands /\ q \in Resource /\ q.kind = r.kind /\ q.name = r.name
             /\ (r.ns = "keda" => q.ns = ns)
  <2>1. r \in Operands
    BY Homes
  <2>2. r \in Resource
    BY <2>1, ManifestTypes DEF Operands
  <2> QED BY <1>3, <2>1, <2>2 DEF Fits, SameResource, ReplaceAllNamespaces, Resource
<1>4. ASSUME NEW g \in Groups PROVE Guarded(InstallCalls(g, allowed), P, Q)
  <2> DEFINE calls == InstallCalls(g, allowed)
  <2>1. CASE g # "metrics"
    <3>1. calls \in Seq(GroupCall(g, allowed))
      BY InstallGroup
    <3> HIDE DEF calls
    <3>2. ASSUME NEW c \in GroupCall(g, allowed) PROVE c \notin P
      <4>1. PICK r \in Home(g) : Fits(c.r, r)
        BY DEF GroupCall, Settles
      <4>2. r \in Operands /\ c.r.kind = r.kind
        BY <1>3, <4>1
      <4>3. r.kind # "APIService"
        <5> SUFFICES ASSUME r.kind = "APIService" PROVE FALSE
          OBVIOUS
        <5>1. r \in Home("metrics")
          BY <4>2, MetricsServer
        <5>2. "metrics" \in KedaGroups
          BY DEF KedaGroups
        <5> QED BY <2>1, <5>1, <5>2, Embedded DEF Home
      <4> QED BY <4>2, <4>3 DEF APIApplied
    <3>3. \A i \in 1..Len(calls) : calls[i] \in GroupCall(g, allowed)
      BY <3>1
    <3>4. Guarded(calls, P, Q)
      BY <3>2, <3>3 DEF Guarded
    <3> QED BY <3>4 DEF calls
  <2>2. CASE g = "metrics"
    <3> DEFINE list == Parsed[g]
    <3>1. /\ Len(calls) = Len(list)
          /\ \A i \in 1..Len(list) : calls[i] = Call("apply", Rendering(g, allowed, list[i]))
      BY <2>2, MetricsInstall
    <3>2. list \in Seq(Resource) /\ ToSet(list) = Home(g)
      BY ParsedGroups
    <3>3. \A x : x \in Home(g) <=> \E i \in 1..Len(list) : x = list[i]
      BY <3>2, InToSet
    <3> HIDE DEF calls
    <3> SUFFICES ASSUME NEW i \in 1..Len(list), calls[i] \in P
                 PROVE  \E j \in 1..(i - 1) : calls[j] \in Q
      BY <3>1 DEF Guarded, calls
    <3>4. list[i] \in Home(g) /\ Fits(Rendering(g, allowed, list[i]), list[i])
      BY <3>3, Rendered
    <3>5. list[i] \in Operands /\ list[i].kind = "APIService"
      <4>1. Rendering(g, allowed, list[i]).kind = list[i].kind /\ list[i] \in Operands
        BY <1>3, <3>4
      <4>2. calls[i].r = Rendering(g, allowed, list[i]) /\ calls[i].r.kind = "APIService"
        <5>1. calls[i].r.kind = "APIService"
          BY DEF APIApplied
        <5>2. calls[i] = Call("apply", Rendering(g, allowed, list[i]))
          BY <3>1
        <5> QED BY ONLY <5>1, <5>2 DEF Call
      <4> QED BY <4>1, <4>2
    <3>6. PICK s \in Home(g) : /\ s.kind = kind /\ s.name = "keda-metrics-apiserver"
                               /\ s.ns = "keda" /\ Rank(s) \in {4, 5}
      BY <2>2, <3>5, MetricsServer
    <3>7. PICK j \in 1..Len(list) : s = list[j]
      BY <3>3
    <3>8. Rank(list[j]) < Rank(list[i])
      <4>1. Rank(list[i]) = 6
        BY <3>5, MetricsServer
      <4> QED BY <3>6, <3>7, <4>1
    <3>9. j < i
      BY <2>2, <3>8, MetricsSorted
    <3>10. Len(list) \in Nat
      BY <3>2
    <3>11. j \in 1..(i - 1)
      BY <3>9, <3>10
    <3>12. Fits(Rendering(g, allowed, s), s)
      BY Rendered
    <3>13. calls[j] = Call("apply", Rendering(g, allowed, s))
      BY <3>1, <3>7
    <3>14. Call("apply", Rendering(g, allowed, s)) \in Q
      <4> DEFINE q == Rendering(g, allowed, s)
      <4>1. q \in Resource /\ q.kind = kind /\ q.name = "keda-metrics-apiserver" /\ q.ns = ns
        BY <1>3, <3>6, <3>12
      <4> HIDE DEF q
      <4>2. Call("apply", q) \in Q
        BY <4>1 DEF BackendApplied, Backend, Call, CallType
      <4> QED BY <4>2 DEF q
    <3> QED BY <3>11, <3>13, <3>14
  <2> QED BY <2>1, <2>2
<1>5. IsList(ss, 8, Seq(CallType)) /\ \A i \in 1..8 : ss[i] = InstallCalls(InstallOrder[i], allowed)
  BY <1>1, <1>2 DEF IsList
<1>6. AllInstallCalls(allowed) = FlattenSeq(ss)
  BY DEF AllInstallCalls
<1> HIDE DEF ss, P, Q
<1>7. ss \in Seq(Seq(CallType)) /\ Len(ss) = 8
  <2>1. ASSUME NEW n \in Nat, NEW U, IsList(ss, n, U) PROVE ss \in Seq(U) /\ Len(ss) = n
    BY ONLY <2>1, n \in Nat, Mapped
  <2> QED BY ONLY <1>5, <2>1
<1>8. \A j \in 1..Len(ss) : Guarded(ss[j], P, Q)
  BY <1>1, <1>4, <1>5, <1>7
<1>9. Guarded(FlattenSeq(ss), P, Q)
  BY ONLY <1>7, <1>8, FlattenGuarded
<1> QED BY <1>6, <1>9 DEF P, Q

LEMMA DeleteGuarded ==
  ASSUME yaml \in KedaManifests, ns \in Namespaces, groups = Parsed,
         NEW kind \in {"Service", "Deployment"}, NEW a \in Operands, a.kind = "APIService"
  PROVE  Guarded(AllDeleteCalls, BackendDeleted(kind), Deleted(a))
<1> DEFINE ss == [i \in DOMAIN FinalizeOrder |-> DeleteCalls(FinalizeOrder[i])]
           P == BackendDeleted(kind)
           Q == Deleted(a)
<1>1. DOMAIN FinalizeOrder = 1..6 /\ \A i \in 1..6 : FinalizeOrder[i] \in Groups
  BY DEF FinalizeOrder, Groups, KedaGroups, AddonGroups
<1>2. ASSUME NEW g \in Groups PROVE DeleteCalls(g) \in Seq(CallType)
  <2>1. DeleteCalls(g) \in Seq(DeleteCall)
    BY DeleteGroup
  <2>2. DeleteCall \subseteq CallType
    BY DEF DeleteCall
  <2> QED BY ONLY <2>1, <2>2
<1>3. /\ a \in Home("metrics") /\ Rank(a) = 6
      /\ \E s \in Home("metrics") : /\ s.kind = kind /\ s.name = "keda-metrics-apiserver"
                                     /\ Rank(s) \in {4, 5}
  BY MetricsServer
<1>4. PICK s \in Home("metrics") : /\ s.kind = kind /\ s.name = "keda-metrics-apiserver"
                                  /\ Rank(s) \in {4, 5}
  BY <1>3
<1>5. "metrics" \in KedaGroups /\ "metrics" \in Groups
  BY DEF KedaGroups, Groups
<1>6. ASSUME NEW g \in Groups PROVE Guarded(DeleteCalls(g), P, Q)
  <2> DEFINE calls == DeleteCalls(g)
             list == Parsed[g]
             n == Len(list)
  <2>1. /\ Len(calls) = n
        /\ \A i \in 1..n : calls[i] = Call("delete", renderForDelete(g, list[(n - i) + 1]))
    BY DeleteGroup
  <2>2. list \in Seq(Resource) /\ ToSet(list) = Home(g)
    BY ParsedGroups
  <2>3. n \in Nat
    BY <2>2
  <2>4. \A x : x \in Home(g) <=> \E i \in 1..n : x = list[i]
    BY <2>2, InToSet
  <2> HIDE DEF calls
  <2> SUFFICES ASSUME NEW i \in 1..n, calls[i] \in P PROVE \E j \in 1..(i - 1) : calls[j] \in Q
    BY <2>1 DEF Guarded, calls
  <2> DEFINE k == (n - i) + 1
             r == list[k]
  <2>5. k \in 1..n /\ i = (n - k) + 1
    BY <2>3
  <2>6. r \in Home(g) /\ calls[i] = Call("delete", renderForDelete(g, r))
    BY <2>1, <2>4, <2>5
  <2> HIDE DEF r, k, list, n
  <2>7. r \in Operands /\ s \in Operands
    BY <1>5, <2>6, Homes
  <2>8. r = s
    <3>1. r \in Resource
      BY <2>7, ManifestTypes DEF Operands
    <3>2. SameResource(renderForDelete(g, r), ReplaceAllNamespaces(r))
      BY <2>6, RenderedForDelete
    <3>3. calls[i].r.kind = kind /\ calls[i].r.name = "keda-metrics-apiserver"
      BY DEF BackendDeleted, Backend
    <3>4. calls[i].r = renderForDelete(g, r)
      BY ONLY <2>6 DEF Call
    <3>5. r.kind = kind /\ r.name = "keda-metrics-apiserver"
      BY <3>1, <3>2, <3>3, <3>4 DEF SameResource, ReplaceAllNamespaces, Resource
    <3> QED BY <1>4, <2>7, <3>5, Embedded
  <2>9. g = "metrics"
    BY <1>4, <1>5, <2>6, <2>8, Embedded DEF Home
  <2>10. PICK l \in 1..n : a = list[l]
    BY <1>3, <2>4, <2>9
  <2>11. k < l
    <3>1. Rank(list[k]) < Rank(list[l])
      BY <1>3, <1>4, <2>8, <2>10 DEF r
    <3>2. k \in 1..Len(list) /\ l \in 1..Len(list)
      BY <2>5 DEF n
    <3> QED BY <2>9, <3>1, <3>2, MetricsSorted DEF list
  <2>12. (n - l) + 1 \in 1..n /\ (n - l) + 1 \in 1..(i - 1) /\ (n - ((n - l) + 1)) + 1 = l
    BY <2>3, <2>5, <2>11
  <2>13. calls[(n - l) + 1] = Call("delete", renderForDelete(g, a))
    BY <2>1, <2>10, <2>12
  <2>14. Call("delete", renderForDelete(g, a)) \in Q
    <3>1. /\ renderForDelete(g, a) \in Resource
          /\ SameResource(renderForDelete(g, a), ReplaceAllNamespaces(a))
      BY <1>3, <2>9, RenderedForDelete
    <3> QED BY <3>1 DEF Deleted, Call, CallType
  <2> QED BY <2>12, <2>13, <2>14
<1>7. IsList(ss, 6, Seq(CallType)) /\ \A i \in 1..6 : ss[i] = DeleteCalls(FinalizeOrder[i])
  BY <1>1, <1>2 DEF IsList
<1>8. AllDeleteCalls = FlattenSeq(ss)
  BY DEF AllDeleteCalls
<1> HIDE DEF ss, P, Q
<1>9. ss \in Seq(Seq(CallType)) /\ Len(ss) = 6
  <2>1. ASSUME NEW n \in Nat, NEW U, IsList(ss, n, U) PROVE ss \in Seq(U) /\ Len(ss) = n
    BY ONLY <2>1, n \in Nat, Mapped
  <2> QED BY ONLY <1>7, <2>1
<1>10. \A j \in 1..Len(ss) : Guarded(ss[j], P, Q)
  BY <1>1, <1>6, <1>7, <1>9
<1>11. Guarded(FlattenSeq(ss), P, Q)
  BY ONLY <1>9, <1>10, FlattenGuarded
<1> QED BY <1>8, <1>11 DEF P, Q

-----------------------------------------------------------------------------
(* The steps *)

\* What the manifests say does not change while the operator runs.
LEMMA Kept ==
  ASSUME yaml' = yaml, ns' = ns
  PROVE  /\ Operands' = Operands /\ Parsed' = Parsed
         /\ \A g : Home(g)' = Home(g)
         /\ \A r : ReplaceAllNamespaces(r)' = ReplaceAllNamespaces(r)
         /\ \A q, r : Fits(q, r)' <=> Fits(q, r)
         /\ \A kind, q : Backend(kind, q)' <=> Backend(kind, q)
         /\ \A kind : BackendApplied(kind)' = BackendApplied(kind)
         /\ \A kind : BackendDeleted(kind)' = BackendDeleted(kind)
         /\ \A r : Deleted(r)' = Deleted(r)
         /\ InstallCall(inst)' = InstallCall(inst')
<1>1. Operands' = Operands
  BY DEF Operands
<1>2. Parsed' = Parsed
  BY DEF Parsed
<1>3. \A g : Home(g)' = Home(g)
  BY DEF Home
<1>4. \A r : ReplaceAllNamespaces(r)' = ReplaceAllNamespaces(r)
  BY DEF ReplaceAllNamespaces
<1>5. \A q, r : Fits(q, r)' <=> Fits(q, r)
  BY <1>4 DEF Fits
<1>6. \A kind, q : Backend(kind, q)' <=> Backend(kind, q)
  BY DEF Backend
<1>7. \A kind : BackendApplied(kind)' = BackendApplied(kind)
  BY <1>6 DEF BackendApplied
<1>8. \A kind : BackendDeleted(kind)' = BackendDeleted(kind)
  BY <1>6 DEF BackendDeleted
<1>9. \A r : Deleted(r)' = Deleted(r)
  BY <1>4 DEF Deleted
<1>10. InstallCall(inst)' = InstallCall(inst')
  BY <1>1, <1>5 DEF InstallCall, Settles
<1> QED BY <1>1, <1>2, <1>3, <1>4, <1>5, <1>6, <1>7, <1>8, <1>9, <1>10

LEMMA KeptCluster ==
  ASSUME yaml' = yaml, ns' = ns, cluster' = cluster
  PROVE  /\ ClusterInv' <=> ClusterInv
         /\ \A r : Installed(r)' <=> Installed(r)
         /\ \A kind : Running(kind)' <=> Running(kind)
         /\ inst' = inst => \A r : Settled(r)' <=> Settled(r)
         /\ todo' = todo => \A r : Pending(r)' <=> Pending(r)
<1>1. ClusterInv' <=> ClusterInv
  BY Kept DEF ClusterInv
<1>2. \A r : Installed(r)' <=> Installed(r)
  BY Kept DEF Installed
<1>3. \A kind : Running(kind)' <=> Running(kind)
  BY Kept DEF Running
<1>4. ASSUME inst' = inst PROVE \A r : Settled(r)' <=> Settled(r)
  BY <1>2, <1>4, Kept DEF Settled
<1>5. ASSUME todo' = todo PROVE \A r : Pending(r)' <=> Pending(r)
  BY <1>5, Kept DEF Pending
<1> QED BY <1>1, <1>2, <1>3, <1>4, <1>5

LEMMA KeptGuarded ==
  ASSUME yaml' = yaml, ns' = ns
  PROVE  /\ \A kind : Guarded(todo, APIApplied, BackendApplied(kind))'
                     <=> Guarded(todo', APIApplied, BackendApplied(kind))
         /\ \A kind, a : Guarded(todo, BackendDeleted(kind), Deleted(a))'
                        <=> Guarded(todo', BackendDeleted(kind), Deleted(a))
BY Kept DEF Guarded

LEMMA InvInit == Init => ManifestsInv
<1> SUFFICES ASSUME Init PROVE ManifestsInv
  OBVIOUS
<1>1. TypeInv
  BY DEF Init, TypeInv
<1>2. PhaseInv /\ ClusterInv /\ InstallInv
  BY DEF Init, PhaseInv, ClusterInv, InstallInv
<1>3. FinalizeInv
  BY DEF Init, FinalizeInv, Installed
<1>4. ServedInv
  BY DEF Init, ServedInv, Served
<1> QED BY <1>1, <1>2, <1>3, <1>4 DEF ManifestsInv

\* Steps that leave the cluster and the calls alone and start nothing.
LEMMA QuietStep ==
  ASSUME ManifestsInv, UNCHANGED <<yaml, ns, cluster, inst>>,
         groups' \in {<<>>, Parsed, groups}, egress' \in SUBSET Pods,
         \/ UNCHANGED <<life, todo, pc>>
         \/ /\ UNCHANGED <<todo, pc>>
            /\ \/ life = "gone" /\ life' = "live"
               \/ life = "live" /\ life' = "deleting"
         \/ pc' = "idle" /\ todo' = <<>> /\ UNCHANGED life
         \/ pc = "finalize" /\ todo = <<>> /\ pc' = "idle" /\ todo' = <<>> /\ life' = "gone"
  PROVE  ManifestsInv'
<1> USE DEF ManifestsInv
<1>1. TypeInv'
  <2>1. groups' \in {<<>>, Parsed'}
    BY Kept DEF TypeInv
  <2>2. todo' \in Seq(CallType)
    <3>1. todo \in Seq(CallType) /\ <<>> \in Seq(CallType)
      BY DEF TypeInv
    <3>2. todo' = todo \/ todo' = <<>>
      OBVIOUS
    <3> QED BY ONLY <3>1, <3>2
  <2> QED BY <2>1, <2>2 DEF TypeInv
<1>2. PhaseInv'
  BY Kept DEF PhaseInv
<1>3. ClusterInv'
  BY KeptCluster
<1>4. InstallInv'
  BY Kept, KeptCluster DEF InstallInv
<1>5. FinalizeInv'
  <2> SUFFICES ASSUME NEW g \in FinalizeGroups, NEW r \in Home(g)
               PROVE  /\ life' = "gone" => ~Installed(r)
                      /\ pc' = "finalize" /\ Installed(r) => Pending(r)'
    BY Kept, KeptCluster DEF FinalizeInv
  <2>1. CASE life' = "gone" /\ life # "gone"
    <3>1. pc = "finalize" /\ todo = <<>> /\ pc' = "idle"
      BY <2>1
    <3>2. ~Pending(r)
      BY <3>1 DEF Pending, ToSet
    <3> QED BY <3>1, <3>2 DEF FinalizeInv
  <2>2. CASE ~(life' = "gone" /\ life # "gone")
    BY <2>2, KeptCluster DEF FinalizeInv
  <2> QED BY <2>1, <2>2
<1>6. ServedInv'
  <2> SUFFICES ASSUME NEW kind \in {"Service", "Deployment"} PROVE Served(kind)'
    BY DEF ServedInv
  <2>1. Served(kind)
    BY DEF ServedInv
  <2>2. ((\E a \in cluster : a.kind = "APIService") => Running(kind))'
    BY <2>1, KeptCluster DEF Served
  <2>3. (pc = "install" => Running(kind) \/ Guarded(todo, APIApplied, BackendApplied(kind)))'
    <3> SUFFICES ASSUME pc' = "install"
                 PROVE  Running(kind)' \/ Guarded(todo, APIApplied, BackendApplied(kind))'
      OBVIOUS
    <3>1. pc = "install" /\ todo' = todo
      OBVIOUS
    <3> QED BY <2>1, <3>1, KeptCluster, KeptGuarded DEF Served
  <2>4. ASSUME pc' = "finalize", NEW a \in Operands', a.kind = "APIService"
        PROVE  ~Installed(a)' \/ Guarded(todo, BackendDeleted(kind), Deleted(a))'
    <3>1. pc = "finalize" /\ todo' = todo /\ a \in Operands
      BY <2>4, Kept
    <3> QED BY <2>1, <2>4, <3>1, KeptCluster, KeptGuarded DEF Served
  <2> QED BY <2>2, <2>3, <2>4 DEF Served
<1> QED BY <1>1, <1>2, <1>3, <1>4, <1>5, <1>6

LEMMA StepBeginInstall == ASSUME ManifestsInv, BeginInstall PROVE ManifestsInv'
<1> USE DEF ManifestsInv
<1>1. /\ yaml \in KedaManifests /\ ns \in Namespaces /\ groups = Parsed
      /\ egress \in SUBSET Pods
  BY DEF BeginInstall, TypeInv
<1>2. /\ UNCHANGED <<yaml, ns, groups, cluster, life, egress>> /\ life = "live"
      /\ pc' = "install" /\ inst' = egress
  BY DEF BeginInstall
<1>3. todo' = AllInstallCalls(egress)
  BY DEF BeginInstall, AllInstallCalls
<1>4. /\ todo' \in Seq(InstallCall(egress))
      /\ \A r \in Operands : \E c \in ToSet(todo') : SameResource(c.r, ReplaceAllNamespaces(r))
  BY <1>1, <1>3, InstallAll
<1>5. todo' \in Seq(InstallCall(inst)')
  BY <1>2, <1>4, Kept
<1>6. TypeInv'
  <2>1. todo' \in Seq(CallType)
    <3>1. InstallCall(egress) \subseteq CallType
      BY DEF InstallCall
    <3> QED BY ONLY <1>4, <3>1
  <2> QED BY <1>1, <1>2, <2>1, Kept DEF TypeInv
<1>7. PhaseInv'
  BY <1>2, <1>5 DEF PhaseInv
<1>8. ClusterInv'
  BY <1>2, KeptCluster
<1>9. InstallInv'
  BY <1>2, <1>4, Kept DEF InstallInv, Pending
<1>10. FinalizeInv'
  BY <1>2 DEF FinalizeInv
<1>11. ASSUME NEW kind \in {"Service", "Deployment"} PROVE Served(kind)'
  <2>1. Guarded(todo', APIApplied, BackendApplied(kind))
    BY <1>1, <1>3, InstallGuarded
  <2>2. Guarded(todo, APIApplied, BackendApplied(kind))'
    BY <1>2, <2>1, KeptGuarded
  <2>3. (\E a \in cluster : a.kind = "APIService") => Running(kind)
    BY DEF ServedInv, Served
  <2>4. ((\E a \in cluster : a.kind = "APIService") => Running(kind))'
    BY <1>2, <2>3, KeptCluster
  <2> QED BY <1>2, <2>2, <2>4 DEF Served
<1> QED BY <1>6, <1>7, <1>8, <1>9, <1>10, <1>11 DEF ServedInv

LEMMA StepBeginFinalize == ASSUME ManifestsInv, BeginFinalize PROVE ManifestsInv'
<1> USE DEF ManifestsInv
<1>1. yaml \in KedaManifests /\ ns \in Namespaces /\ groups = Parsed
  BY DEF BeginFinalize, TypeInv
<1>2. /\ UNCHANGED <<yaml, ns, groups, cluster, life, egress, inst>> /\ life = "deleting"
      /\ pc' = "finalize"
  BY DEF BeginFinalize
<1>3. todo' = AllDeleteCalls
  BY DEF BeginFinalize, AllDeleteCalls
<1>4. /\ todo' \in Seq(DeleteCall)
      /\ \A g \in FinalizeGroups : \A r \in Home(g) : \E c \in ToSet(todo') :
           SameResource(c.r, ReplaceAllNamespaces(r))
  BY <1>1, <1>3, FinalizeAll
<1>5. TypeInv'
  <2>1. todo' \in Seq(CallType)
    <3>1. DeleteCall \subseteq CallType
      BY DEF DeleteCall
    <3> QED BY ONLY <1>4, <3>1
  <2> QED BY <1>1, <1>2, <2>1, Kept DEF TypeInv
<1>6. PhaseInv'
  BY <1>2, <1>4 DEF PhaseInv
<1>7. ClusterInv'
  BY <1>2, KeptCluster
<1>8. InstallInv'
  BY <1>2 DEF InstallInv
<1>9. FinalizeInv'
  BY <1>2, <1>4, Kept DEF FinalizeInv, Pending
<1>10. ASSUME NEW kind \in {"Service", "Deployment"} PROVE Served(kind)'
  <2>1. \A a \in Operands : a.kind = "APIService" =>
          Guarded(todo', BackendDeleted(kind), Deleted(a))
    BY <1>1, <1>3, DeleteGuarded
  <2>2. \A a \in Operands' : a.kind = "APIService" =>
          Guarded(todo, BackendDeleted(kind), Deleted(a))'
    BY <1>2, <2>1, Kept, KeptGuarded
  <2>3. (\E a \in cluster : a.kind = "APIService") => Running(kind)
    BY DEF ServedInv, Served
  <2>4. ((\E a \in cluster : a.kind = "APIService") => Running(kind))'
    BY <1>2, <2>3, KeptCluster
  <2> QED BY <1>2, <2>2, <2>4 DEF Served
<1> QED BY <1>5, <1>6, <1>7, <1>8, <1>9, <1>10 DEF ServedInv

\* Kind, name and namespace tell the resources of the manifests apart.
LEMMA Identity ==
  ASSUME yaml \in KedaManifests, NEW r \in Operands, NEW q, SameResource(q, ReplaceAllNamespaces(r))
  PROVE  /\ q.kind = r.kind /\ q.name = r.name /\ (IsEgressPolicy(q) <=> IsEgressPolicy(r))
         /\ \A r1 \in Operands : q.kind = r1.kind /\ q.name = r1.name => r1 = r
<1>1. r \in Resource
  BY ManifestTypes DEF Operands
<1>2. q.kind = r.kind /\ q.name = r.name
  BY <1>1 DEF SameResource, ReplaceAllNamespaces, Resource
<1>3. \A r1 \in Operands : q.kind = r1.kind /\ q.name = r1.name => r1 = r
  BY <1>2, Embedded
<1> QED BY <1>2, <1>3 DEF IsEgressPolicy

\* q is in the cluster after the call.
Left(q, call) ==
    \/ q \in cluster /\ ~SameResource(q, call.r)
    \/ call.verb = "apply" /\ q = call.r

\* What one call does to the cluster.
LEMMA CallEffect ==
  ASSUME ManifestsInv, APICall
  PROVE  LET call == Head(todo) IN
         /\ UNCHANGED <<yaml, ns, groups, life, egress, inst>> /\ pc \in {"install", "finalize"}
         /\ todo # <<>> /\ todo' = Tail(todo) /\ call \in CallType
         /\ \A q : q \in cluster' <=> Left(q, call)
         /\ \A c \in ToSet(todo) : c = call \/ c \in ToSet(todo')
         /\ pc = "install" => pc' \in {"install", "installed"} /\ (pc' = "installed" => todo' = <<>>)
         /\ pc = "finalize" => pc' = "finalize" /\ call.verb = "delete"
         /\ pc = "install" => todo' \in Seq(InstallCall(inst)) /\ \E r \in Operands : Settles(call, r, inst)
         /\ todo' \in Seq(CallType) /\ (pc = "finalize" => todo' \in Seq(DeleteCall))
<1> DEFINE call == Head(todo)
<1> USE DEF ManifestsInv
<1>1. /\ UNCHANGED <<yaml, ns, groups, life, egress, inst>> /\ todo # <<>> /\ todo' = Tail(todo)
      /\ pc' = IF pc = "install" /\ todo' = <<>> THEN "installed" ELSE pc
  BY DEF APICall
<1>2. pc \in {"install", "finalize"}
  BY <1>1 DEF PhaseInv
<1>3. ASSUME NEW C, todo \in Seq(C)
      PROVE  /\ call \in C /\ todo' \in Seq(C)
             /\ \A c \in ToSet(todo) : c = call \/ c \in ToSet(todo')
  <2>1. /\ Head(todo) \in C /\ Tail(todo) \in Seq(C)
        /\ \A c \in ToSet(todo) : c = Head(todo) \/ c \in ToSet(Tail(todo))
    BY ONLY <1>1, <1>3, TailList
  <2> QED BY <1>1, <2>1
<1>4. todo \in Seq(CallType)
  BY DEF TypeInv
<1>5. \A q : q \in cluster' <=> Left(q, call)
  BY DEF APICall, Left
<1> HIDE DEF call
<1>6. pc = "install" => call \in InstallCall(inst) /\ todo' \in Seq(InstallCall(inst))
  BY <1>3 DEF PhaseInv
<1>7. pc = "finalize" => call \in DeleteCall /\ todo' \in Seq(DeleteCall)
  BY <1>3 DEF PhaseInv
<1>8. pc = "install" => \E r \in Operands : Settles(call, r, inst)
  BY <1>6 DEF InstallCall
<1>9. pc = "finalize" => call.verb = "delete"
  BY <1>7 DEF DeleteCall
<1>10. /\ call \in CallType /\ todo' \in Seq(CallType)
       /\ \A c \in ToSet(todo) : c = call \/ c \in ToSet(todo')
  BY <1>3, <1>4
<1>11. pc = "install" => pc' \in {"install", "installed"} /\ (pc' = "installed" => todo' = <<>>)
  BY <1>1
<1>12. pc = "finalize" => pc' = "finalize"
  BY <1>1
<1> QED BY <1>1, <1>2, <1>5, <1>6, <1>7, <1>8, <1>9, <1>10, <1>11, <1>12 DEF call

LEMMA StepInstallCall == ASSUME ManifestsInv, APICall, pc = "install" PROVE ManifestsInv'
<1> USE DEF ManifestsInv
<1> DEFINE call == Head(todo)
<1>0. yaml \in KedaManifests /\ ns \in Namespaces /\ cluster \subseteq Resource
  BY DEF TypeInv
<1>1. /\ UNCHANGED <<yaml, ns, groups, life, egress, inst>>
      /\ todo # <<>> /\ todo' = Tail(todo) /\ call \in CallType
      /\ \A q : q \in cluster' <=> Left(q, call)
      /\ \A c \in ToSet(todo) : c = call \/ c \in ToSet(todo')
      /\ pc' \in {"install", "installed"} /\ (pc' = "installed" => todo' = <<>>)
      /\ todo' \in Seq(InstallCall(inst)) /\ \E r \in Operands : Settles(call, r, inst)
      /\ todo' \in Seq(CallType)
  BY CallEffect
<1> HIDE DEF call
<1> USE DEF Left
<1>2. PICK r0 \in Operands : Settles(call, r0, inst)
  BY <1>1
<1>3. Fits(call.r, r0) /\ SameResource(call.r, ReplaceAllNamespaces(r0))
  BY <1>2 DEF Settles, Fits
<1>4. /\ call.r.kind = r0.kind /\ call.r.name = r0.name
      /\ IsEgressPolicy(call.r) <=> IsEgressPolicy(r0)
      /\ \A r1 \in Operands : call.r.kind = r1.kind /\ call.r.name = r1.name => r1 = r0
  BY <1>0, <1>3, Identity
<1>5. call.verb = "delete" <=> IsEgressPolicy(r0) /\ inst = {}
  BY <1>2 DEF Settles
<1>6. call.verb = "apply" /\ IsEgressPolicy(r0) => inst # {} /\ call.r.exprs = <<inst>>
  BY <1>2 DEF Settles, Selector
<1>7. call.r \in Resource /\ call.verb \in {"apply", "delete"}
  BY <1>1 DEF CallType
<1>8. TypeInv'
  <2>1. cluster' \subseteq Resource
    BY <1>0, <1>1, <1>7
  <2> QED BY <1>1, <2>1, Kept DEF TypeInv
<1>9. PhaseInv'
  <2>1. life # "gone"
    BY DEF PhaseInv
  <2>2. todo' \in Seq(InstallCall(inst)')
    BY <1>1, Kept
  <2> QED BY <1>1, <2>1, <2>2 DEF PhaseInv
<1>10. ClusterInv'
  <2> SUFFICES ASSUME NEW q \in cluster'
               PROVE  /\ \E r \in Operands : Fits(q, r)
                      /\ IsEgressPolicy(q) => q.exprs # <<>>
    BY <1>1, Kept DEF ClusterInv
  <2>1. CASE q \in cluster
    BY <2>1 DEF ClusterInv
  <2>2. CASE call.verb = "apply" /\ q = call.r
    <3>1. <<inst>> # <<>>
      OBVIOUS
    <3> QED BY <1>3, <1>4, <1>6, <2>2, <3>1
  <2> QED BY <1>1, <2>1, <2>2
<1>11. InstallInv'
  <2> SUFFICES ASSUME NEW r \in Operands PROVE Pending(r)' \/ Settled(r)'
    BY <1>1, Kept DEF InstallInv
  <2> DEFINE p == ReplaceAllNamespaces(r)
  <2>1. ReplaceAllNamespaces(r)' = p
    BY <1>1, Kept
  <2>2. CASE SameResource(call.r, p)
    <3>1. r = r0
      BY <1>0, <1>4, <2>2, Identity
    <3>2. \A q \in cluster' : SameResource(q, p) => call.verb = "apply" /\ q = call.r
      BY <1>1, <2>2 DEF SameResource
    <3>3. Installed(r)' <=> call.verb = "apply"
      BY <1>1, <2>1, <2>2, <3>2 DEF Installed
    <3>4. \A q \in cluster' : SameResource(q, p) /\ IsEgressPolicy(r) => q.exprs = <<inst>>
      BY <1>6, <3>1, <3>2
    <3>5. call.verb = "apply" <=> (IsEgressPolicy(r) => inst # {})
      BY <1>5, <1>7, <3>1
    <3> QED BY <1>1, <2>1, <3>3, <3>4, <3>5 DEF Settled
  <2>3. CASE ~SameResource(call.r, p) /\ Pending(r)
    <3>1. PICK c \in ToSet(todo) : SameResource(c.r, p)
      BY <2>3 DEF Pending
    <3>2. c \in ToSet(todo')
      BY <1>1, <2>3, <3>1
    <3> QED BY <2>1, <3>1, <3>2 DEF Pending
  <2>4. CASE ~SameResource(call.r, p) /\ Settled(r)
    <3>1. \A q : SameResource(q, p) => (q \in cluster' <=> q \in cluster)
      BY <1>1, <2>4 DEF SameResource
    <3>2. Installed(r)' <=> Installed(r)
      BY <2>1, <3>1 DEF Installed
    <3>3. /\ Installed(r) <=> (IsEgressPolicy(r) => inst # {})
          /\ \A q \in cluster' : SameResource(q, p) /\ IsEgressPolicy(r) => q.exprs = <<inst>>
      BY <2>4, <3>1 DEF Settled
    <3> QED BY <1>1, <2>1, <3>2, <3>3 DEF Settled
  <2> QED BY <2>2, <2>3, <2>4 DEF InstallInv
<1>12. FinalizeInv'
  BY <1>1 DEF PhaseInv, FinalizeInv
<1>13. ASSUME NEW kind \in {"Service", "Deployment"} PROVE Served(kind)'
  <2>0. Served(kind)
    BY DEF ServedInv
  <2>7. \A q \in cluster' : Backend(kind, q) => Running(kind)'
    BY <1>1, Kept DEF Running
  <2>1. ASSUME Running(kind) PROVE Running(kind)'
    <3>1. PICK q \in cluster : Backend(kind, q)
      BY <2>1 DEF Running
    <3>2. CASE ~SameResource(q, call.r)
      BY <1>1, <2>7, <3>1, <3>2
    <3>3. CASE SameResource(q, call.r)
      <4>1. call.r.kind = kind /\ Backend(kind, call.r)
        BY <3>1, <3>3 DEF SameResource, Backend
      <4>2. call.verb = "apply"
        BY <1>4, <1>5, <1>7, <4>1 DEF IsEgressPolicy
      <4>3. call.r \in cluster'
        BY <1>1, <4>2
      <4> QED BY <2>7, <4>1, <4>3
    <3> QED BY <3>2, <3>3
  <2>2. ASSUME call \in BackendApplied(kind) PROVE Running(kind)'
    <3>1. call.verb = "apply" /\ Backend(kind, call.r)
      BY <2>2 DEF BackendApplied
    <3>2. call.r \in cluster'
      BY <1>1, <3>1
    <3> QED BY <2>7, <3>1, <3>2
  <2>3. ASSUME Guarded(todo, APIApplied, BackendApplied(kind))
        PROVE  /\ call \notin APIApplied
               /\ call \notin BackendApplied(kind) =>
                    Guarded(todo, APIApplied, BackendApplied(kind))'
    <3>1. todo \in Seq(CallType)
      BY DEF TypeInv
    <3>2. /\ Head(todo) \notin APIApplied
          /\ Head(todo) \notin BackendApplied(kind) =>
               Guarded(Tail(todo), APIApplied, BackendApplied(kind))
      BY ONLY <1>1, <2>3, <3>1, TailGuarded
    <3> QED BY <1>1, <3>2, KeptGuarded DEF call
  <2>4. ASSUME NEW a \in cluster', a.kind = "APIService" PROVE Running(kind)'
    <3>1. CASE a \in cluster
      BY <2>0, <2>1, <2>4, <3>1 DEF Served
    <3>2. CASE call.verb = "apply" /\ a = call.r
      <4>1. call \in APIApplied
        BY <1>1, <2>4, <3>2 DEF APIApplied
      <4>2. Running(kind)
        BY <2>0, <2>3, <4>1 DEF Served
      <4> QED BY <2>1, <4>2
    <3> QED BY <1>1, <3>1, <3>2
  <2>5. Running(kind)' \/ Guarded(todo, APIApplied, BackendApplied(kind))'
    BY <2>0, <2>1, <2>2, <2>3 DEF Served
  <2>6. pc' # "finalize"
    BY <1>1
  <2> QED BY <2>4, <2>5, <2>6 DEF Served
<1> QED BY <1>8, <1>9, <1>10, <1>11, <1>12, <1>13 DEF ServedInv

LEMMA StepDeleteCall == ASSUME ManifestsInv, APICall, pc = "finalize" PROVE ManifestsInv'
<1> USE DEF ManifestsInv
<1> DEFINE call == Head(todo)
<1>0. yaml \in KedaManifests /\ ns \in Namespaces /\ cluster \subseteq Resource
  BY DEF TypeInv
<1>1. /\ UNCHANGED <<yaml, ns, groups, life, egress, inst>>
      /\ todo # <<>> /\ todo' = Tail(todo) /\ call \in CallType
      /\ \A q : q \in cluster' <=> Left(q, call)
      /\ \A c \in ToSet(todo) : c = call \/ c \in ToSet(todo')
      /\ pc' = "finalize" /\ call.verb = "delete"
      /\ todo' \in Seq(DeleteCall) /\ todo' \in Seq(CallType)
  BY CallEffect
<1> HIDE DEF call
<1>2. \A q : q \in cluster' <=> q \in cluster /\ ~SameResource(q, call.r)
  BY <1>1 DEF Left
<1>3. life = "deleting"
  BY DEF PhaseInv
<1>4. TypeInv'
  <2>1. cluster' \subseteq Resource
    BY <1>0, <1>2
  <2> QED BY <1>1, <2>1, Kept DEF TypeInv
<1>5. PhaseInv'
  BY <1>1, <1>3 DEF PhaseInv
<1>6. ClusterInv'
  <2> SUFFICES ASSUME NEW q \in cluster'
               PROVE  /\ \E r \in Operands : Fits(q, r)
                      /\ IsEgressPolicy(q) => q.exprs # <<>>
    BY <1>1, Kept DEF ClusterInv
  <2> QED BY <1>2 DEF ClusterInv
<1>7. InstallInv'
  BY <1>1 DEF InstallInv
<1>8. ASSUME NEW r, Installed(r)'
      PROVE  Installed(r) /\ ~SameResource(call.r, ReplaceAllNamespaces(r))
  <2>1. PICK q \in cluster' : SameResource(q, ReplaceAllNamespaces(r))
    BY <1>1, <1>8, Kept DEF Installed
  <2>2. q \in cluster /\ ~SameResource(q, call.r)
    BY <1>2
  <2> QED BY <2>1, <2>2 DEF Installed, SameResource
<1>9. FinalizeInv'
  <2> SUFFICES ASSUME NEW g \in FinalizeGroups, NEW r \in Home(g), Installed(r)' PROVE Pending(r)'
    BY <1>1, <1>3, Kept DEF FinalizeInv
  <2>1. Installed(r) /\ ~SameResource(call.r, ReplaceAllNamespaces(r))
    BY <1>8
  <2>2. Pending(r)
    BY <2>1 DEF FinalizeInv
  <2>3. PICK c \in ToSet(todo) : SameResource(c.r, ReplaceAllNamespaces(r))
    BY <2>2 DEF Pending
  <2>4. c \in ToSet(todo')
    BY <1>1, <2>1, <2>3
  <2> QED BY <1>1, <2>3, <2>4, Kept DEF Pending
<1>10. ASSUME NEW kind \in {"Service", "Deployment"} PROVE Served(kind)'
  <2>0. Served(kind)
    BY DEF ServedInv
  <2>1. ASSUME NEW a, Guarded(todo, BackendDeleted(kind), Deleted(a))
        PROVE  /\ call \notin BackendDeleted(kind)
               /\ call \notin Deleted(a) => Guarded(todo, BackendDeleted(kind), Deleted(a))'
    <3>1. todo \in Seq(CallType)
      BY DEF TypeInv
    <3>2. /\ Head(todo) \notin BackendDeleted(kind)
          /\ Head(todo) \notin Deleted(a) => Guarded(Tail(todo), BackendDeleted(kind), Deleted(a))
      BY ONLY <1>1, <2>1, <3>1, TailGuarded
    <3> QED BY <1>1, <3>2, KeptGuarded DEF call
  <2>2. ASSUME NEW a \in cluster', a.kind = "APIService" PROVE Running(kind)'
    <3>1. a \in cluster /\ Running(kind)
      BY <1>2, <2>0, <2>2 DEF Served
    <3>2. PICK r \in Operands : Fits(a, r)
      BY <3>1 DEF ClusterInv
    <3>3. SameResource(a, ReplaceAllNamespaces(r))
      BY <3>2 DEF Fits
    <3>4. r.kind = "APIService"
      BY <1>0, <2>2, <3>3, Identity
    <3>5. Installed(r)
      BY <3>1, <3>3 DEF Installed
    <3>6. call \notin BackendDeleted(kind)
      BY <2>0, <2>1, <3>4, <3>5 DEF Served
    <3>7. PICK q \in cluster : Backend(kind, q)
      BY <3>1 DEF Running
    <3>8. ~SameResource(q, call.r)
      BY <1>1, <3>6, <3>7 DEF BackendDeleted, Backend, SameResource
    <3>9. q \in cluster'
      BY <1>2, <3>8
    <3> QED BY <1>1, <3>7, <3>9, Kept DEF Running
  <2>3. ASSUME NEW a \in Operands, a.kind = "APIService"
        PROVE  ~Installed(a)' \/ Guarded(todo, BackendDeleted(kind), Deleted(a))'
    <3>1. CASE ~Installed(a)
      BY <1>8, <3>1
    <3>2. CASE call \in Deleted(a)
      BY <1>8, <3>2 DEF Deleted
    <3>3. CASE call \notin Deleted(a) /\ Installed(a)
      BY <2>0, <2>1, <2>3, <3>3 DEF Served
    <3> QED BY <3>1, <3>2, <3>3
  <2>4. Operands' = Operands
    BY <1>1, Kept
  <2> QED BY <1>1, <2>2, <2>3, <2>4 DEF Served
<1> QED BY <1>4, <1>5, <1>6, <1>7, <1>9, <1>10 DEF ServedInv

LEMMA InvNext == ManifestsInv /\ [Next]_vars => ManifestsInv'
<1> SUFFICES ASSUME ManifestsInv, [Next]_vars PROVE ManifestsInv'
  OBVIOUS
<1>0. egress \in SUBSET Pods
  BY DEF ManifestsInv, TypeInv
<1>1. CASE SetupWithManager
  BY <1>0, <1>1, QuietStep DEF SetupWithManager
<1>2. CASE BeginInstall
  BY <1>2, StepBeginInstall
<1>3. CASE InstallDone
  <2>1. todo = <<>>
    BY <1>3 DEF InstallDone, ManifestsInv, PhaseInv
  <2> QED BY <1>0, <1>3, <2>1, QuietStep DEF InstallDone
<1>4. CASE BeginFinalize
  BY <1>4, StepBeginFinalize
<1>5. CASE FinalizeDone
  BY <1>0, <1>5, QuietStep DEF FinalizeDone
<1>6. CASE APICall
  <2>1. pc \in {"install", "finalize"}
    BY <1>6, CallEffect
  <2> QED BY <1>6, <2>1, StepInstallCall, StepDeleteCall
<1>7. CASE Abort(groups) \/ Abort(<<>>)
  BY <1>0, <1>7, QuietStep DEF Abort
<1>8. CASE UserCreate
  BY <1>0, <1>8, QuietStep DEF UserCreate
<1>9. CASE UserDelete
  BY <1>0, <1>9, QuietStep DEF UserDelete
<1>10. CASE \E allowed \in SUBSET Pods : UserEdit(allowed)
  BY <1>10, QuietStep DEF UserEdit
<1>11. CASE UNCHANGED vars
  BY <1>0, <1>11, QuietStep DEF vars
<1> QED BY <1>1, <1>2, <1>3, <1>4, <1>5, <1>6, <1>7, <1>8, <1>9, <1>10, <1>11 DEF Next

\* The invariant holds in every reachable state, whatever the files contain beyond
\* EmbeddedAssumption, in whatever order, and wherever a reconcile is cut off.
LEMMA ManifestsAlways == Spec => []ManifestsInv
BY InvInit, InvNext, PTL DEF Spec

-----------------------------------------------------------------------------
(* The theorems *)

\* A reconcile that went through has installed every resource of the embedded
\* manifests in its place, nothing else, and the egress policy of the spec
\* (parseManifestsFromFile to installHTTPAddon), whatever an interrupted reconcile
\* or an older spec had left.  Each API call settles one resource for good; the
\* calls that are left cover the rest (InstallInv).
THEOREM InstallationComplete == Spec => []InstalledIsComplete
<1>1. ManifestsInv => InstalledIsComplete
  <2> SUFFICES ASSUME ManifestsInv, pc = "installed"
      PROVE  /\ \A r \in Operands : (IsEgressPolicy(r) => inst # {}) =>
                  \E q \in cluster : SameResource(q, ReplaceAllNamespaces(r))
             /\ \A q \in cluster : \E r \in Operands :
                  (IsEgressPolicy(r) => inst # {}) /\ SameResource(q, ReplaceAllNamespaces(r))
             /\ \A q \in cluster : IsEgressPolicy(q) => q.exprs = <<inst>>
    BY DEF InstalledIsComplete
  <2> USE DEF ManifestsInv
  <2>1. yaml \in KedaManifests
    BY DEF TypeInv
  <2>2. \A r \in Operands : Settled(r)
    <3>1. todo = <<>>
      BY DEF PhaseInv
    <3>2. \A r \in Operands : ~Pending(r)
      BY <3>1 DEF Pending, ToSet
    <3> QED BY <3>2 DEF InstallInv
  <2>3. ASSUME NEW r \in Operands, IsEgressPolicy(r) => inst # {}
        PROVE  \E q \in cluster : SameResource(q, ReplaceAllNamespaces(r))
    BY <2>2, <2>3 DEF Settled, Installed
  <2>4. ASSUME NEW q \in cluster
        PROVE  /\ \E r \in Operands :
                    (IsEgressPolicy(r) => inst # {}) /\ SameResource(q, ReplaceAllNamespaces(r))
               /\ IsEgressPolicy(q) => q.exprs = <<inst>>
    <3>1. PICK r \in Operands : Fits(q, r)
      BY DEF ClusterInv
    <3>2. SameResource(q, ReplaceAllNamespaces(r))
      BY <3>1 DEF Fits
    <3>3. Installed(r)
      BY <3>2 DEF Installed
    <3>4. IsEgressPolicy(r) => inst # {} /\ q.exprs = <<inst>>
      BY <2>2, <3>2, <3>3 DEF Settled
    <3>5. IsEgressPolicy(q) <=> IsEgressPolicy(r)
      BY <2>1, <3>2, Identity
    <3> QED BY <3>2, <3>4, <3>5
  <2> QED BY <2>3, <2>4
<1> QED BY <1>1, ManifestsAlways, PTL

\* Once the KedaController is gone, the cluster has nothing left of what
\* finalizeKedaController deletes: renderForDelete finds every resource where
\* it was installed, also after installations and deletions that were cut off.
\* During a deletion, whatever is left still has a call ahead (FinalizeInv).
THEOREM NothingLeftBehind == Spec => []FinalizerFindsEverything
<1>1. ManifestsInv => FinalizerFindsEverything
  <2> SUFFICES ASSUME ManifestsInv, life = "gone", groups # <<>>,
                      NEW i \in DOMAIN FinalizeOrder, NEW r \in ToSet(groups[FinalizeOrder[i]]),
                      NEW q \in cluster, q.kind = r.kind, q.name = r.name
               PROVE  FALSE
    BY DEF FinalizerFindsEverything
  <2> DEFINE g == FinalizeOrder[i]
  <2> USE DEF ManifestsInv
  <2>1. yaml \in KedaManifests /\ groups = Parsed
    BY DEF TypeInv
  <2>2. g \in FinalizeGroups /\ g \in Groups
    BY DEF FinalizeOrder, FinalizeGroups, Groups, KedaGroups, AddonGroups
  <2> HIDE DEF g
  <2>3. r \in Home(g)
    BY <2>1, <2>2, ParsedGroups DEF g
  <2>4. r \in Operands
    BY <2>1, <2>2, <2>3, Homes
  <2>5. PICK r1 \in Operands : Fits(q, r1)
    BY DEF ClusterInv
  <2>6. SameResource(q, ReplaceAllNamespaces(r1))
    BY <2>5 DEF Fits
  <2>7. r1 = r
    BY <2>1, <2>4, <2>6, Identity
  <2>8. Installed(r)
    BY <2>6, <2>7 DEF Installed
  <2> QED BY <2>2, <2>3, <2>8 DEF FinalizeInv
<1> QED BY <1>1, ManifestsAlways, PTL

\* The external metrics API is registered only while the Service it refers to
\* and the Deployment behind it are in the cluster: sortMetricsResources puts the
\* APIService behind both, the finalizer goes through the same list backwards, and
\* an interruption between any two calls keeps the order (ServedInv).
THEOREM APIHasServer == Spec => []ServedOnlyWhileRunning
<1>1. ManifestsInv => ServedOnlyWhileRunning
  <2> SUFFICES ASSUME ManifestsInv, NEW a \in cluster, a.kind = "APIService",
                      NEW kind \in {"Service", "Deployment"}
               PROVE  \E s \in cluster : /\ s.kind = kind /\ s.name = "keda-metrics-apiserver"
                                         /\ s.ns = a.ref
    BY DEF ServedOnlyWhileRunning
  <2> USE DEF ManifestsInv
  <2>1. yaml \in KedaManifests
    BY DEF TypeInv
  <2>2. PICK r \in Operands : Fits(a, r)
    BY DEF ClusterInv
  <2>3. SameResource(a, ReplaceAllNamespaces(r)) /\ a.ref = ReplaceAllNamespaces(r).ref
    BY <2>2 DEF Fits
  <2>4. r.kind = "APIService"
    BY <2>1, <2>3, Identity
  <2>5. r.ref = "keda"
    BY <2>1, <2>4, MetricsServer
  <2>6. r \in Resource
    BY <2>1, ManifestTypes DEF Operands
  <2>7. a.ref = ns
    BY <2>3, <2>5, <2>6 DEF ReplaceAllNamespaces, Resource
  <2>8. Running(kind)
    BY DEF ServedInv, Served
  <2> QED BY <2>7, <2>8 DEF Running, Backend
<1> QED BY <1>1, ManifestsAlways, PTL

\* keda-allow-egress-to-all is never in the cluster with an empty selector, which
\* would open the network to every pod: installGeneralResources deletes the policy
\* that RemoveNetworkPolicyPodSelector has emptied and applies it otherwise.
THEOREM EgressStaysSelective == Spec => []EgressIsSelective
<1>1. ManifestsInv => EgressIsSelective
  BY DEF ManifestsInv, ClusterInv, EgressIsSelective
<1> QED BY <1>1, ManifestsAlways, PTL

\* No resource carries an owner reference into another namespace (InjectOwner and
\* ReplaceAllNamespaces, in the order in which the stages apply them).
THEOREM OwnersStayLocal == Spec => []OwnersAreLocal
<1>1. ManifestsInv => OwnersAreLocal
  BY DEF ManifestsInv, ClusterInv, OwnersAreLocal, Fits
<1> QED BY <1>1, ManifestsAlways, PTL
=============================================================================
