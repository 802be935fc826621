----------------------------- MODULE MCManifests -----------------------------
(* Manifests for the embedded files, in their order and in reverse order.    *)
EXTENDS Manifests

R(kind, name, namespace, ref) ==
    [kind |-> kind, name |-> name, ns |-> namespace, ref |-> ref,
     exprs |-> <<>>, owned |-> FALSE]

\* resources/keda.yaml; the six CRDs are one, and of the group of the operator
\* one namespaced and one cluster-scoped resource are enough.
Keda ==
    <<R("Namespace", "keda", "", ""),
      R("CustomResourceDefinition", "scaledobjects.keda.sh", "", ""),
      R("ServiceAccount", "keda-operator", "keda", ""),
      R("ClusterRole", "keda-external-metrics-reader", "", ""),
      R("RoleBinding", "keda-auth-reader", "kube-system", "keda"),
      R("ClusterRoleBinding", "keda-hpa-controller-external-metrics", "", "kube-system"),
      R("ClusterRoleBinding", "keda-operator", "", "keda"),
      R("ClusterRoleBinding", "keda-system-auth-delegator", "", "keda"),
      R("Service", "keda-admission-webhooks", "keda", ""),
      R("Service", "keda-metrics-apiserver", "keda", ""),
      R("Deployment", "keda-admission", "keda", ""),
      R("Deployment", "keda-metrics-apiserver", "keda", ""),
      R("Deployment", "keda-operator", "keda", ""),
      R("APIService", "v1beta1.external.metrics.k8s.io", "", "keda"),
      R("ValidatingWebhookConfiguration", "keda-admission", "", "keda")>>

\* resources/keda-olm-operator.yaml; one NetworkPolicy stands for the seven that
\* are applied as they are, one ServiceMonitor for three.
OLMOperator ==
    <<R("Secret", "kedaorg-certs", "keda", ""),
      R("ServiceMonitor", "keda-operator", "keda", ""),
      R("PodMonitor", "keda-olm-operator", "keda", ""),
      R("NetworkPolicy", "keda-default-deny", "keda", ""),
      [R("NetworkPolicy", "keda-allow-egress-to-all", "keda", "") EXCEPT
         !.exprs = <<{"keda-operator", "keda-metrics-apiserver"}>>]>>

\* resources/keda-http-addon.yaml, without repeating kinds of a component.
Addon ==
    <<R("ServiceAccount", "keda-add-ons-http-operator", "keda", ""),
      R("ClusterRoleBinding", "keda-add-ons-http-operator", "", "keda"),
      R("Deployment", "keda-add-ons-http-operator", "keda", ""),
      R("ScaledObject", "keda-add-ons-http-interceptor", "keda", ""),
      R("Service", "keda-add-ons-http-external-scaler", "keda", ""),
      R("Deployment", "keda-add-ons-http-scaler", "keda", "")>>

MCKedaManifests == {Keda \o OLMOperator, Reverse(Keda \o OLMOperator)}
MCPods == {"keda-operator", "keda-metrics-apiserver"}
MCInterceptorNames == {"keda-add-ons-http-interceptor"}
MCScalerNames == {"keda-add-ons-http-external-scaler", "keda-add-ons-http-scaler"}
=============================================================================
