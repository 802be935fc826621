---------------------------- MODULE MCCheckSums ----------------------------
(* CheckSums with the entries the objects really have: one CA bundle in the  *)
(* ConfigMap, a certificate and its key in the Secret.                       *)
EXTENDS CheckSums

MCOrders == [configmap |-> 1, secret |-> 2]
MCMaxWrites == [configmap |-> 1, secret |-> 2]
=============================================================================
