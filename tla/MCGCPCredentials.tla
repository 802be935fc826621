-------------------------- MODULE MCGCPCredentials --------------------------
(* GCPCredentials with two configurations an administrator switches between, *)
(* or with a single one.                                                     *)
EXTENDS GCPCredentials

TwoConfigs == {"a", "b"}
OneConfig == {"a"}
=============================================================================
