------------------------------- MODULE MCStartup -------------------------------
(* Startup for two processes and the profiles that differ in kind: the default, *)
(* the same one by name, a custom one with a cipher nobody knows, and a broken   *)
(* one.                                                                          *)
EXTENDS Startup

Intermediate == [min |-> "TLS12", ciphers |-> {"a", "b"}]

MCResolve ==
    [unset |-> Intermediate, Intermediate |-> Intermediate,
     Custom |-> [min |-> "TLS13", ciphers |-> {"a", "x"}], Broken |-> Unresolved]

MCInstalled == [profile |-> "unset", adherence |-> TRUE]

MCAPIServers ==
    {MCInstalled,
     [profile |-> "Intermediate", adherence |-> TRUE],
     [profile |-> "Intermediate", adherence |-> FALSE],
     [profile |-> "Custom", adherence |-> TRUE],
     [profile |-> "Broken", adherence |-> TRUE]}
=============================================================================
