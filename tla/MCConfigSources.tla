-------------------------- MODULE MCConfigSources --------------------------
(* Instances of the config sources for TLC.                                *)
EXTENDS ConfigSources

\* Two keys of one secret, which is on a lease, a znode, a file that is
\* included twice, and an environment variable.
MCItems == {"secret", "znode", "file", "variable"}
MCItemOf == <<"file", "secret", "file", "znode", "secret", "variable">>
MCKindOf ==
    [i \in MCItems |-> CASE i = "secret" -> "lease"
                         [] i = "znode" -> "zookeeper" [] i = "file" -> "include"
                         [] i = "variable" -> "unwatched"]
=============================================================================
