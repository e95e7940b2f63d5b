-------------------------- MODULE MCResourceListing --------------------------
(* The resources of MCMetaIngest, and one request for all of them. *)
EXTENDS ResourceListing, TLC

CONSTANTS s1, s2, r1, l1

Key(ns, kind, name) == [ns |-> ns, kind |-> kind, name |-> name]

podKey == Key("shop", "Pod", "web")
cfgKey == Key("shop", "ConfigMap", "app-config")
opsKey == Key("ops", "ConfigMap", "app-config")
rsKey  == Key("shop", "ReplicaSet", "web")

MCKeys == {podKey, cfgKey, opsKey, rsKey}
MCKeyOf == ("pod" :> podKey) @@ ("cfg" :> cfgKey) @@ ("ops" :> opsKey)
           @@ ("rs" :> rsKey)
MCUIDs == DOMAIN MCKeyOf

Pod == [uid |-> "pod", refs |-> (cfgKey :> "") @@ (rsKey :> "rs")]
Plain(u) == [uid |-> u, refs |-> [k \in {} |-> ""]]

MCObservations == {Pod} \cup {Plain(u) : u \in MCUIDs \ {"pod"}}

Batch(rs) == [agent |-> "a1", cluster |-> TRUE, resources |-> rs,
              collectedAt |-> "past", named |-> TRUE]

(* The ReplicaSet is never stored *)
MCBatches == {Batch({Pod}), Batch({Plain("cfg"), Plain("ops")})}

MCFilters == {[ns |-> "", kind |-> ""], [ns |-> "ops", kind |-> "ConfigMap"]}
=============================================================================
