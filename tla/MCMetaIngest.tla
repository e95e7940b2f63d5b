---------------------------- MODULE MCMetaIngest ----------------------------
(***************************************************************************)
(* A pod, the ConfigMap it refers to by name, and the ReplicaSet that owns *)
(* it.  ConfigMap and ReplicaSet were deleted and created again under the  *)
(* same name, so each key has two UIDs, and another namespace has a        *)
(* ConfigMap of the same name.                                             *)
(***************************************************************************)
EXTENDS MetaIngest, TLC

CONSTANTS s1, s2, r1

Key(ns, kind, name) == [ns |-> ns, kind |-> kind, name |-> name]

podKey == Key("shop", "Pod", "web")
cfgKey == Key("shop", "ConfigMap", "app-config")
opsKey == Key("ops", "ConfigMap", "app-config")
rsKey  == Key("shop", "ReplicaSet", "web")

MCKeys == {podKey, cfgKey, opsKey, rsKey}
MCKeyOf == ("pod" :> podKey) @@ ("cfg" :> cfgKey) @@ ("cfg2" :> cfgKey)
           @@ ("ops" :> opsKey) @@ ("rs" :> rsKey) @@ ("rs2" :> rsKey)
MCUIDs == DOMAIN MCKeyOf

Pod == [uid |-> "pod", refs |-> (cfgKey :> "") @@ (rsKey :> "rs")]
Plain(u) == [uid |-> u, refs |-> [k \in {} |-> ""]]

MCObservations == {Pod} \cup {Plain(u) : u \in MCUIDs \ {"pod"}}

(* Accepted messages, and one from an agent whose clock runs ahead *)
Batch(rs) == [agent |-> "a1", cluster |-> TRUE, resources |-> rs,
              collectedAt |-> "past", named |-> TRUE]
Early(b) == [b EXCEPT !.collectedAt = "future"]

MCBatches == {Batch({Pod}), Batch({Plain("cfg"), Plain("rs")}),
              Batch({Plain("cfg2"), Plain("ops")}), Batch({Plain("rs2")}),
              Early(Batch({Pod}))}

Symmetry == Permutations({s1, s2})
=============================================================================
