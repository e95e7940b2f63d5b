--------------------------- MODULE MCClusterCollect ---------------------------
(* A Deployment's pod and the ConfigMap it names, under two UIDs as a
   replaced ConfigMap has, and the mirror of a static pod in a system namespace,
   which a Node owns. *)
EXTENDS ClusterCollect, TLC

Obj(ns, kind, name, owner, mentions) ==
    [ns |-> ns, kind |-> kind, name |-> name, owner |-> owner, mentions |-> mentions]
Mention(kind, name) == [kind |-> kind, name |-> name]

template == {Mention("ConfigMap", "app-config"), Mention("ConfigMap", ""),
             Mention("ServiceAccount", "default")}

MCObject ==
    ("shop" :> Obj("", "Namespace", "shop", "none", {}))
    @@ ("sys" :> Obj("", "Namespace", "kube-system", "none", {}))
    @@ ("cfg" :> Obj("shop", "ConfigMap", "app-config", "none", {}))
    @@ ("cfg2" :> Obj("shop", "ConfigMap", "app-config", "none", {}))
    @@ ("dep" :> Obj("shop", "Deployment", "web", "none", template))
    @@ ("rs" :> Obj("shop", "ReplicaSet", "web-1", "dep", {}))
    @@ ("pod" :> Obj("shop", "Pod", "web-1-a", "rs", template))
    @@ ("node" :> Obj("", "Node", "n1", "none", {}))
    @@ ("etcd" :> Obj("kube-system", "Pod", "etcd-n1", "node", {}))

MCUIDs == DOMAIN MCObject
=============================================================================
