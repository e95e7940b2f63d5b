----------------------------- MODULE MCPodReports -----------------------------
(* A pod, its successor under the same name on another node, its namesake in
   another namespace, of a runtime that is not known, and a static pod of a
   system namespace. *)
EXTENDS PodReports, TLC

MCPod(ns, name, node, containers, qos, runtime, static) ==
    [ns |-> ns, name |-> name, node |-> node, containers |-> containers,
     qos |-> qos, runtime |-> runtime, static |-> static]

MCPodOf ==
    ("db0" :> MCPod("shop", "db", "n1", {"app", "side"}, "guaranteed", "crio-", FALSE))
    @@ ("db1" :> MCPod("shop", "db", "n2", {"app"}, "burstable", "crio-", FALSE))
    @@ ("ops" :> MCPod("ops", "db", "n1", {"app"}, "besteffort", "libpod-", FALSE))
    @@ ("etcd" :> MCPod("kube-system", "etcd", "n1", {"etcd"}, "burstable", "crio-", TRUE))

MCPodUIDs == DOMAIN MCPodOf
\* To replace a pod and sample its successor takes three; a walk meets one pod that
\* goes, or one counter that moves, and any number that start.
MCChanges == [metrics |-> 3, logs |-> 2, cgroup |-> 1]
MCNamespaces == <<"kube-system", "ops", "shop">>
MCRuntimes == {"cri-containerd-", "crio-", "docker-"}
=============================================================================
