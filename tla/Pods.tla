--------------------------------- MODULE Pods ---------------------------------
(***************************************************************************)
(* What the collectors of pod metrics and logs read, all of it external:   *)
(* the pods the API server holds, the samples metrics-server keeps of      *)
(* them by name, and the cgroups of the containers that run, with their    *)
(* CPU counters.  Pods come, go and are replaced under their names (those  *)
(* of a StatefulSet keep them) while a collection is going on.             *)
(***************************************************************************)
EXTENDS Integers, Sequences, FiniteSets

CONSTANTS
    PodUIDs,        \* every pod that ever exists
    PodOf,          \* uid -> [ns, name, node, containers, qos, runtime, static]
    NoUID,
    MaxChanges,     \* bound, by task: pods created or deleted, samples, counts
    MaxCPU          \* bound: of the CPU counters

Tasks == {"metrics", "logs", "cgroup"}

ASSUME PodAssumption ==
    /\ NoUID \notin PodUIDs /\ MaxChanges \in [Tasks -> Nat] /\ MaxCPU \in Nat \ {0}
    /\ \A u \in PodUIDs : PodOf[u].static \in BOOLEAN

VARIABLES
    alive,      \* the pods in the API server
    born,       \* the pods ever in it: a UID is not used twice
    running,    \* those whose containers run
    sampled,    \* metrics-server: ns and name -> the pod its sample is of
    cpu,        \* container -> its counter, in nanoseconds
    changes,    \* bound
    steady,     \* history: alive, running and sampled since the beginning
    cpuBefore,  \* history: the counters at the beginning
    task        \* bound: the one collector that reads: metrics, logs or cgroup

podVars == <<alive, born, running, sampled, cpu, changes, steady, cpuBefore, task>>

KeyOf(u) == [ns |-> PodOf[u].ns, name |-> PodOf[u].name]
Keys == {KeyOf(u) : u \in PodUIDs}
Named(k) == {u \in alive : KeyOf(u) = k}
Containers == UNION {{u} \X PodOf[u].containers : u \in PodUIDs}

(* The containers that have a cgroup *)
Cgroups == {c \in Containers : c[1] \in running}

PodInit ==
    /\ alive \in {set \in SUBSET PodUIDs :
                     \A u, v \in set : KeyOf(u) = KeyOf(v) => u = v}
    /\ running \in SUBSET alive
    /\ task \in Tasks
    /\ sampled \in [Keys -> PodUIDs \cup {NoUID}]
    /\ \A k \in Keys : sampled[k] # NoUID => task = "metrics" /\ KeyOf(sampled[k]) = k
    /\ born = alive \cup ({sampled[k] : k \in Keys} \ {NoUID})
    /\ cpu = [c \in Containers |-> IF task = "cgroup" /\ c[1] \in running THEN 1 ELSE 0]
    /\ cpuBefore = cpu /\ changes = 0
    /\ steady = [alive |-> alive, running |-> running,
                 sampled |-> {u \in alive : sampled[KeyOf(u)] = u}]

CreatePod(u) ==
    /\ changes < MaxChanges[task] /\ changes' = changes + 1
    /\ u \notin born /\ Named(KeyOf(u)) = {}
    /\ alive' = alive \cup {u} /\ born' = born \cup {u}
    /\ UNCHANGED <<running, sampled, cpu, steady, cpuBefore, task>>

StartPod(u) ==
    /\ u \in alive \ running
    /\ running' = running \cup {u}
    /\ UNCHANGED <<alive, born, sampled, cpu, changes, steady, cpuBefore, task>>

DeletePod(u) ==
    /\ changes < MaxChanges[task] /\ changes' = changes + 1
    /\ u \in alive
    /\ alive' = alive \ {u} /\ running' = running \ {u}
    /\ steady' = [steady EXCEPT !.alive = @ \ {u}, !.running = @ \ {u}]
    /\ UNCHANGED <<born, sampled, cpu, cpuBefore, task>>

(* metrics-server samples the pod that has the name now, or misses it *)
Sample(k) ==
    /\ task = "metrics" /\ changes < MaxChanges[task] /\ changes' = changes + 1
    /\ \E u \in (Named(k) \cap running) \cup {NoUID} :
        u # sampled[k] /\ sampled' = [sampled EXCEPT ![k] = u]
    /\ steady' = [steady EXCEPT !.sampled = @ \ {sampled[k]}]
    /\ UNCHANGED <<alive, born, running, cpu, cpuBefore, task>>

Use(c) ==
    /\ task = "cgroup" /\ changes < MaxChanges[task] /\ changes' = changes + 1
    /\ c \in Cgroups /\ cpu[c] < MaxCPU
    /\ cpu' = [cpu EXCEPT ![c] = @ + 1]
    /\ UNCHANGED <<alive, born, running, sampled, steady, cpuBefore, task>>

PodStep ==
    \/ \E u \in PodUIDs : CreatePod(u) \/ StartPod(u) \/ DeletePod(u)
    \/ \E k \in Keys : Sample(k)
    \/ \E c \in Containers : Use(c)

PodTypeOK ==
    /\ running \subseteq alive /\ alive \subseteq born /\ born \subseteq PodUIDs
    /\ sampled \in [Keys -> PodUIDs \cup {NoUID}]
    /\ cpu \in [Containers -> 0..MaxCPU] /\ changes \in 0..MaxChanges[task]
    /\ steady.alive \subseteq alive /\ steady.running \subseteq running
=============================================================================
