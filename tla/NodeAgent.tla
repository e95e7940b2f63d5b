------------------------------ MODULE NodeAgent ------------------------------
(***************************************************************************)
(* collectOnce of the node agent (src/cmd/node-agent/main.go), with the    *)
(* walk over the cgroup tree of its node (src/internal/collector/cgroup.go)*)
(* and the list of the node's pods that gives names to what it found.      *)
(* Directories and files vanish during the walk as containers end, and a   *)
(* container's counters are read one after the other.                      *)
(***************************************************************************)
EXTENDS Pods

CONSTANTS
    Node,           \* where this agent runs
    Runtimes        \* the prefixes of scopes that containerIDFromScope knows

VARIABLES
    walk,       \* none, stat, class, slice, scope, list; then sent, silent or failed
    classes,    \* QoS directories still to read
    slices,     \* entries of the current one still to visit
    pod,        \* podUID of the current slice
    scopes,     \* its entries still to read
    current,    \* the ContainerUsage being filled in, or none
    usages,     \* [container, cpu, memory]; a container is <<pod UID, id>>
    metrics,    \* what ToMetrics made of them
    blind       \* history: <<container, what>>: what could not be read of it

nodeVars == <<walk, classes, slices, pod, scopes, current, usages, metrics, blind>>

NoUsage == [container |-> << >>, memory |-> 0]
OnNode == {u \in PodUIDs : PodOf[u].node = Node}

-----------------------------------------------------------------------------
(***************************************************************************)
(* Names.  A directory's name is taken apart: its suffix, what stands      *)
(* before the id, and the id with its form, which is "uid" for 8-4-4-4-12  *)
(* hexadecimal digits (with _ for -), "hash" for the 32 digits kubelet     *)
(* gives a static pod, and "word" for anything else.                       *)
(***************************************************************************)

(* kubelet-kubepods.slice holds the slices of guaranteed pods, whose class has
   no directory of its own, and the directories of the other two *)
QoSClasses == <<"guaranteed", "besteffort", "burstable">>

(* kubelet-kubepods.slice, kubelet-kubepods-burstable.slice: no -pod in it *)
ClassSlice(q) == [suffix |-> ".slice", prefix |-> "-", form |-> "word", id |-> q]

SliceOf(u) == [suffix |-> ".slice", prefix |-> "-pod",
               form |-> IF PodOf[u].static THEN "hash" ELSE "uid", id |-> u]

ScopeOf(c) == [suffix |-> ".scope", prefix |-> PodOf[c[1]].runtime,
               form |-> "word", id |-> c[2]]

LooksLikeUID(name) == name.form = "uid"

PodUIDFromSlice(name) ==
    IF name.suffix = ".slice" /\ name.prefix = "-pod" /\ LooksLikeUID(name)
    THEN name.id ELSE NoUID

NoID == ""

ASSUME NodeAssumption ==
    \A u \in PodUIDs : /\ PodOf[u].qos \in {"besteffort", "burstable", "guaranteed"}
                      /\ NoID \notin PodOf[u].containers

ContainerIDFromScope(name) ==
    IF name.suffix = ".scope" /\ name.prefix \in Runtimes THEN name.id ELSE NoID

-----------------------------------------------------------------------------
(***************************************************************************)
(* CollectCgroup.                                                          *)
(***************************************************************************)

Stat ==
    /\ walk = "stat" /\ walk' = "class"
    /\ UNCHANGED <<podVars, classes, slices, pod, scopes, current, usages,
                   metrics, blind>>

(* No memory controller there: not cgroup v1 *)
StatFails ==
    /\ walk = "stat" /\ walk' = "failed"
    /\ UNCHANGED <<podVars, classes, slices, pod, scopes, current, usages,
                   metrics, blind>>

(* WalkDir reads a directory when it gets to it, and then visits what is in it
   in the order of the names: -pod comes after -besteffort and -burstable *)
Direct(d) == d.prefix = "-pod" /\ PodOf[d.id].qos = "guaranteed"

Due(d) == Direct(d) => classes = << >> /\ \A e \in slices : Direct(e)

ReadClass ==
    /\ walk = "class" /\ classes # << >> /\ \A d \in slices : Direct(d)
    /\ classes' = Tail(classes)
    /\ slices' = slices \cup {ClassSlice(Head(classes))} \cup
           {SliceOf(u) : u \in {v \in running \cap OnNode : PodOf[v].qos = Head(classes)}}
    /\ UNCHANGED <<podVars, walk, pod, scopes, current, usages, metrics, blind>>

(* Its error ends nothing, but takes everything below it with it *)
ReadClassFails ==
    /\ walk = "class" /\ classes # << >> /\ \A d \in slices : Direct(d)
    /\ classes' = IF Head(classes) = "guaranteed" THEN << >> ELSE Tail(classes)
    /\ blind' = blind \cup {<<c, "slice">> : c \in
           {x \in Containers : Head(classes) \in {"guaranteed", PodOf[x[1]].qos}}}
    /\ UNCHANGED <<podVars, walk, slices, pod, scopes, current, usages, metrics>>

(* Nothing to look for here, or the pod has gone since *)
PassSlice ==
    /\ walk = "class"
    /\ \E d \in slices :
        /\ Due(d)
        /\ PodUIDFromSlice(d) \notin running
        /\ slices' = slices \ {d}
    /\ UNCHANGED <<podVars, walk, classes, pod, scopes, current, usages, metrics,
                   blind>>

ReadSlice ==
    /\ walk = "class" /\ walk' = "slice"
    /\ \E d \in slices :
        /\ Due(d)
        /\ PodUIDFromSlice(d) \in running
        /\ slices' = slices \ {d} /\ pod' = PodUIDFromSlice(d)
        /\ scopes' = {ScopeOf(c) : c \in {x \in Cgroups : x[1] = PodUIDFromSlice(d)}}
    /\ UNCHANGED <<podVars, classes, current, usages, metrics, blind>>

(* A directory that cannot be read is passed over *)
ReadSliceFails ==
    /\ walk = "class"
    /\ \E d \in slices :
        /\ Due(d)
        /\ PodUIDFromSlice(d) # NoUID
        /\ slices' = slices \ {d}
        /\ blind' = blind \cup
               {<<c, "slice">> : c \in {x \in Containers : x[1] = PodUIDFromSlice(d)}}
    /\ UNCHANGED <<podVars, walk, classes, pod, scopes, current, usages, metrics>>

(* A scope of a runtime that is not known *)
PassScope ==
    /\ walk = "slice" /\ current = NoUsage
    /\ \E d \in scopes : ContainerIDFromScope(d) = NoID /\ scopes' = scopes \ {d}
    /\ UNCHANGED <<podVars, walk, classes, slices, pod, current, usages, metrics, blind>>

(* readUint: 0 stands for a file that cannot be read, and for one that is gone *)
Reads(c, file, value, actual) ==
    \/ value = actual /\ (value > 0 => c \in Cgroups) /\ UNCHANGED blind
    \/ value = 0 /\ actual > 0
       /\ blind' = IF c \in Cgroups THEN blind \cup {<<c, file>>} ELSE blind

(* memory.usage_in_bytes; a container that has done nothing uses none *)
ReadMemory ==
    /\ walk = "slice" /\ current = NoUsage
    /\ \E d \in scopes : LET c == <<pod, ContainerIDFromScope(d)>> IN
        /\ c[2] # NoID
        /\ \E m \in {0, 1} :
            /\ Reads(c, "memory", m, IF cpu[c] = 0 THEN 0 ELSE 1)
            /\ current' = [container |-> c, memory |-> m]
        /\ scopes' = scopes \ {d}
    /\ UNCHANGED <<podVars, walk, classes, slices, pod, usages, metrics>>

(* Mutant of ReadCPU: kept only if both could be read *)
ReadCPUBoth ==
    /\ walk = "slice" /\ current # NoUsage
    /\ LET c == current.container IN
       \E v \in {0, cpu[c]} :
        /\ Reads(c, "cpu", v, cpu[c])
        /\ usages' = IF v = 0 \/ current.memory = 0 THEN usages
                     ELSE usages \cup {[container |-> c, cpu |-> v, memory |-> current.memory]}
    /\ current' = NoUsage
    /\ UNCHANGED <<podVars, walk, classes, slices, pod, scopes, metrics>>

(* cpuacct.usage; a usage of which both are 0 is left out *)
ReadCPU ==
    /\ walk = "slice" /\ current # NoUsage
    /\ LET c == current.container IN
       \E v \in {0, cpu[c]} :
        /\ Reads(c, "cpu", v, cpu[c])
        /\ usages' = IF v = 0 /\ current.memory = 0 THEN usages
                     ELSE usages \cup {[container |-> c, cpu |-> v, memory |-> current.memory]}
    /\ current' = NoUsage
    /\ UNCHANGED <<podVars, walk, classes, slices, pod, scopes, metrics>>

EndSlice ==
    /\ walk = "slice" /\ scopes = {} /\ current = NoUsage /\ walk' = "class"
    /\ UNCHANGED <<podVars, classes, slices, pod, scopes, current, usages,
                   metrics, blind>>

EndWalk ==
    /\ walk = "class" /\ classes = << >> /\ slices = {} /\ walk' = "list"
    /\ UNCHANGED <<podVars, classes, slices, pod, scopes, current, usages,
                   metrics, blind>>

-----------------------------------------------------------------------------
(***************************************************************************)
(* The rest of collectOnce.                                                *)
(***************************************************************************)

(* A cgroup whose pod is not in the list belongs to a container that is gone *)
ToMetrics(list, index) == {x \in list : x.container[1] \in index}

(* The pods of the node, joined by UID: nothing is sent if none matches *)
ListNodePods ==
    /\ walk = "list"
    /\ metrics' = ToMetrics(usages, alive \cap OnNode)
    /\ walk' = IF metrics' = {} THEN "silent" ELSE "sent"
    /\ UNCHANGED <<podVars, classes, slices, pod, scopes, current, usages, blind>>

(* An error, or 20 s: what was measured is dropped *)
ListNodePodsFails ==
    /\ walk = "list" /\ walk' = "failed"
    /\ UNCHANGED <<podVars, classes, slices, pod, scopes, current, usages,
                   metrics, blind>>

NodeInit ==
    /\ walk = (IF task = "cgroup" THEN "stat" ELSE "none")
    /\ classes = QoSClasses /\ slices = {} /\ pod = NoUID /\ scopes = {}
    /\ current = NoUsage /\ usages = {} /\ metrics = {} /\ blind = {}

CollectOnce == \/ Stat \/ StatFails \/ ReadClass \/ ReadClassFails
               \/ PassSlice \/ ReadSlice \/ ReadSliceFails
               \/ PassScope \/ ReadMemory \/ ReadCPU \/ EndSlice \/ EndWalk
               \/ ListNodePods \/ ListNodePodsFails

-----------------------------------------------------------------------------
NodeTypeOK ==
    /\ walk \in {"none", "stat", "class", "slice", "list", "sent", "silent", "failed"}
    /\ Len(classes) <= Len(QoSClasses) /\ pod \in PodUIDs \cup {NoUID}
    /\ usages \subseteq [container : Containers, cpu : 0..MaxCPU, memory : {0, 1}]
    /\ metrics \subseteq usages /\ blind \subseteq Containers \X {"slice", "memory", "cpu"}

Measurable(c) == /\ c[1] \in OnNode /\ ~PodOf[c[1]].static
                 /\ PodOf[c[1]].runtime \in Runtimes

(* A container that ran all through a cycle is in what is sent unless its slice,
   or both of its files, could not be read: directories that vanish, and
   containers of other pods, cost it nothing.  A CPU counter that is sent is one
   it had in between; a counter that had started is sent as 0, as if it had been
   reset, only if it could not be read or its container has ended. *)
MeasuredIsReal ==
    walk \in {"sent", "silent"} =>
        /\ \A c \in Containers :
               (c[1] \in steady.running /\ Measurable(c) /\ cpuBefore[c] > 0)
                   => \/ \E m \in metrics : m.container = c
                      \/ <<c, "slice">> \in blind
                      \/ {<<c, "memory">>, <<c, "cpu">>} \subseteq blind
        /\ \A m \in metrics :
               LET c == m.container IN
               IF m.cpu > 0 THEN m.cpu \in cpuBefore[c]..cpu[c]
               ELSE cpuBefore[c] > 0 =>
                        <<c, "cpu">> \in blind \/ c[1] \notin steady.running
=============================================================================
