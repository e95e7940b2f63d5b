------------------------------ MODULE PodCollect ------------------------------
(***************************************************************************)
(* CollectMetrics and CollectLogs (src/internal/collector/metric_log.go).  *)
(* The first joins two rounds of lists, of pods and of metrics-server's    *)
(* samples, by namespace and name; the second lists the pods of one        *)
(* namespace after the other and reads the logs of each running container, *)
(* by the pod's name.  In between, the pods change.                        *)
(***************************************************************************)
EXTENDS Pods, SequencesExt

CONSTANTS
    AllNamespaces,  \* in the order of the list
    Skipped         \* the system namespaces

VARIABLES
    phase,      \* metrics: pods, samples; logs: logs; then done or failed
    left,       \* the namespaces still to list in this round
    uidOf,      \* ns and name -> UID
    points,     \* metrics: [uid, of]: labelled with uid, measured on of
    todo,       \* the containers of this namespace still to read
    lines,      \* logs: [uid, container, of]
    unread,     \* history: the containers whose logs could not be read
    late,       \* history: those of them after the deadline had passed
    expired     \* the deadline of the collection has passed

collectVars == <<phase, left, uidOf, points, todo, lines, unread, late, expired>>

Targets == SelectSeq(AllNamespaces, LAMBDA ns : ns \notin Skipped)

(* The API server lists a namespace once *)
ASSUME NamespaceAssumption == Targets \in Seq(ToSet(AllNamespaces)) /\ IsInjective(Targets)

In(ns) == {u \in alive : PodOf[u].ns = ns}

(***************************************************************************)
(* CollectMetrics.                                                         *)
(***************************************************************************)

(* Mutant of ListPods: the name alone is the key *)
ListPodsByName ==
    /\ phase = "pods" /\ left # << >> /\ ~expired
    /\ LET named == [n \in {PodOf[u].name : u \in In(Head(left))} |->
                        CHOOSE u \in In(Head(left)) : PodOf[u].name = n]
       IN uidOf' = [k \in {x \in Keys : x.name \in DOMAIN named} \cup DOMAIN uidOf |->
                       IF k.name \in DOMAIN named THEN named[k.name] ELSE uidOf[k]]
    /\ left' = Tail(left)
    /\ UNCHANGED <<podVars, phase, points, todo, lines, unread, late, expired>>

ListPods ==
    /\ phase = "pods" /\ left # << >> /\ ~expired
    /\ uidOf' = [k \in {KeyOf(u) : u \in In(Head(left))} \cup DOMAIN uidOf |->
                    IF k.ns = Head(left) THEN CHOOSE u \in alive : KeyOf(u) = k
                                         ELSE uidOf[k]]
    /\ left' = Tail(left)
    /\ UNCHANGED <<podVars, phase, points, todo, lines, unread, late, expired>>

AllPodsListed ==
    /\ phase = "pods" /\ left = << >>
    /\ phase' = "samples" /\ left' = Targets
    /\ UNCHANGED <<podVars, uidOf, points, todo, lines, unread, late, expired>>

(* A sample of a pod that was not listed is left out *)
ListSamples ==
    /\ phase = "samples" /\ left # << >> /\ ~expired
    /\ points' = points \cup
           {[uid |-> uidOf[k], of |-> sampled[k]] :
               k \in {x \in DOMAIN uidOf : x.ns = Head(left) /\ sampled[x] # NoUID}}
    /\ left' = Tail(left)
    /\ UNCHANGED <<podVars, phase, uidOf, todo, lines, unread, late, expired>>

(***************************************************************************)
(* CollectLogs.                                                            *)
(***************************************************************************)

(* Only pods in phase Running, with the containers of their specs *)
ListLogPods ==
    /\ phase = "logs" /\ todo = {} /\ left # << >> /\ ~expired
    /\ todo' = {c \in Containers : c[1] \in In(Head(left)) \cap running}
    /\ left' = Tail(left)
    /\ UNCHANGED <<podVars, phase, uidOf, points, lines, unread, late, expired>>

(* GetLogs asks for a name: whichever pod has it now answers *)
ReadLogs ==
    /\ phase = "logs" /\ ~expired
    /\ \E c \in todo : \E v \in Named(KeyOf(c[1])) \cap running :
        /\ c[2] \in PodOf[v].containers
        /\ lines' = lines \cup {[uid |-> c[1], container |-> c[2], of |-> v]}
        /\ todo' = todo \ {c}
    /\ UNCHANGED <<podVars, phase, left, uidOf, points, unread, late, expired>>

(* Mutant of ReadLogsFails: the pod's other containers are left out too *)
ReadLogsFailsPod ==
    /\ phase = "logs"
    /\ \E c \in todo :
        /\ unread' = unread \cup {c} /\ todo' = {d \in todo : d[1] # c[1]}
        /\ late' = IF expired THEN late \cup {c} ELSE late
    /\ UNCHANGED <<podVars, phase, left, uidOf, points, lines, expired>>

(* The pod or its container is gone, a line is longer than the scanner's
   buffer, the connection breaks, or the deadline passes: what was read of
   this container is dropped, and the next one is tried *)
ReadLogsFails ==
    /\ phase = "logs"
    /\ \E c \in todo :
        /\ unread' = unread \cup {c} /\ todo' = todo \ {c}
        /\ late' = IF expired THEN late \cup {c} ELSE late
    /\ UNCHANGED <<podVars, phase, left, uidOf, points, lines, expired>>

Expire ==
    /\ phase \in {"pods", "samples", "logs"} /\ ~expired /\ expired' = TRUE
    /\ UNCHANGED <<podVars, phase, left, uidOf, points, todo, lines, unread, late>>

(* Mutant of ListFails: what was collected so far is returned with the error *)
ListFailsKeeps ==
    /\ phase \in {"pods", "samples", "logs"} /\ left # << >> /\ todo = {}
    /\ phase' = "failed"
    /\ UNCHANGED <<podVars, left, uidOf, points, todo, lines, unread, late, expired>>

(* A list that fails, if only because the deadline has passed, is the end:
   nothing is returned *)
ListFails ==
    /\ phase \in {"pods", "samples", "logs"} /\ left # << >> /\ todo = {}
    /\ phase' = "failed" /\ points' = {} /\ lines' = {}
    /\ UNCHANGED <<podVars, left, uidOf, todo, unread, late, expired>>

Return ==
    /\ phase \in {"samples", "logs"} /\ left = << >> /\ todo = {}
    /\ phase' = "done"
    /\ UNCHANGED <<podVars, left, uidOf, points, todo, lines, unread, late, expired>>

CollectInit ==
    /\ phase = CASE task = "metrics" -> "pods" [] task = "logs" -> "logs"
                  [] OTHER -> "none"
    /\ left = Targets
    /\ uidOf = [k \in {} |-> NoUID] /\ points = {}
    /\ todo = {} /\ lines = {} /\ unread = {} /\ late = {} /\ expired = FALSE

Collect == \/ ListPods \/ AllPodsListed \/ ListSamples
           \/ ListLogPods \/ ReadLogs \/ ReadLogsFails
           \/ Expire \/ ListFails \/ Return

-----------------------------------------------------------------------------
Targeted(u) == PodOf[u].ns \in ToSet(Targets)

CollectTypeOK ==
    /\ phase \in {"pods", "samples", "logs", "done", "failed", "none"}
    /\ IsSuffix(left, Targets)
    /\ uidOf \in [DOMAIN uidOf -> PodUIDs] /\ DOMAIN uidOf \subseteq Keys
    /\ points \subseteq [uid : PodUIDs, of : PodUIDs]
    /\ todo \subseteq Containers /\ unread \subseteq Containers

(* A pod that was there, and sampled, all through a collection gets its own
   usage and nobody else's, whichever pods around it were replaced between the
   list of pods and that of their samples.  A point with the usage of another
   pod is that of one replaced, or not yet sampled, under the same name. *)
SteadyUsageIsOwn ==
    (task = "metrics" /\ phase = "done") =>
        LET sure == steady.alive \cap steady.sampled IN
        /\ \A u \in sure : Targeted(u) => [uid |-> u, of |-> u] \in points
        /\ \A p \in points : p.uid # p.of =>
               p.uid \notin sure /\ KeyOf(p.uid) = KeyOf(p.of)

(* The logs of a container that ran all through a collection are in it unless
   that container could not be read: no other pod's or container's failure
   hides them.  Lines under the UID of another pod are of its successor.  A
   deadline that passes makes the reads fail one by one without an error, but
   only in the last namespace: elsewhere the next list fails, and nothing is
   returned. *)
SteadyLogsAreRead ==
    (task = "logs" /\ phase = "done") =>
        /\ \A c \in Containers \ unread :
               (c[1] \in steady.running /\ Targeted(c[1]))
                   => [uid |-> c[1], container |-> c[2], of |-> c[1]] \in lines
        /\ \A l \in lines : l.uid # l.of =>
               l.uid \notin steady.alive /\ KeyOf(l.uid) = KeyOf(l.of)
        /\ \A c \in late : PodOf[c[1]].ns = Last(Targets)
=============================================================================
