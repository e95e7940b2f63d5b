---------------------------- MODULE ClusterCollect ----------------------------
(***************************************************************************)
(* CollectMeta (src/internal/collector/meta.go): one list call to the API  *)
(* server per kind and namespace, one after the other, while controllers   *)
(* and users go on creating and deleting resources.  A list is a snapshot; *)
(* the report put together from all of them is not.                      *)
(***************************************************************************)
EXTENDS Integers, Sequences, Functions

CONSTANTS
    UIDs,           \* every object that ever exists
    Object,         \* uid -> [ns, kind, name, owner, mentions]
    SkippedNames,   \* names of the system namespaces
    MaxChanges,     \* bound: creations and deletions
    NoUID,          \* no owner
    NoName          \* the empty name, and the namespace of what is in none

(***************************************************************************)
(* mentions are the kinds and names a pod spec or template contains, in    *)
(* envFrom, env, volumes and serviceAccountName, empty names included.     *)
(***************************************************************************)
ASSUME ClusterAssumption ==
    /\ NoUID \notin UIDs /\ MaxChanges \in Nat
    /\ \A u \in UIDs :
          /\ Object[u].kind \in {"Namespace", "Node"} <=> Object[u].ns = NoName
          /\ Object[u].name # NoName
          /\ Object[u].owner \in UIDs \cup {NoUID}

VARIABLES
    alive,      \* what the API server holds
    born,       \* what it ever held: a UID is not used twice
    changes,    \* bound
    phase,      \* idle, listing, done or failed
    left,       \* names of the namespaces not yet started
    here,       \* the namespace being listed
    next,       \* index in ListOrder of its next list call
    out,        \* UIDs of the ResourceMeta collected so far
    steady      \* history: what has been alive since the collection began

cluster == <<alive, born, changes>>
collector == <<phase, left, here, next, out>>
vars == <<cluster, collector, steady>>

KeyOf(u) == [ns |-> Object[u].ns, kind |-> Object[u].kind, name |-> Object[u].name]
Namespaces(set) == {u \in set : Object[u].kind = "Namespace"}
NameOf(u) == Object[u].name

-----------------------------------------------------------------------------
(***************************************************************************)
(* The API server, as CollectMeta sees it.                                 *)
(***************************************************************************)

(* An object is in a namespace that exists *)
Placed(set) ==
    \A u \in set : Object[u].ns # NoName =>
        \E n \in Namespaces(set) : NameOf(n) = Object[u].ns

(* Names are unique, and a controller creates an object only under an owner it
   has seen *)
Create(u) ==
    /\ changes < MaxChanges /\ u \notin born
    /\ \A v \in alive : KeyOf(v) # KeyOf(u)
    /\ Placed(alive \cup {u})
    /\ Object[u].owner \in alive \cup {NoUID}
    /\ alive' = alive \cup {u} /\ born' = born \cup {u}
    /\ changes' = changes + 1
    /\ UNCHANGED <<collector, steady>>

(* A namespace goes last *)
Delete(u) ==
    /\ changes < MaxChanges /\ u \in alive
    /\ Placed(alive \ {u})
    /\ alive' = alive \ {u} /\ steady' = steady \ {u}
    /\ changes' = changes + 1
    /\ UNCHANGED <<born, collector>>

List(ns, kind) == {u \in alive : Object[u].ns = ns /\ Object[u].kind = kind}

-----------------------------------------------------------------------------
(***************************************************************************)
(* CollectMeta.                                                            *)
(***************************************************************************)

(* Mutant of ListOrder: as it was before ReplicaSets were collected *)
WithoutReplicaSets ==
    <<"ConfigMap", "Secret", "ServiceAccount", "Deployment", "DaemonSet",
      "StatefulSet", "CronJob", "Job", "Pod">>

ListOrder ==
    <<"ConfigMap", "Secret", "ServiceAccount", "Deployment", "DaemonSet",
      "StatefulSet", "ReplicaSet", "CronJob", "Job", "Pod">>

TargetNamespaces(set) == {NameOf(u) : u \in Namespaces(set)} \ SkippedNames

ListNamespaces ==
    /\ phase = "idle" /\ phase' = "listing"
    /\ out' = Namespaces(alive)
    /\ left' = TargetNamespaces(alive)
    /\ steady' = alive
    /\ UNCHANGED <<cluster, here, next>>

Started == phase = "listing" /\ here # NoName

NextNamespace ==
    /\ phase = "listing" /\ here = NoName
    /\ \E ns \in left : here' = ns /\ left' = left \ {ns}
    /\ next' = 1
    /\ UNCHANGED <<cluster, phase, out, steady>>

(* Mutant of ListKind: one list too many *)
ListPastTheEnd ==
    /\ Started
    /\ out' = out \cup List(here, ListOrder[next])
    /\ IF next <= Len(ListOrder) THEN next' = next + 1 /\ here' = here
                                 ELSE next' = 1 /\ here' = NoName
    /\ UNCHANGED <<cluster, phase, left, steady>>

ListKind ==
    /\ Started
    /\ out' = out \cup List(here, ListOrder[next])
    /\ IF next < Len(ListOrder) THEN next' = next + 1 /\ here' = here
                                ELSE next' = 1 /\ here' = NoName
    /\ UNCHANGED <<cluster, phase, left, steady>>

(* Mutant of ListFails: the failed list is left out and collection goes on *)
ListSkipped ==
    /\ Started
    /\ IF next < Len(ListOrder) THEN next' = next + 1 /\ here' = here
                                ELSE next' = 1 /\ here' = NoName
    /\ UNCHANGED <<cluster, phase, left, out, steady>>

(* Any list may fail, or run into the deadline of the collection: the whole
   collection is dropped *)
ListFails ==
    /\ phase = "idle" \/ Started
    /\ phase' = "failed" /\ out' = {}
    /\ left' = {} /\ here' = NoName /\ next' = 1
    /\ UNCHANGED <<cluster, steady>>

Return ==
    /\ phase = "listing" /\ here = NoName /\ left = {}
    /\ phase' = "done"
    /\ UNCHANGED <<cluster, left, here, next, out, steady>>

(* podSpecRefs: each thing named once, the default ServiceAccount left out *)
PodSpecRefs(u) ==
    {[ns |-> Object[u].ns, kind |-> m.kind, name |-> m.name] :
        m \in {x \in Object[u].mentions :
                  /\ x.name # NoName
                  /\ x # [kind |-> "ServiceAccount", name |-> "default"]}}

(* In the namespace of what is owned, a Node as the owner of a static pod's
   mirror included *)
OwnerRef(u) == LET owner == Object[Object[u].owner] IN
               [ns |-> Object[u].ns, kind |-> owner.kind, name |-> owner.name]

NsParent(u) == [ns |-> NoName, kind |-> "Namespace", name |-> Object[u].ns]

Templated == {"Deployment", "DaemonSet", "StatefulSet", "CronJob", "Job", "Pod"}
Owned == {"ReplicaSet", "Job", "Pod"}

(* The keys of the relations CollectMeta gives a resource *)
RelationsOf(u) ==
    IF Object[u].kind = "Namespace" THEN {}
    ELSE {NsParent(u)}
         \cup (IF Object[u].kind \in Templated THEN PodSpecRefs(u) ELSE {})
         \cup (IF Object[u].kind \in Owned /\ Object[u].owner # NoUID
               THEN {OwnerRef(u)} ELSE {})

-----------------------------------------------------------------------------
Init ==
    /\ alive \in {set \in SUBSET UIDs :
                     /\ Placed(set) /\ \A u, v \in set : KeyOf(u) = KeyOf(v) => u = v
                     /\ \A u \in set : Object[u].owner \in set \cup {NoUID}}
    /\ born = alive /\ changes = 0
    /\ phase = "idle" /\ left = {} /\ here = NoName /\ next = 1 /\ out = {}
    /\ steady = {}

Collect == ListNamespaces \/ NextNamespace \/ ListKind \/ ListFails \/ Return

Next == \/ Collect
        \/ phase = "listing" /\ \E u \in UIDs : Create(u) \/ Delete(u)

(* That it ends, by its deadline if need be, is a matter of Agent *)
Spec == Init /\ [][Next]_vars

-----------------------------------------------------------------------------
(***************************************************************************)
(* Properties.                                                             *)
(***************************************************************************)

(* Every variable holds a value its Go counterpart can hold. *)
TypeOK ==
    /\ alive \subseteq born /\ born \subseteq UIDs /\ changes \in 0..MaxChanges
    /\ phase \in {"idle", "listing", "done", "failed"}
    /\ left \subseteq {NameOf(u) : u \in Namespaces(UIDs)}
    /\ here \in {NameOf(u) : u \in Namespaces(UIDs)} \cup {NoName}
    /\ next \in 1..Len(ListOrder)
    /\ out \subseteq UIDs /\ steady \subseteq alive

Collected(u) ==
    \/ Object[u].kind = "Namespace"
    \/ Object[u].kind \in Range(ListOrder) /\ Object[u].ns \notin SkippedNames

(* A finished report has every resource that was there all along, whatever
   was created or deleted between the lists, in whatever order the namespaces
   came; a collection that lost a list reports nothing. *)
SteadyIsReported ==
    /\ phase = "done" => \A u \in steady : Collected(u) => u \in out
    /\ phase = "failed" => out = {}

(* The kinds that own or are named by the resources CollectMeta reports *)
TargetKinds == {"Namespace", "ConfigMap", "Secret", "ServiceAccount", "Deployment",
                "DaemonSet", "StatefulSet", "ReplicaSet", "CronJob", "Job"}

(* In a finished report a relation to a kind that owns or is named by pods
   is left without its target only if the target came or went during the
   collection: the chain from Deployment to Pod, and from a Pod to what it
   names, has no link that is systematically missing. *)
ChainIsClosed ==
    phase = "done" =>
        \A u \in out : \A k \in RelationsOf(u) :
            (k.kind \in TargetKinds /\ \E v \in steady : KeyOf(v) = k)
                => \E v \in out : KeyOf(v) = k
=============================================================================
