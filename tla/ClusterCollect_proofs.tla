------------------------- MODULE ClusterCollect_proofs -------------------------
(***************************************************************************)
(* Theorems about CollectMeta for every set of objects and every number of *)
(* creations and deletions.                                                *)
(***************************************************************************)
EXTENDS ClusterCollect, TLAPS

N == Len(ListOrder)

(* The list call that will bring u is still to come *)
Pending(u) ==
    \/ Object[u].ns \in left
    \/ /\ here # NoName /\ Object[u].ns = here
       /\ \E i \in next..N : ListOrder[i] = Object[u].kind

(* Between two lists, what has been there all along is in the report or
   still to be listed: this is what the loops over namespaces and kinds keep
   true, and with nothing left to list it is SteadyIsReported. *)
Covered ==
    phase = "listing" => \A u \in steady : Collected(u) => u \in out \/ Pending(u)

Cursor ==
    /\ alive \subseteq UIDs /\ steady \subseteq alive /\ out \subseteq UIDs
    /\ next \in 1..N
    /\ Placed(alive)
    /\ NoName \notin left

Inv == Cursor /\ Covered /\ SteadyIsReported

LEMMA ListLength == N = 10 /\ DOMAIN ListOrder = 1..N
<1>1. N = 10
  BY DEF N, ListOrder
<1>2. DOMAIN ListOrder = 1..10
  BY DEF ListOrder
<1> QED
  BY <1>1, <1>2

(* What is listed in a namespace is in one *)
LEMMA ListedKinds == "Namespace" \notin Range(ListOrder) /\ "Node" \notin Range(ListOrder)
BY DEF ListOrder, Range

LEMMA InvInit == Init => Inv
BY ListLength DEF Init, Inv, Cursor, Covered, SteadyIsReported

LEMMA NamespacesStep ==
    ASSUME Inv, ListNamespaces
    PROVE  Inv'
<1>1. Cursor'
  BY ClusterAssumption DEF Inv, Cursor, ListNamespaces, cluster, Placed, Namespaces,
     TargetNamespaces, NameOf
<1>2. ASSUME NEW u \in alive, Collected(u)
      PROVE  u \in Namespaces(alive) \/ Object[u].ns \in TargetNamespaces(alive)
  <2>1. CASE Object[u].kind = "Namespace"
    BY <2>1 DEF Namespaces
  <2>2. CASE Object[u].kind # "Namespace"
    <3>0. Object[u].ns # NoName
      BY <1>2, <2>2, ClusterAssumption, ListedKinds DEF Inv, Cursor, Collected
    <3>1. PICK n \in Namespaces(alive) : NameOf(n) = Object[u].ns
      BY <3>0 DEF Inv, Cursor, Placed
    <3> QED
      BY <1>2, <2>2, <3>1 DEF Collected, TargetNamespaces
  <2> QED
    BY <2>1, <2>2
<1>3. Covered'
  <2>1. steady' = alive /\ out' = Namespaces(alive)
        /\ left' = TargetNamespaces(alive)
    BY DEF ListNamespaces
  <2> QED
    BY <1>2, <2>1 DEF Covered, Pending, Collected
<1>4. SteadyIsReported'
  BY DEF ListNamespaces, SteadyIsReported
<1> QED
  BY <1>1, <1>3, <1>4 DEF Inv

LEMMA ListStep ==
    ASSUME Inv, ListKind
    PROVE  Inv'
<1>0. /\ phase = "listing" /\ phase' = phase /\ here # NoName
      /\ left' = left /\ steady' = steady
      /\ out' = out \cup List(here, ListOrder[next])
      /\ UNCHANGED <<alive, born, changes>>
  BY DEF ListKind, Started, cluster
<1>1. next \in 1..N /\ N = 10
  BY ListLength DEF Inv, Cursor
<1>2. \/ next < N /\ next' = next + 1 /\ here' = here
      \/ next = N /\ next' = 1 /\ here' = NoName
  BY <1>1 DEF ListKind, N
<1>3. Cursor'
  <2>1. next' \in 1..N
    BY <1>1, <1>2
  <2>2. out' \subseteq UIDs /\ Placed(alive)'
    BY <1>0 DEF Inv, Cursor, List, Placed, Namespaces
  <2> QED
    BY <1>0, <2>1, <2>2 DEF Inv, Cursor
<1>4. ASSUME NEW u \in steady, Collected(u)
      PROVE  u \in out' \/ Pending(u)'
  <2>1. u \in out \/ Pending(u)
    BY <1>0, <1>4 DEF Inv, Covered
  <2>2. CASE u \in out \/ Object[u].ns \in left
    BY <1>0, <2>2 DEF Pending
  <2>3. ASSUME Object[u].ns = here, NEW i \in next..N, ListOrder[i] = Object[u].kind
        PROVE  u \in out' \/ Pending(u)'
    <3>1. CASE i = next
      <4>1. u \in List(here, ListOrder[next])
        BY <2>3, <3>1 DEF List, Inv, Cursor
      <4> QED
        BY <1>0, <4>1
    <3>2. CASE i # next
      <4>1. next < N /\ i \in next + 1..N
        BY <1>1, <3>2
      <4>2. next' = next + 1 /\ here' = here
        BY <1>2, <4>1, <1>1
      <4> QED
        BY <1>0, <2>3, <4>1, <4>2 DEF Pending
    <3> QED
      BY <3>1, <3>2
  <2> QED
    BY <2>1, <2>2, <2>3 DEF Pending
<1>5. Covered'
  BY <1>0, <1>4 DEF Covered, Collected
<1>6. SteadyIsReported'
  BY <1>0 DEF SteadyIsReported
<1> QED
  BY <1>3, <1>5, <1>6 DEF Inv

LEMMA NextNamespaceStep ==
    ASSUME Inv, NextNamespace
    PROVE  Inv'
<1>0. /\ phase = "listing" /\ phase' = phase /\ here = NoName /\ next' = 1
      /\ UNCHANGED <<alive, out, steady>>
  BY DEF NextNamespace, cluster
<1>1. PICK ns \in left : here' = ns /\ left' = left \ {ns}
  BY DEF NextNamespace
<1>2. Cursor'
  <2>1. 1 \in 1..N
    BY ListLength
  <2> QED
    BY <1>0, <1>1, <2>1 DEF Inv, Cursor, Placed, Namespaces
<1>3. ASSUME NEW u \in steady, Collected(u)
      PROVE  u \in out' \/ Pending(u)'
  <2>1. u \in out \/ Object[u].ns \in left
    BY <1>0, <1>3 DEF Inv, Covered, Pending
  <2>2. CASE u \notin out /\ Object[u].ns = ns
    <3>1. u \in UIDs /\ Object[u].ns # NoName
      BY <1>1, <1>3, <2>2 DEF Inv, Cursor
    <3>2. Object[u].kind # "Namespace"
      BY <3>1, ClusterAssumption
    <3>3. PICK i \in 1..N : ListOrder[i] = Object[u].kind
      BY <1>3, <3>2, ListLength DEF Collected, Range
    <3>4. here' # NoName
      BY <1>1 DEF Inv, Cursor
    <3> QED
      BY <1>0, <1>1, <2>2, <3>3, <3>4 DEF Pending
  <2> QED
    BY <1>0, <1>1, <2>1, <2>2 DEF Pending
<1>4. Covered'
  BY <1>0, <1>3 DEF Covered, Collected
<1>5. SteadyIsReported'
  BY <1>0 DEF SteadyIsReported
<1> QED
  BY <1>2, <1>4, <1>5 DEF Inv

LEMMA EndStep ==
    ASSUME Inv, ListFails \/ Return
    PROVE  Inv'
<1>1. CASE ListFails
  <2>1. Cursor'
    BY <1>1, ListLength DEF ListFails, cluster, Inv, Cursor, Placed, Namespaces
  <2> QED
    BY <1>1, <2>1 DEF ListFails, Inv, Covered, SteadyIsReported
<1>2. CASE Return
  <2>1. Cursor'
    BY <1>2 DEF Return, cluster, Inv, Cursor, Placed, Namespaces
  <2>2. \A u \in steady : Collected(u) => u \in out
    BY <1>2 DEF Return, Inv, Covered, Pending
  <2>3. Covered' /\ SteadyIsReported'
    BY <1>2, <2>2 DEF Return, Covered, SteadyIsReported, Collected
  <2> QED
    BY <2>1, <2>3 DEF Inv
<1> QED
  BY <1>1, <1>2

LEMMA ClusterStep ==
    ASSUME Inv, phase = "listing", NEW u \in UIDs, Create(u) \/ Delete(u)
    PROVE  Inv'
<1>1. UNCHANGED <<phase, left, here, next, out>> /\ steady' \subseteq steady
  BY DEF Create, Delete, collector
<1>2. Placed(alive') /\ alive' \subseteq UIDs /\ steady' \subseteq alive'
  BY DEF Create, Delete, Inv, Cursor
<1>3. Cursor'
  BY <1>1, <1>2 DEF Inv, Cursor, Placed, Namespaces
<1>4. Covered' /\ SteadyIsReported'
  BY <1>1 DEF Inv, Covered, Pending, SteadyIsReported, Collected
<1> QED
  BY <1>3, <1>4 DEF Inv

LEMMA InvStep == Inv /\ [Next]_vars => Inv'
<1> SUFFICES ASSUME Inv, [Next]_vars PROVE Inv'
  OBVIOUS
<1>1. CASE UNCHANGED vars
  BY <1>1 DEF vars, cluster, collector, Inv, Cursor, Covered, Pending,
     SteadyIsReported, Placed, Namespaces, Collected
<1> QED
  BY <1>1, NamespacesStep, ListStep, NextNamespaceStep, EndStep, ClusterStep
     DEF Next, Collect

(* However the cluster changes between the lists of one collection, a
   finished report has every resource of a collected kind and namespace that
   was there from beginning to end, and a failed one hands nothing over. *)
THEOREM ReportIsComplete == Spec => []SteadyIsReported
<1>1. Inv => SteadyIsReported
  BY DEF Inv
<1> QED
  BY <1>1, InvInit, InvStep, PTL DEF Spec

-----------------------------------------------------------------------------
(***************************************************************************)
(* The chain of relations.                                                 *)
(***************************************************************************)

(* Only namespaces that are collected are visited *)
OnTarget ==
    /\ left \cap SkippedNames = {}
    /\ here \notin SkippedNames \/ here = NoName
    /\ \A u \in out : Collected(u)

LEMMA OnTargetStep ==
    ASSUME Inv, OnTarget, [Next]_vars
    PROVE  OnTarget'
<1>1. CASE ListNamespaces
  <2>1. /\ out' = Namespaces(alive) /\ left' = TargetNamespaces(alive)
        /\ here' = here
    BY <1>1 DEF ListNamespaces
  <2> QED
    BY <2>1 DEF OnTarget, TargetNamespaces, Namespaces, Collected
<1>2. CASE ListKind
  <2>1. /\ out' = out \cup List(here, ListOrder[next]) /\ left' = left
        /\ here' = here \/ here' = NoName
        /\ here # NoName
    BY <1>2 DEF ListKind, Started
  <2>2. ListOrder[next] \in Range(ListOrder)
    BY ListLength DEF Inv, Cursor, Range
  <2>3. \A u \in List(here, ListOrder[next]) : Collected(u)
    BY <2>1, <2>2 DEF List, OnTarget, Collected
  <2> QED
    BY <2>1, <2>3 DEF OnTarget, Collected
<1>3. CASE NextNamespace
  BY <1>3 DEF NextNamespace, OnTarget, Collected
<1>4. CASE ListFails \/ Return
  BY <1>4 DEF ListFails, Return, OnTarget, Collected
<1>5. ASSUME NEW u \in UIDs, Create(u) \/ Delete(u)
      PROVE  OnTarget'
  BY <1>5 DEF Create, Delete, collector, OnTarget, Collected
<1>6. CASE UNCHANGED vars
  BY <1>6 DEF vars, collector, OnTarget, Collected
<1> QED
  BY <1>1, <1>2, <1>3, <1>4, <1>5, <1>6 DEF Next, Collect

LEMMA TargetKindsCollected == TargetKinds \subseteq {"Namespace"} \cup Range(ListOrder)
<1>1. \A i \in 1..10 : ListOrder[i] \in Range(ListOrder)
  BY ListLength DEF Range
<1>2. /\ ListOrder[1] = "ConfigMap" /\ ListOrder[2] = "Secret"
      /\ ListOrder[3] = "ServiceAccount" /\ ListOrder[4] = "Deployment"
      /\ ListOrder[5] = "DaemonSet" /\ ListOrder[6] = "StatefulSet"
      /\ ListOrder[7] = "ReplicaSet" /\ ListOrder[8] = "CronJob"
      /\ ListOrder[9] = "Job"
  BY DEF ListOrder
<1> QED
  BY <1>1, <1>2 DEF TargetKinds

(* A relation stays in the namespace of its resource, or names that namespace *)
LEMMA RelationsAreLocal ==
    ASSUME NEW u \in UIDs, NEW k \in RelationsOf(u)
    PROVE  Object[u].kind # "Namespace" /\ k.ns \in {Object[u].ns, NoName}
<1>1. Object[u].kind # "Namespace"
  BY DEF RelationsOf
<1>2. CASE k \in PodSpecRefs(u)
  BY <1>1, <1>2 DEF PodSpecRefs
<1>3. CASE k = NsParent(u)
  BY <1>1, <1>3 DEF NsParent
<1>4. CASE k = OwnerRef(u)
  BY <1>1, <1>4 DEF OwnerRef
<1> QED
  BY <1>1, <1>2, <1>3, <1>4 DEF RelationsOf

LEMMA ChainFollows == Inv /\ OnTarget => ChainIsClosed
<1> SUFFICES ASSUME Inv, OnTarget, phase = "done",
                    NEW u \in out, NEW k \in RelationsOf(u), k.kind \in TargetKinds,
                    NEW v \in steady, KeyOf(v) = k
             PROVE  v \in out
  BY DEF ChainIsClosed
<1>1. u \in UIDs /\ v \in UIDs
  BY DEF Inv, Cursor
<1>2. Object[v].kind = k.kind /\ Object[v].ns = k.ns
  BY DEF KeyOf
<1>3. Collected(v)
  <2>1. CASE k.kind = "Namespace"
    BY <1>2, <2>1 DEF Collected
  <2>2. CASE k.kind # "Namespace"
    <3>0. Object[v].ns # NoName
      BY <1>1, <1>2, <2>2, ClusterAssumption DEF TargetKinds
    <3>1. Object[v].ns = Object[u].ns
      BY <1>1, <1>2, <3>0, RelationsAreLocal
    <3>2. Object[u].ns \notin SkippedNames
      BY <1>1, RelationsAreLocal DEF OnTarget, Collected
    <3>3. Object[v].kind \in Range(ListOrder)
      BY <1>2, <2>2, TargetKindsCollected
    <3> QED
      BY <3>1, <3>2, <3>3 DEF Collected
  <2> QED
    BY <2>1, <2>2
<1> QED
  BY <1>3 DEF Inv, SteadyIsReported

(* No link between resources that were there all along is missing from a
   finished report, for any owner and reference structure. *)
THEOREM ChainsAreClosed == Spec => []ChainIsClosed
<1>1. Init => OnTarget
  BY DEF Init, OnTarget
<1> QED
  BY <1>1, InvInit, InvStep, OnTargetStep, ChainFollows, PTL DEF Spec

-----------------------------------------------------------------------------
(***************************************************************************)
(* Types.                                                                  *)
(***************************************************************************)
LEMMA TypesStep == Inv /\ TypeOK /\ [Next]_vars => TypeOK'
<1> SUFFICES ASSUME Inv, TypeOK, [Next]_vars PROVE TypeOK'
  OBVIOUS
<1>0. \A set \in SUBSET UIDs :
         TargetNamespaces(set) \subseteq {NameOf(u) : u \in Namespaces(UIDs)}
  BY DEF TargetNamespaces, Namespaces
<1>1. CASE ListNamespaces
  <2>1. Namespaces(alive) \subseteq UIDs /\ alive \subseteq UIDs
    BY DEF Namespaces, TypeOK
  <2> QED BY <1>0, <1>1, <2>1 DEF ListNamespaces, cluster, TypeOK
<1>2. CASE NextNamespace
  <2>1. 1 \in 1..Len(ListOrder)
    BY ListLength DEF N
  <2> QED BY <1>2, <2>1 DEF NextNamespace, cluster, TypeOK
<1>3. CASE ListKind
  <2>1. next' \in 1..Len(ListOrder) /\ here' \in {here, NoName}
    BY <1>3, ListLength DEF ListKind, TypeOK, N
  <2>2. List(here, ListOrder[next]) \subseteq UIDs
    BY DEF List, TypeOK
  <2> QED BY <1>3, <2>1, <2>2 DEF ListKind, Started, cluster, TypeOK
<1>4. CASE ListFails \/ Return
  <2>1. 1 \in 1..Len(ListOrder)
    BY ListLength DEF N
  <2> QED BY <1>4, <2>1 DEF ListFails, Return, cluster, TypeOK
<1>5. ASSUME NEW u \in UIDs, Create(u) \/ Delete(u) PROVE TypeOK'
  <2>1. changes' \in 0..MaxChanges
    BY <1>5, ClusterAssumption DEF Create, Delete, TypeOK
  <2> QED BY <1>5, <2>1 DEF Create, Delete, collector, TypeOK
<1>6. CASE UNCHANGED vars
  BY <1>6 DEF vars, cluster, collector, TypeOK
<1> QED BY <1>1, <1>2, <1>3, <1>4, <1>5, <1>6 DEF Next, Collect

(* Every variable holds a value its Go counterpart can hold: the cursor over
   the kinds never leaves the list, and what is collected exists. *)
THEOREM TypeCorrect == Spec => []TypeOK
<1>1. Init => TypeOK
  <2>1. 1 \in 1..Len(ListOrder)
    BY ListLength DEF N
  <2> QED BY <2>1, ClusterAssumption DEF Init, TypeOK
<1> QED BY <1>1, InvInit, InvStep, TypesStep, PTL DEF Spec
=============================================================================
