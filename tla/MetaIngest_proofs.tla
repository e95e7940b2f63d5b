-------------------------- MODULE MetaIngest_proofs --------------------------
(***************************************************************************)
(* Theorems about MetaIngest, and about ResourceListing which extends it,  *)
(* for every set of streams, readers, UIDs and messages.                   *)
(***************************************************************************)
EXTENDS ResourceListing, Library_proofs

-----------------------------------------------------------------------------
(***************************************************************************)
(* The operators of the store.                                             *)
(***************************************************************************)

(* A store is well formed when its keys and links have their types. *)
StoreOK(res) ==
    /\ DOMAIN res \subseteq UIDs
    /\ \A u \in DOMAIN res : /\ DOMAIN res[u] \subseteq Keys
                             /\ \A k \in DOMAIN res[u] : res[u][k] \in Links

(* toResource of an observation is a well-formed entry of the store *)
LEMMA ToResourceType ==
    ASSUME NEW o \in Observations
    PROVE  /\ DOMAIN ToResource(o) = DOMAIN o.refs
           /\ DOMAIN ToResource(o) \subseteq Keys
           /\ \A k \in DOMAIN ToResource(o) :
                 /\ ToResource(o)[k] \in Links
                 /\ ToResource(o)[k].uid = o.refs[k]
                 /\ ToResource(o)[k].resolved <=> o.refs[k] # NoUID
BY ObservationAssumption DEF ToResource, Links

(* UpsertResources replaces the entries of the batch, each by the
   observation that carries its UID, and leaves the others as they were. *)
LEMMA UpsertEffect ==
    ASSUME NEW list \in SUBSET Observations, UpsertResources(list)
    PROVE  /\ DOMAIN resources' = DOMAIN resources \cup {o.uid : o \in list}
           /\ \A u \in DOMAIN resources' :
                 \/ /\ u \in DOMAIN resources
                    /\ resources'[u] = resources[u]
                 \/ \E o \in list : o.uid = u /\ resources'[u] = ToResource(o)
<1>1. DOMAIN resources' = DOMAIN resources \cup {o.uid : o \in list}
  BY DEF UpsertResources, Stored
<1>2. ASSUME NEW u \in DOMAIN resources'
      PROVE  \/ u \in DOMAIN resources /\ resources'[u] = resources[u]
             \/ \E o \in list : o.uid = u /\ resources'[u] = ToResource(o)
  <2>1. CASE u \in {o.uid : o \in list}
    <3> DEFINE o == CHOOSE o \in list : o.uid = u
    <3>1. o \in list /\ o.uid = u
      BY <2>1
    <3>2. resources'[u] = ToResource(o)
      BY <1>1, <1>2, <2>1 DEF UpsertResources, Stored
    <3> QED
      BY <3>1, <3>2
  <2>2. CASE u \notin {o.uid : o \in list}
    BY <1>1, <1>2, <2>2 DEF UpsertResources, Stored
  <2> QED
    BY <2>1, <2>2
<1> QED
  BY <1>1, <1>2

LEMMA UpsertType ==
    ASSUME NEW list \in SUBSET Observations, UpsertResources(list),
           StoreOK(resources)
    PROVE  StoreOK(resources')
<1>1. DOMAIN resources' \subseteq UIDs
  BY UpsertEffect, ObservationAssumption DEF StoreOK
<1>2. ASSUME NEW u \in DOMAIN resources'
      PROVE  /\ DOMAIN resources'[u] \subseteq Keys
             /\ \A k \in DOMAIN resources'[u] : resources'[u][k] \in Links
  <2>1. CASE u \in DOMAIN resources /\ resources'[u] = resources[u]
    BY <2>1 DEF StoreOK
  <2>2. CASE \E o \in list : o.uid = u /\ resources'[u] = ToResource(o)
    <3>1. PICK o \in list : o.uid = u /\ resources'[u] = ToResource(o)
      BY <2>2
    <3> QED
      BY <3>1, ToResourceType
  <2> QED
    BY <1>2, <2>1, <2>2, UpsertEffect
<1> QED
  BY <1>1, <1>2 DEF StoreOK

(* ResolveRelations keeps the resources and their relations, and rewrites
   each link by what the index holds for its key. *)
LEMMA ResolveEffect ==
    ASSUME NEW ix \in Indexes, ResolveRelations(ix)
    PROVE  /\ DOMAIN resources' = DOMAIN resources
           /\ DOMAIN ix = {KeyOf[u] : u \in DOMAIN resources}
           /\ \A k \in DOMAIN ix : ix[k] \in DOMAIN resources /\ KeyOf[ix[k]] = k
           /\ \A u \in DOMAIN resources :
                 /\ DOMAIN resources'[u] = DOMAIN resources[u]
                 /\ \A k \in DOMAIN resources[u] :
                       resources'[u][k] = Resolved(resources[u][k], k, ix)
BY DEF ResolveRelations, Indexes, Stored

LEMMA ResolveType ==
    ASSUME NEW ix \in Indexes, ResolveRelations(ix), StoreOK(resources)
    PROVE  StoreOK(resources')
<1> ASSUME NEW u \in DOMAIN resources, NEW k \in DOMAIN resources[u]
    PROVE  resources'[u][k] \in Links
  <2>1. resources'[u][k] = Resolved(resources[u][k], k, ix)
    BY ResolveEffect
  <2>2. resources[u][k] \in Links
    BY DEF StoreOK
  <2>3. CASE k \in DOMAIN ix
    <3>1. ix[k] \in UIDs
      BY <2>3, ResolveEffect DEF StoreOK
    <3> QED
      BY <2>1, <2>3, <3>1 DEF Resolved, Links
  <2>4. CASE k \notin DOMAIN ix
    BY <2>1, <2>2, <2>4 DEF Resolved, Links
  <2> QED
    BY <2>3, <2>4
<1> QED
  BY ResolveEffect DEF StoreOK

(* There are finitely many relations in a well-formed store, so the counts
   ResolveRelations returns are numbers. *)
LEMMA RelationsFinite ==
    ASSUME StoreOK(resources)
    PROVE  IsFiniteSet(Relations)
<1>1. IsFiniteSet(UIDs \X Keys)
  BY KeyAssumption, FS_Product
<1>2. Relations \in SUBSET (UIDs \X Keys)
  BY DEF Relations, Stored, StoreOK
<1> QED
  BY <1>1, <1>2, FS_Subset

-----------------------------------------------------------------------------
(***************************************************************************)
(* Type correctness.                                                       *)
(***************************************************************************)

LEMMA TypeInit == Init => TypeOK
BY DEF Init, TypeOK, Stored, Nothing, NoStats, Counts, StreamStates, ReaderStates

(* The size of a batch is a number *)
LEMMA BatchSize ==
    ASSUME NEW b \in Batches
    PROVE  /\ b.resources \in SUBSET Observations
           /\ Cardinality(b.resources) \in Nat
<1> DEFINE uids == {o.uid : o \in b.resources}
           f == [o \in b.resources |-> o.uid]
<1>1. uids \in SUBSET UIDs
  BY BatchAssumption, ObservationAssumption
<1>2. IsFiniteSet(uids)
  BY <1>1, KeyAssumption, FS_Subset
<1>3. f \in Injection(b.resources, uids)
  BY BatchAssumption DEF Injection, IsInjective
<1>4. IsFiniteSet(b.resources)
  BY <1>2, <1>3, FS_Injection
<1> QED
  BY <1>4, FS_CardinalityType, BatchAssumption

LEMMA TypeStep == TypeOK /\ [Next]_vars => TypeOK'
<1> SUFFICES ASSUME TypeOK, [Next]_vars PROVE TypeOK'
  OBVIOUS
<1> USE DEF TypeOK, Counts
<1>1. ASSUME NEW s \in Streams, Accept(s) PROVE TypeOK'
  <2>1. PICK b \in Batches :
           /\ UpsertResources(b.resources)
           /\ batches' = [batches EXCEPT ![s] = @ + 1]
           /\ items' = [items EXCEPT ![s] = @ + Cardinality(b.resources)]
    BY <1>1 DEF Accept, AcceptBatch
  <2>2. StoreOK(resources')
    BY <2>1, BatchSize, UpsertType DEF StoreOK, Stored
  <2> QED
    BY <1>1, <2>1, <2>2, BatchSize DEF Accept, AcceptBatch, StoreOK, Stored, promVars
<1>2. ASSUME NEW s \in Streams, Reject(s) PROVE TypeOK'
  <2>1. PICK b \in Batches :
           /\ rejected' = [rejected EXCEPT ![s] = @ + Cardinality(b.resources)]
           /\ promRejected' = promRejected + Cardinality(b.resources)
    BY <1>2 DEF Reject
  <2> QED
    BY <1>2, <2>1, BatchSize DEF Reject, Stored, storeVars
<1>3. ASSUME NEW s \in Streams, EndOfStream(s) PROVE TypeOK'
  BY <1>3 DEF EndOfStream, Stored, storeVars, promVars, localVars, StreamStates
<1>4. ASSUME NEW s \in Streams, Abort(s) PROVE TypeOK'
  BY <1>4 DEF Abort, Stored, storeVars, promVars, localVars, StreamStates
<1>5. ASSUME NEW s \in Streams, Resolve(s) PROVE TypeOK'
  <2>1. PICK ix \in Indexes :
           /\ ResolveRelations(ix)
           /\ LET found == {r \in Relations : r[2] \in DOMAIN ix} IN
              outcome' = [outcome EXCEPT ![s] =
                  [resolved |-> Cardinality(found),
                   unresolved |-> Cardinality(Relations \ found)]]
    BY <1>5 DEF Resolve
  <2>2. StoreOK(resources) /\ StoreOK(resources')
    BY <2>1, ResolveType DEF StoreOK, Stored
  <2>3. \A part \in SUBSET Relations : Cardinality(part) \in Nat
    BY <2>2, RelationsFinite, FS_Subset, FS_CardinalityType
  <2>4. outcome' \in [Streams -> [resolved : Nat, unresolved : Nat]]
    BY <2>1, <2>3
  <2> QED
    BY <1>5, <2>2, <2>4 DEF Resolve, StoreOK, Stored, promVars, StreamStates
<1>6. ASSUME NEW s \in Streams, RecordStream(s) PROVE TypeOK'
  BY <1>6 DEF RecordStream, Stored, promVars, localVars, StreamStates
<1>7. ASSUME NEW s \in Streams, Publish(s) PROVE TypeOK'
  BY <1>7 DEF Publish, Stored, storeVars, localVars, StreamStates
<1>8. ASSUME NEW s \in Streams, SetTotal(s) PROVE TypeOK'
  BY <1>8 DEF SetTotal, Stored, storeVars, localVars, StreamStates
<1>9. ASSUME NEW s \in Streams, SetResolved(s) PROVE TypeOK'
  BY <1>9 DEF SetResolved, Stored, storeVars, localVars, StreamStates
<1>10. ASSUME NEW s \in Streams, CountKinds(s) PROVE TypeOK'
  BY <1>10 DEF CountKinds, Stored, storeVars, promVars, StreamStates
<1>11. ASSUME NEW s \in Streams, SetTracked(s) PROVE TypeOK'
  BY <1>11 DEF SetTracked, Stored, storeVars, StreamStates
<1>12. ASSUME NEW s \in Streams, Reply(s) PROVE TypeOK'
  BY <1>12 DEF Reply, Stored, storeVars, promVars, localVars, StreamStates
<1>13. ASSUME NEW r \in Readers, Summary(r) PROVE TypeOK'
  <2>1. /\ UNCHANGED <<storeVars, promVars, localVars>>
        /\ \E state \in ReaderStates : pc' = [pc EXCEPT ![r] = state]
    BY <1>13 DEF Summary, ReadRelationStat, ReadStats, ReadKindCount,
                 ReadNamespaceCount, ReaderStates
  <2> QED
    BY <2>1, ProcessAssumption DEF Stored, storeVars, promVars, localVars
<1>14. CASE UNCHANGED vars
  BY <1>14 DEF vars, Stored, storeVars, promVars, localVars
<1> QED
  BY <1>1, <1>2, <1>3, <1>4, <1>5, <1>6, <1>7, <1>8, <1>9, <1>10, <1>11,
     <1>12, <1>13, <1>14 DEF Next, ReportMeta, Finish, Idle

(* Every reachable state has well-typed variables: the links, counters and
   counts of the server never leave their types, for any batches, any number
   of streams and any interleaving. *)
THEOREM TypeCorrect == Spec => []TypeOK
BY TypeInit, TypeStep, PTL DEF Spec

-----------------------------------------------------------------------------
(***************************************************************************)
(* What the links say.                                                     *)
(***************************************************************************)

(* Only Accept and Resolve touch the resources *)
LEMMA OnlyAcceptOrResolve ==
    ASSUME [Next]_vars
    PROVE  \/ \E s \in Streams : Accept(s)
           \/ \E s \in Streams : Resolve(s)
           \/ UNCHANGED resources
BY DEF Next, ReportMeta, Finish, Summary, Idle, vars, storeVars, promVars,
       localVars, Reject, EndOfStream, Abort, RecordStream, Publish, SetTotal,
       SetResolved, CountKinds, SetTracked, Reply, ReadRelationStat, ReadStats,
       ReadKindCount, ReadNamespaceCount

LEMMA ResolvedStep ==
    TypeOK /\ ResolvedMeansFound /\ [Next]_vars => ResolvedMeansFound'
<1> SUFFICES ASSUME TypeOK, ResolvedMeansFound, [Next]_vars
             PROVE  ResolvedMeansFound'
  OBVIOUS
<1>1. ASSUME NEW s \in Streams, Accept(s) PROVE ResolvedMeansFound'
  <2>1. PICK b \in Batches : UpsertResources(b.resources)
    BY <1>1 DEF Accept, AcceptBatch
  <2>2. b.resources \in SUBSET Observations
    BY BatchSize
  <2>3. Stored \subseteq Stored'
    BY <2>1, <2>2, UpsertEffect DEF Stored
  <2> SUFFICES ASSUME NEW u \in Stored', NEW k \in DOMAIN resources'[u],
                      resources'[u][k].resolved
               PROVE  /\ resources'[u][k].uid # NoUID
                      /\ KeyOf[resources'[u][k].uid] = k
                      /\ \/ resources'[u][k].uid \in Stored'
                         \/ \E o \in Observations :
                               /\ o.uid = u /\ k \in DOMAIN o.refs
                               /\ o.refs[k] = resources'[u][k].uid
    BY DEF ResolvedMeansFound
  <2>4. CASE u \in Stored /\ resources'[u] = resources[u]
    BY <2>3, <2>4 DEF ResolvedMeansFound
  <2>5. CASE \E o \in b.resources : o.uid = u /\ resources'[u] = ToResource(o)
    <3>1. PICK o \in b.resources : o.uid = u /\ resources'[u] = ToResource(o)
      BY <2>5
    <3>2. /\ o \in Observations /\ k \in DOMAIN o.refs
          /\ resources'[u][k].uid = o.refs[k] /\ o.refs[k] # NoUID
      BY <2>2, <3>1, ToResourceType
    <3> QED
      BY <3>1, <3>2, ObservationAssumption
  <2> QED
    BY <2>1, <2>2, <2>4, <2>5, UpsertEffect DEF Stored
<1>2. ASSUME NEW s \in Streams, Resolve(s) PROVE ResolvedMeansFound'
  <2>1. PICK ix \in Indexes : ResolveRelations(ix)
    BY <1>2 DEF Resolve
  <2>2. Stored' = Stored /\ Stored \subseteq UIDs
    BY <2>1, ResolveEffect DEF Stored, TypeOK
  <2> SUFFICES ASSUME NEW u \in Stored', NEW k \in DOMAIN resources'[u],
                      resources'[u][k].resolved
               PROVE  /\ resources'[u][k].uid # NoUID
                      /\ KeyOf[resources'[u][k].uid] = k
                      /\ resources'[u][k].uid \in Stored'
    BY DEF ResolvedMeansFound
  <2>3. resources'[u][k] = Resolved(resources[u][k], k, ix)
    BY <2>1, <2>2, ResolveEffect DEF Stored
  <2>4. k \in DOMAIN ix /\ resources'[u][k].uid = ix[k]
    BY <2>3 DEF Resolved
  <2> QED
    BY <2>1, <2>2, <2>4, ResolveEffect, KeyAssumption DEF Stored
<1>3. CASE UNCHANGED resources
  BY <1>3 DEF ResolvedMeansFound, Stored
<1> QED
  BY <1>1, <1>2, <1>3, OnlyAcceptOrResolve

(* After ResolveRelations nothing is left that could be linked *)
LEMMA ResolveLinksAll ==
    ASSUME NEW ix \in Indexes, ResolveRelations(ix)
    PROVE  AllLinked'
<1> SUFFICES ASSUME NEW u \in Stored', NEW k \in DOMAIN resources'[u],
                    ~resources'[u][k].resolved
             PROVE  ~ \E v \in Stored' : KeyOf[v] = k
  BY DEF AllLinked, Linkable, Holders
<1>1. resources'[u][k] = Resolved(resources[u][k], k, ix) /\ Stored' = Stored
  BY ResolveEffect DEF Stored
<1>2. k \notin DOMAIN ix
  BY <1>1 DEF Resolved
<1>3. DOMAIN ix = {KeyOf[v] : v \in Stored}
  BY ResolveEffect DEF Stored
<1> QED
  BY <1>1, <1>2, <1>3

(* Only Accept touches the batch count of a stream *)
LEMMA BatchesGrow ==
    ASSUME TypeOK, [Next]_vars, NEW s \in Streams
    PROVE  batches'[s] >= batches[s]
<1>1. ASSUME NEW t \in Streams, Accept(t) PROVE batches'[s] >= batches[s]
  BY <1>1 DEF Accept, AcceptBatch, TypeOK
<1>2. CASE UNCHANGED batches
  BY <1>2 DEF TypeOK
<1>3. \/ \E t \in Streams : Accept(t)
      \/ UNCHANGED batches
  BY DEF Next, ReportMeta, Finish, Summary, Idle, vars, localVars,
         Reject, EndOfStream, Abort, Resolve, RecordStream, Publish,
         SetTotal, SetResolved, CountKinds, SetTracked, Reply,
         ReadRelationStat, ReadStats, ReadKindCount, ReadNamespaceCount
<1> QED
  BY <1>1, <1>2, <1>3

LEMMA OwedStep ==
    TypeOK /\ UnresolvedIsOwed /\ [Next]_vars => UnresolvedIsOwed'
<1> SUFFICES ASSUME TypeOK, UnresolvedIsOwed, [Next]_vars
             PROVE  UnresolvedIsOwed'
  OBVIOUS
<1>1. ASSUME NEW s \in Streams, Accept(s) PROVE UnresolvedIsOwed'
  <2>1. OwesResolve(s)'
    BY <1>1 DEF Accept, AcceptBatch, OwesResolve, TypeOK
  <2> QED
    BY <2>1 DEF UnresolvedIsOwed
<1>2. ASSUME NEW s \in Streams, Resolve(s) PROVE UnresolvedIsOwed'
  BY <1>2, ResolveLinksAll DEF Resolve, UnresolvedIsOwed, AllLinked
<1>3. CASE UNCHANGED resources /\ \A s \in Streams : ~Resolve(s)
  <2>1. ASSUME NEW s \in Streams, OwesResolve(s) PROVE OwesResolve(s)'
    <3>1. batches'[s] >= batches[s]
      BY BatchesGrow
    <3>2. pc'[s] \in {"recv", "resolve", "failed"}
      BY <1>3, <2>1, ProcessAssumption
         DEF OwesResolve, TypeOK, Next, ReportMeta, Finish, Summary, Idle, vars,
             Accept, AcceptBatch, Reject, EndOfStream, Abort, RecordStream, Publish,
             SetTotal, SetResolved, CountKinds, SetTracked, Reply,
             ReadRelationStat, ReadStats, ReadKindCount, ReadNamespaceCount
    <3>3. batches'[s] \in Nat
      BY TypeStep DEF TypeOK
    <3> QED
      BY <2>1, <3>1, <3>2, <3>3 DEF OwesResolve, TypeOK
  <2>2. (\E u \in Stored : \E k \in DOMAIN resources[u] : Linkable(u, k))'
           => \E u \in Stored : \E k \in DOMAIN resources[u] : Linkable(u, k)
    BY <1>3 DEF Stored, Linkable, Holders
  <2> QED
    BY <2>1, <2>2 DEF UnresolvedIsOwed
<1> QED
  BY <1>1, <1>2, <1>3, OnlyAcceptOrResolve

LEMMA LinksInit == Init => ResolvedMeansFound /\ UnresolvedIsOwed
BY DEF Init, ResolvedMeansFound, UnresolvedIsOwed, Linkable, Stored

(* ResolveRelations never links across namespaces, kinds or names, and never
   to a UID that nobody reported, however streams interleave and in whatever
   order the index was filled. *)
THEOREM LinksAreRight == Spec => []ResolvedMeansFound
BY TypeInit, TypeStep, LinksInit, ResolvedStep, PTL DEF Spec

(* A link that is missing although its target is stored is always the debt
   of a stream that has not resolved (and never will, if it was cut off). *)
THEOREM MissingLinksAreOwed == Spec => []UnresolvedIsOwed
BY TypeInit, TypeStep, LinksInit, OwedStep, PTL DEF Spec

-----------------------------------------------------------------------------
(***************************************************************************)
(* The gauge of tracked resources.                                         *)
(***************************************************************************)

(* The counts a handler has read and not yet written to the gauge lag behind
   the store too: this is what makes the property inductive. *)
PendingNeverOverstates ==
    \A s \in Streams : \A kd \in DOMAIN kindCount[s] :
        kindCount[s][kd] <= Cardinality(OfKind(kd))

(* Pending and published counts are numbers, so that <= means something *)
CountsAreNumbers ==
    /\ \A kd \in DOMAIN resourcesTracked : resourcesTracked[kd] \in Nat
    /\ \A s \in Streams : \A kd \in DOMAIN kindCount[s] : kindCount[s][kd] \in Nat
    /\ DOMAIN kindCount = Streams

TrackedInv == CountsAreNumbers /\ TrackedNeverOverstates /\ PendingNeverOverstates

LEMMA KindsAreFinite ==
    ASSUME TypeOK, NEW kd
    PROVE  IsFiniteSet(OfKind(kd)) /\ Cardinality(OfKind(kd)) \in Nat
<1>1. OfKind(kd) \in SUBSET UIDs
  BY DEF OfKind, TypeOK
<1> QED
  BY <1>1, KeyAssumption, FS_Subset, FS_CardinalityType

(* The store never drops a resource, so no kind ever shrinks *)
LEMMA KindsGrow ==
    ASSUME TypeOK, [Next]_vars, NEW kd
    PROVE  /\ Cardinality(OfKind(kd)) \in Nat
           /\ Cardinality(OfKind(kd))' \in Nat
           /\ Cardinality(OfKind(kd)) <= Cardinality(OfKind(kd))'
<1>1. Stored \subseteq Stored'
  <2>1. ASSUME NEW s \in Streams, Accept(s) PROVE Stored \subseteq Stored'
    BY <2>1, UpsertEffect, BatchSize DEF Accept, AcceptBatch, Stored
  <2>2. ASSUME NEW s \in Streams, Resolve(s) PROVE Stored \subseteq Stored'
    BY <2>2, ResolveEffect DEF Resolve, Stored
  <2> QED
    BY <2>1, <2>2, OnlyAcceptOrResolve DEF Stored
<1>2. OfKind(kd) \in SUBSET (OfKind(kd)')
  BY <1>1 DEF OfKind
<1>3. Stored' \subseteq UIDs
  BY TypeStep DEF TypeOK
<1>4. OfKind(kd)' \in SUBSET UIDs
  BY <1>3 DEF OfKind
<1>5. IsFiniteSet(OfKind(kd)')
  BY <1>4, KeyAssumption, FS_Subset
<1> QED
  BY <1>2, <1>5, KindsAreFinite, FS_Subset, FS_CardinalityType

LEMMA TrackedStep == TypeOK /\ TrackedInv /\ [Next]_vars => TrackedInv'
<1> SUFFICES ASSUME TypeOK, TrackedInv, [Next]_vars PROVE TrackedInv'
  OBVIOUS
<1> USE DEF TrackedInv, CountsAreNumbers, TrackedNeverOverstates,
            PendingNeverOverstates
<1>1. ASSUME NEW s \in Streams, CountKinds(s) PROVE TrackedInv'
  <2>1. kindCount' = [kindCount EXCEPT ![s] = KindCount]
        /\ UNCHANGED <<resources, resourcesTracked>>
    BY <1>1 DEF CountKinds, storeVars, promVars
  <2>2. \A kd : OfKind(kd)' = OfKind(kd)
    BY <2>1 DEF OfKind, Stored
  <2>3. \A kd \in DOMAIN KindCount : KindCount[kd] = Cardinality(OfKind(kd))
    BY DEF KindCount
  <2>4. \A kd \in DOMAIN KindCount : /\ KindCount[kd] \in Nat
                                     /\ KindCount[kd] <= Cardinality(OfKind(kd))
    BY <2>3, KindsAreFinite
  <2> QED
    BY <2>1, <2>2, <2>4
<1>2. ASSUME NEW s \in Streams, SetTracked(s) PROVE TrackedInv'
  <2>1. PICK kd \in DOMAIN kindCount[s] :
           /\ resourcesTracked' = [x \in DOMAIN resourcesTracked \cup {kd} |->
                  IF x = kd THEN kindCount[s][kd] ELSE resourcesTracked[x]]
           /\ kindCount' = [kindCount EXCEPT ![s] = Restrict(@, DOMAIN @ \ {kd})]
           /\ UNCHANGED resources
    BY <1>2 DEF SetTracked, storeVars
  <2>2. \A x : OfKind(x)' = OfKind(x)
    BY <2>1 DEF OfKind, Stored
  <2>3. \A t \in Streams : \A x \in DOMAIN kindCount'[t] :
            x \in DOMAIN kindCount[t] /\ kindCount'[t][x] = kindCount[t][x]
    BY <2>1 DEF Restrict
  <2>4. DOMAIN kindCount' = Streams
    BY <2>1
  <2>5. \A x \in DOMAIN resourcesTracked' :
            /\ resourcesTracked'[x] \in Nat
            /\ resourcesTracked'[x] <= Cardinality(OfKind(x))
    BY <2>1
  <2> QED
    BY <2>2, <2>3, <2>4, <2>5
<1>3. CASE UNCHANGED <<resourcesTracked, kindCount>>
  BY <1>3, KindsGrow
<1>4. \/ \E s \in Streams : CountKinds(s) \/ SetTracked(s)
      \/ UNCHANGED <<resourcesTracked, kindCount>>
  BY DEF Next, ReportMeta, Finish, Summary, Idle, vars, promVars, localVars,
         Accept, AcceptBatch, Reject, EndOfStream, Abort, Resolve, RecordStream, Publish,
         SetTotal, SetResolved, Reply,
         ReadRelationStat, ReadStats, ReadKindCount, ReadNamespaceCount
<1> QED
  BY <1>1, <1>2, <1>3, <1>4

LEMMA TrackedInit == Init => TrackedInv
BY DEF Init, TrackedInv, CountsAreNumbers, TrackedNeverOverstates,
       PendingNeverOverstates, Nothing

(* Whatever two handlers write over each other, the resources-tracked gauge
   of a kind never exceeds the number of stored resources of that kind. *)
THEOREM GaugeNeverOverstates == Spec => []TrackedNeverOverstates
BY TypeInit, TypeStep, TrackedInit, TrackedStep, PTL DEF Spec, TrackedInv

-----------------------------------------------------------------------------
(***************************************************************************)
(* The counters.                                                           *)
(***************************************************************************)

Publishing == {s \in Streams : pc[s] = "publish"}

(* CountersAgree, its sums in the form the lemmas about sums are stated in:
   with the types it is inductive as it stands. *)
CountersInv ==
    /\ promRejected = stats.rejected + SumOver(rejected, Unrecorded)
    /\ stats.items = promReceived.items + SumOver(items, Publishing)
    /\ stats.batches = promReceived.batches + SumOver(batches, Publishing)

LEMMA CountersAre == CountersInv => CountersAgree
BY DEF CountersInv, CountersAgree, SumOver, Publishing

(* A stream leaves or enters a sum with all it has *)
LEMMA SumWithout ==
    ASSUME NEW T \in SUBSET Streams, NEW f \in [Streams -> Nat], NEW s \in T
    PROVE  /\ SumOver(f, T) \in Nat /\ SumOver(f, T \ {s}) \in Nat
           /\ SumOver(f, T) = f[s] + SumOver(f, T \ {s})
<1>1. IsFiniteSet(T) /\ IsFiniteSet(T \ {s})
  BY ProcessAssumption, FS_Subset
<1> QED
  BY <1>1, SumType, SumElement

(* What a stream outside the sum counts does not matter *)
LEMMA SumOfOthers ==
    ASSUME NEW T \in SUBSET Streams, NEW f, NEW g, \A s \in T : f[s] = g[s]
    PROVE  SumOver(f, T) = SumOver(g, T)
<1>1. IsFiniteSet(T)
  BY ProcessAssumption, FS_Subset
<1> QED
  BY <1>1, SumEqual

LEMMA CountersInit == Init => CountersInv
<1> SUFFICES ASSUME Init PROVE CountersInv
  OBVIOUS
<1>1. ASSUME NEW T \in SUBSET Streams, NEW f, \A s \in T : f[s] = 0
      PROVE  SumOver(f, T) = 0
  <2>0. IsFiniteSet(Streams)
    BY ProcessAssumption
  <2>1. PICK Good : Good = {S \in SUBSET T : SumOver(f, S) = 0}
    OBVIOUS
  <2>2. ASSUME NEW S \in SUBSET T, \A x \in S : S \ {x} \in Good
        PROVE  S \in Good
    <3>1. SumOver(f, S) = IF S = {} THEN 0
                          ELSE f[FirstOf(S)] + SumOver(f, S \ {FirstOf(S)})
      BY <2>0, FS_Subset, SumRecursion
    <3>2. S # {} => FirstOf(S) \in S
      BY DEF FirstOf
    <3> QED
      BY <1>1, <2>1, <2>2, <3>1, <3>2
  <2>3. IsFiniteSet(T)
    BY <2>0, FS_Subset
  <2>4. SUBSET T \subseteq Good
    BY <2>2, <2>3, FiniteSetsInductively
  <2>5. T \in Good
    BY <2>4
  <2> QED
    BY <2>1, <2>5
<1>2. /\ SumOver(rejected, Unrecorded) = 0 /\ SumOver(items, Publishing) = 0
      /\ SumOver(batches, Publishing) = 0
  <2>1. Unrecorded \in SUBSET Streams /\ Publishing \in SUBSET Streams
    BY DEF Unrecorded, Publishing
  <2>2. \A s \in Streams : rejected[s] = 0 /\ items[s] = 0 /\ batches[s] = 0
    BY DEF Init
  <2> QED
    BY <1>1, <2>1, <2>2
<1>3. promRejected = 0 /\ stats = NoStats /\ promReceived.items = 0
      /\ promReceived.batches = 0
  BY DEF Init
<1> QED
  BY <1>2, <1>3 DEF CountersInv, NoStats

(* A step that moves no stream between the groups, and no counter *)
LEMMA CountersStay ==
    ASSUME CountersInv, TypeOK,
           UNCHANGED <<stats, promReceived, promRejected, rejected>>,
           UNCHANGED <<Unrecorded, Publishing>>,
           \A s \in Publishing : items'[s] = items[s] /\ batches'[s] = batches[s]
    PROVE  CountersInv'
<1>1. Publishing \in SUBSET Streams
  BY DEF Publishing
<1>2. SumOver(items, Publishing) = SumOver(items', Publishing)
  BY <1>1, SumOfOthers
<1>3. SumOver(batches, Publishing) = SumOver(batches', Publishing)
  BY <1>1, SumOfOthers
<1> QED
  BY <1>2, <1>3 DEF CountersInv

LEMMA CountersStep == TypeOK /\ CountersInv /\ [Next]_vars => CountersInv'
<1> SUFFICES ASSUME TypeOK, CountersInv, [Next]_vars PROVE CountersInv'
  OBVIOUS
<1>0. Unrecorded \in SUBSET Streams /\ Publishing \in SUBSET Streams
  BY DEF Unrecorded, Publishing
<1>1. ASSUME NEW s \in Streams, Accept(s) PROVE CountersInv'
  <2>1. s \notin Publishing /\ UNCHANGED <<Unrecorded, Publishing>>
    BY <1>1 DEF Accept, AcceptBatch, Unrecorded, Publishing
  <2>2. \A t \in Streams \ {s} : items'[t] = items[t] /\ batches'[t] = batches[t]
    BY <1>1 DEF Accept, AcceptBatch, TypeOK
  <2>3. UNCHANGED <<stats, promReceived, promRejected, rejected>>
    BY <1>1 DEF Accept, AcceptBatch, promVars
  <2> QED
    BY <1>0, <2>1, <2>2, <2>3, CountersStay
<1>2. ASSUME NEW s \in Streams, Reject(s) PROVE CountersInv'
  <2>1. PICK n \in Nat : /\ rejected' = [rejected EXCEPT ![s] = @ + n]
                         /\ promRejected' = promRejected + n
    BY <1>2, BatchSize DEF Reject
  <2>2. /\ UNCHANGED <<stats, promReceived, items, batches, pc>>
        /\ s \in Unrecorded /\ UNCHANGED <<Unrecorded, Publishing>>
    BY <1>2 DEF Reject, storeVars, Unrecorded, Publishing
  <2>3. rejected \in [Streams -> Nat] /\ rejected' \in [Streams -> Nat]
    BY <2>1 DEF TypeOK
  <2>8. s \in Unrecorded /\ Unrecorded \in SUBSET Streams
    BY <1>0, <2>2
  <2>9. /\ SumOver(rejected, Unrecorded \ {s}) \in Nat
        /\ SumOver(rejected, Unrecorded) = rejected[s] + SumOver(rejected, Unrecorded \ {s})
    BY <2>3, <2>8, SumWithout
  <2>4. PICK rest \in Nat : /\ rest = SumOver(rejected, Unrecorded \ {s})
                            /\ SumOver(rejected, Unrecorded) = rejected[s] + rest
    BY <2>9
  <2>5. SumOver(rejected', Unrecorded) = rejected'[s] + SumOver(rejected', Unrecorded \ {s})
    BY <2>3, <2>8, SumWithout
  <2>6. SumOver(rejected', Unrecorded \ {s}) = rest
    <3>1. /\ Unrecorded \ {s} \in SUBSET Streams
          /\ \A t \in Unrecorded \ {s} : rejected[t] = rejected'[t]
      BY <2>1, <2>3, <2>8
    <3> QED
      BY <2>4, <3>1, SumOfOthers
  <2>7. promRejected' = stats.rejected + SumOver(rejected', Unrecorded)
    <3>1. promRejected = stats.rejected + SumOver(rejected, Unrecorded)
      BY DEF CountersInv
    <3>2. rejected'[s] = rejected[s] + n /\ rejected[s] \in Nat /\ stats.rejected \in Nat
      BY <2>1, <2>3 DEF TypeOK, Counts
    <3> QED
      BY <2>1, <2>4, <2>5, <2>6, <3>1, <3>2
  <2> QED
    BY <2>2, <2>7 DEF CountersInv
<1>3. ASSUME NEW s \in Streams, RecordStream(s) PROVE CountersInv'
  <2>1. /\ stats' = [batches  |-> stats.batches + batches[s],
                     items    |-> stats.items + items[s],
                     rejected |-> stats.rejected + rejected[s]]
        /\ UNCHANGED <<promReceived, promRejected, items, batches, rejected>>
    BY <1>3 DEF RecordStream, promVars, localVars
  <2>2. /\ s \in Unrecorded /\ Unrecorded' = Unrecorded \ {s}
        /\ Publishing' = Publishing \cup {s} /\ Publishing' \ {s} = Publishing
    BY <1>3 DEF RecordStream, Unrecorded, Publishing, TypeOK
  <2>3. /\ rejected \in [Streams -> Nat] /\ items \in [Streams -> Nat]
        /\ batches \in [Streams -> Nat] /\ stats \in Counts
        /\ promReceived.items \in Nat /\ promReceived.batches \in Nat
    BY DEF TypeOK
  <2>4. /\ SumOver(rejected, Unrecorded) = rejected[s] + SumOver(rejected, Unrecorded')
        /\ SumOver(rejected, Unrecorded') \in Nat
    BY <1>0, <2>2, <2>3, SumWithout
  <2>5. Publishing' \in SUBSET Streams /\ s \in Publishing'
    BY <1>0, <2>2
  <2>6. /\ SumOver(items, Publishing') = items[s] + SumOver(items, Publishing)
        /\ SumOver(items, Publishing) \in Nat
    <3>1. /\ SumOver(items, Publishing')
                = items[s] + SumOver(items, Publishing' \ {s})
          /\ SumOver(items, Publishing' \ {s}) \in Nat
      BY <2>3, <2>5, SumWithout
    <3>2. Publishing' \ {s} = Publishing
      BY <2>2
    <3> QED
      BY <3>1, <3>2, Zenon
  <2>7. /\ SumOver(batches, Publishing') = batches[s] + SumOver(batches, Publishing)
        /\ SumOver(batches, Publishing) \in Nat
    <3>1. /\ SumOver(batches, Publishing')
                = batches[s] + SumOver(batches, Publishing' \ {s})
          /\ SumOver(batches, Publishing' \ {s}) \in Nat
      BY <2>3, <2>5, SumWithout
    <3>2. Publishing' \ {s} = Publishing
      BY <2>2
    <3> QED
      BY <3>1, <3>2, Zenon
  <2>8. promRejected' = stats'.rejected + SumOver(rejected, Unrecorded')
    BY <2>1, <2>3, <2>4 DEF CountersInv, Counts
  <2>9. stats'.items = promReceived.items + SumOver(items, Publishing')
    BY <2>1, <2>3, <2>6 DEF CountersInv, Counts
  <2>10. stats'.batches = promReceived.batches + SumOver(batches, Publishing')
    BY <2>1, <2>3, <2>7 DEF CountersInv, Counts
  <2> QED
    BY <2>1, <2>8, <2>9, <2>10 DEF CountersInv
<1>4. ASSUME NEW s \in Streams, Publish(s) PROVE CountersInv'
  <2>1. /\ promReceived' = [batches |-> promReceived.batches + batches[s],
                            items   |-> promReceived.items + items[s]]
        /\ UNCHANGED <<stats, promRejected, items, batches, rejected>>
    BY <1>4 DEF Publish, storeVars, localVars
  <2>2. /\ s \in Publishing /\ Publishing' = Publishing \ {s}
        /\ Unrecorded' = Unrecorded
    BY <1>4 DEF Publish, Unrecorded, Publishing, TypeOK
  <2>3. /\ items \in [Streams -> Nat] /\ batches \in [Streams -> Nat]
        /\ promReceived.items \in Nat /\ promReceived.batches \in Nat
    BY DEF TypeOK
  <2>4. /\ SumOver(items, Publishing) = items[s] + SumOver(items, Publishing')
        /\ SumOver(items, Publishing') \in Nat
    BY <1>0, <2>2, <2>3, SumWithout
  <2>5. /\ SumOver(batches, Publishing) = batches[s] + SumOver(batches, Publishing')
        /\ SumOver(batches, Publishing') \in Nat
    BY <1>0, <2>2, <2>3, SumWithout
  <2>6. stats.items = promReceived'.items + SumOver(items, Publishing')
    BY <2>1, <2>3, <2>4 DEF CountersInv
  <2>7. stats.batches = promReceived'.batches + SumOver(batches, Publishing')
    BY <2>1, <2>3, <2>5 DEF CountersInv
  <2> QED
    BY <2>1, <2>2, <2>6, <2>7 DEF CountersInv
<1>5. ASSUME NEW s \in Streams,
             \/ EndOfStream(s) \/ Abort(s) \/ Resolve(s) \/ SetTotal(s)
             \/ SetResolved(s) \/ CountKinds(s) \/ SetTracked(s) \/ Reply(s)
      PROVE  CountersInv'
  <2>1. UNCHANGED <<stats, promReceived, promRejected, items, batches, rejected>>
    BY <1>5 DEF EndOfStream, Abort, Resolve, SetTotal, SetResolved, CountKinds,
                SetTracked, Reply, storeVars, promVars, localVars
  <2>2. UNCHANGED <<Unrecorded, Publishing>>
    BY <1>5 DEF EndOfStream, Abort, Resolve, SetTotal, SetResolved, CountKinds,
                SetTracked, Reply, Unrecorded, Publishing, TypeOK
  <2> QED
    BY <2>1, <2>2, CountersStay
<1>6. ASSUME NEW r \in Readers, Summary(r) PROVE CountersInv'
  <2>1. UNCHANGED <<stats, promReceived, promRejected, items, batches, rejected>>
    BY <1>6 DEF Summary, ReadRelationStat, ReadStats, ReadKindCount,
                ReadNamespaceCount, storeVars, promVars, localVars
  <2>2. \A s \in Streams : pc'[s] = pc[s]
    BY <1>6, ProcessAssumption DEF Summary, ReadRelationStat, ReadStats,
                ReadKindCount, ReadNamespaceCount, TypeOK
  <2>3. UNCHANGED <<Unrecorded, Publishing>>
    BY <2>2 DEF Unrecorded, Publishing
  <2> QED
    BY <2>1, <2>3, CountersStay
<1>7. CASE UNCHANGED vars
  <2>1. /\ UNCHANGED <<stats, promReceived, promRejected, items, batches, rejected>>
        /\ UNCHANGED <<Unrecorded, Publishing>>
    BY <1>7 DEF vars, storeVars, promVars, localVars, Unrecorded, Publishing
  <2> QED
    BY <2>1, CountersStay
<1> QED
  BY <1>1, <1>2, <1>3, <1>4, <1>5, <1>6, <1>7 DEF Next, ReportMeta, Finish, Idle

(* What arrived is counted twice, in Store.stats and in Prometheus, and the
   two differ by exactly what the streams under way, or cut off, carry. *)
THEOREM CountersDifferByWhatIsUnderWay == Spec => []CountersAgree
BY TypeInit, TypeStep, CountersInit, CountersStep, CountersAre, PTL DEF Spec

-----------------------------------------------------------------------------
(***************************************************************************)
(* One /api/summary response.                                              *)
(***************************************************************************)

(* Whoever counts by kind, or by namespace, counts every resource once. *)
LEMMA TotalOfClasses ==
    ASSUME TypeOK, NEW class, NEW count,
           DOMAIN count = {class[u] : u \in Stored},
           \A v \in DOMAIN count :
               count[v] = Cardinality({u \in Stored : class[u] = v})
    PROVE  Total(count) = Cardinality(Stored)
<1>1. IsFiniteSet(Stored)
  BY KeyAssumption, FS_Subset DEF TypeOK
<1>2. SumOver(count, {class[u] : u \in Stored}) = Cardinality(Stored)
  BY <1>1, SumOfClasses
<1> QED
  BY <1>2 DEF Total, SumOver

LEMMA TotalByKind ==
    ASSUME TypeOK
    PROVE  Total(KindCount) = Cardinality(Stored)
<1>1. PICK class : class = [u \in Stored |-> KeyOf[u].kind]
  OBVIOUS
<1>2. DOMAIN KindCount = {class[u] : u \in Stored}
  BY <1>1 DEF KindCount
<1>3. ASSUME NEW v \in DOMAIN KindCount
      PROVE  KindCount[v] = Cardinality({u \in Stored : class[u] = v})
  <2>1. {u \in Stored : class[u] = v} = OfKind(v)
    BY <1>1 DEF OfKind
  <2> QED
    BY <2>1 DEF KindCount
<1> QED
  BY <1>2, <1>3, TotalOfClasses

LEMMA TotalByNamespace ==
    ASSUME TypeOK
    PROVE  Total(NamespaceCount) = Cardinality(Stored)
<1>1. PICK class : class = [u \in Stored |-> KeyOf[u].ns]
  OBVIOUS
<1>2. DOMAIN NamespaceCount = {class[u] : u \in Stored}
  BY <1>1 DEF NamespaceCount
<1>3. ASSUME NEW v \in DOMAIN NamespaceCount
      PROVE  NamespaceCount[v] = Cardinality({u \in Stored : class[u] = v})
  <2>1. {u \in Stored : class[u] = v} = {u \in Stored : KeyOf[u].ns = v}
    BY <1>1
  <2> QED
    BY <2>1 DEF NamespaceCount
<1> QED
  BY <1>2, <1>3, TotalOfClasses

(* Nothing is counted as stored before a resource is *)
CountedIsStored ==
    /\ stats.items > 0 => Stored # {}
    /\ \A s \in Streams : items[s] > 0 => Stored # {}

Shape(v) == [relTotal |-> v.relTotal, relResolved |-> v.relResolved,
             stats |-> v.stats, byKind |-> v.byKind, byNamespace |-> v.byNamespace]

(* What a response says so far, against what the store holds by now *)
ViewSoFar(r) ==
    /\ view[r] = Shape(view[r])
    /\ view[r].relTotal \in Nat /\ view[r].stats \in Counts
    /\ view[r].relTotal > 0 => Stored # {}
    /\ view[r].stats.items > 0 => Stored # {}
    /\ pc[r] \in {"byNamespace", "done"} =>
          /\ Total(view[r].byKind) \in Nat
          /\ Total(view[r].byKind) <= Cardinality(Stored)
          /\ view[r].stats.items + view[r].relTotal > 0 => Total(view[r].byKind) > 0
    /\ pc[r] = "done" => Total(view[r].byKind) <= Total(view[r].byNamespace)

ViewInv == /\ CountedIsStored
           /\ DOMAIN view = Readers
           /\ \A r \in Readers : pc[r] \in ReaderStates /\ ViewSoFar(r)

LEMMA StoredGrows ==
    ASSUME TypeOK, [Next]_vars
    PROVE  /\ Stored \subseteq Stored'
           /\ Cardinality(Stored) \in Nat /\ Cardinality(Stored') \in Nat
           /\ Cardinality(Stored) <= Cardinality(Stored')
<1>1. Stored \subseteq Stored'
  <2>1. ASSUME NEW s \in Streams, Accept(s) PROVE Stored \subseteq Stored'
    BY <2>1, UpsertEffect, BatchSize DEF Accept, AcceptBatch, Stored
  <2>2. ASSUME NEW s \in Streams, Resolve(s) PROVE Stored \subseteq Stored'
    BY <2>2, ResolveEffect DEF Resolve, Stored
  <2> QED
    BY <2>1, <2>2, OnlyAcceptOrResolve DEF Stored
<1>2. Stored' \subseteq UIDs
  BY TypeStep DEF TypeOK
<1>3. IsFiniteSet(Stored')
  BY <1>2, KeyAssumption, FS_Subset
<1> QED
  BY <1>1, <1>3, FS_Subset, FS_CardinalityType

LEMMA CountedStep ==
    TypeOK /\ CountedIsStored /\ [Next]_vars => CountedIsStored'
<1> SUFFICES ASSUME TypeOK, CountedIsStored, [Next]_vars PROVE CountedIsStored'
  OBVIOUS
<1>0. Stored # {} => Stored' # {}
  BY StoredGrows
<1>1. ASSUME NEW s \in Streams, Accept(s) PROVE CountedIsStored'
  <2>1. PICK b \in Batches : Valid(b) /\ UpsertResources(b.resources)
    BY <1>1 DEF Accept, AcceptBatch
  <2>2. Stored' # {}
    <3>1. b.resources \in SUBSET Observations /\ b.resources # {}
      BY <2>1, BatchSize DEF Valid
    <3>2. Stored' = Stored \cup {o.uid : o \in b.resources}
      BY <2>1, <3>1, UpsertEffect DEF Stored
    <3> QED
      BY <3>1, <3>2
  <2> QED
    BY <2>2 DEF CountedIsStored
<1>2. ASSUME NEW s \in Streams, RecordStream(s) PROVE CountedIsStored'
  <2>1. stats'.items = stats.items + items[s] /\ items' = items
    BY <1>2 DEF RecordStream, localVars
  <2>2. stats.items \in Nat /\ items[s] \in Nat
    BY DEF TypeOK, Counts
  <2>3. stats'.items > 0 => stats.items > 0 \/ items[s] > 0
    BY <2>1, <2>2
  <2> QED
    BY <1>0, <2>1, <2>3 DEF CountedIsStored
<1>3. CASE UNCHANGED <<stats, items>>
  BY <1>0, <1>3 DEF CountedIsStored
<1>4. \/ \E s \in Streams : Accept(s) \/ RecordStream(s)
      \/ UNCHANGED <<stats, items>>
  BY DEF Next, ReportMeta, Finish, Summary, Idle, vars, storeVars, localVars,
         Reject, EndOfStream, Abort, Resolve, Publish, SetTotal, SetResolved,
         CountKinds, SetTracked, Reply, ReadRelationStat, ReadStats,
         ReadKindCount, ReadNamespaceCount
<1> QED
  BY <1>1, <1>2, <1>3, <1>4

(* What a response says stays true of a store that only grows *)
LEMMA ViewStays ==
    ASSUME TypeOK, [Next]_vars, NEW r \in Readers, pc[r] \in ReaderStates, ViewSoFar(r),
           view'[r] = view[r], pc'[r] = pc[r]
    PROVE  pc'[r] \in ReaderStates /\ ViewSoFar(r)'
<1>1. /\ Stored # {} => Stored' # {}
      /\ Cardinality(Stored) \in Nat /\ Cardinality(Stored') \in Nat
      /\ Cardinality(Stored) <= Cardinality(Stored')
  BY StoredGrows
<1>2. Total(view[r].byKind)' = Total(view[r].byKind)
  OBVIOUS
<1>3. Total(view[r].byNamespace)' = Total(view[r].byNamespace)
  OBVIOUS
<1>4. Shape(view[r])' = Shape(view[r])
  BY DEF Shape
<1> HIDE DEF Total
<1> QED
  BY <1>1, <1>2, <1>3, <1>4 DEF ViewSoFar

LEMMA ReadingStep ==
    ASSUME TypeOK, ViewInv, [Next]_vars, NEW r \in Readers, Summary(r)
    PROVE  ViewInv'
<1>0. r \notin Streams /\ pc \in [Streams \cup Readers -> StreamStates \cup ReaderStates]
  BY ProcessAssumption DEF TypeOK
<1>1. /\ UNCHANGED <<resources, stats, items>>
      /\ Stored' = Stored
  BY DEF Summary, ReadRelationStat, ReadStats, ReadKindCount, ReadNamespaceCount,
         storeVars, localVars, Stored
<1>2. PICK v, state :
         /\ view' = [view EXCEPT ![r] = v] /\ pc' = [pc EXCEPT ![r] = state]
  BY DEF Summary, ReadRelationStat, ReadStats, ReadKindCount, ReadNamespaceCount
<1>3. /\ DOMAIN view' = Readers /\ view'[r] = v /\ pc'[r] = state
      /\ \A q \in Readers \ {r} : view'[q] = view[q] /\ pc'[q] = pc[q]
  BY <1>0, <1>2 DEF ViewInv
<1>4. \A q \in Readers \ {r} : pc'[q] \in ReaderStates /\ ViewSoFar(q)'
  BY <1>3, ViewStays DEF ViewInv
<1>5. /\ ViewSoFar(r) /\ view[r] = Shape(view[r])
  BY DEF ViewInv, ViewSoFar
<1>6. Cardinality(Stored) \in Nat /\ IsFiniteSet(Stored)
  BY KeyAssumption, FS_Subset, FS_CardinalityType DEF TypeOK
<1>7. pc'[r] \in ReaderStates /\ ViewSoFar(r)'
  <2>1. CASE ReadRelationStat(r)
    <3>1. /\ v = [Shape(view[r]) EXCEPT !.relTotal = Cardinality(Relations),
                                        !.relResolved = Cardinality(ResolvedRelations)]
          /\ state = "stats"
      BY <1>0, <1>3, <1>5, <2>1 DEF ReadRelationStat, ViewInv
    <3>2. v = Shape(v) /\ v.relTotal = Cardinality(Relations) /\ v.stats = view[r].stats
      BY <3>1 DEF Shape
    <3>3. /\ Cardinality(Relations) \in Nat
          /\ Cardinality(Relations) > 0 => Stored # {}
      <4>1. IsFiniteSet(Relations)
        BY RelationsFinite DEF StoreOK, TypeOK, Stored
      <4>2. Stored = {} => Relations = {}
        BY DEF Relations
      <4> QED
        BY <4>1, <4>2, FS_CardinalityType, FS_EmptySet
    <3> QED
      BY <1>1, <1>3, <1>5, <3>1, <3>2, <3>3 DEF ViewSoFar, ReaderStates, Shape
  <2>2. CASE ReadStats(r)
    <3>1. v = [Shape(view[r]) EXCEPT !.stats = stats] /\ state = "byKind"
      BY <1>0, <1>3, <1>5, <2>2 DEF ReadStats, ViewInv
    <3>2. v = Shape(v) /\ v.relTotal = view[r].relTotal /\ v.stats = stats
      BY <3>1 DEF Shape
    <3>3. stats \in Counts /\ (stats.items > 0 => Stored # {})
      BY DEF TypeOK, ViewInv, CountedIsStored
    <3> QED
      BY <1>1, <1>3, <1>5, <3>1, <3>2, <3>3 DEF ViewSoFar, ReaderStates, Shape
  <2>3. CASE ReadKindCount(r)
    <3>1. v = [Shape(view[r]) EXCEPT !.byKind = KindCount] /\ state = "byNamespace"
      BY <1>0, <1>3, <1>5, <2>3 DEF ReadKindCount, ViewInv
    <3>2. /\ v = Shape(v) /\ v.relTotal = view[r].relTotal /\ v.stats = view[r].stats
          /\ v.byKind = KindCount
      BY <3>1 DEF Shape
    <3>3. PICK n \in Nat : n = Cardinality(Stored) /\ Total(v.byKind) = n
      BY <1>6, <3>2, TotalByKind
    <3>4. Stored # {} => n > 0
      BY <1>6, <3>3, FS_EmptySet
    <3>5. v.stats.items + v.relTotal > 0 => n > 0
      <4>1. v.stats.items \in Nat /\ v.relTotal \in Nat
        BY <1>5, <3>2 DEF ViewSoFar, Counts
      <4>2. v.stats.items > 0 \/ v.relTotal > 0 => Stored # {}
        BY <1>5, <3>2 DEF ViewSoFar
      <4> QED
        BY <3>4, <4>1, <4>2
    <3>6. Total(view[r].byKind)' = n
      BY <1>3, <3>3
    <3> QED
      BY <1>1, <1>3, <1>5, <3>1, <3>2, <3>3, <3>5, <3>6 DEF ViewSoFar, ReaderStates
  <2>4. CASE ReadNamespaceCount(r)
    <3>1. /\ v = [Shape(view[r]) EXCEPT !.byNamespace = NamespaceCount]
          /\ state = "done" /\ pc[r] = "byNamespace"
      BY <1>0, <1>3, <1>5, <2>4 DEF ReadNamespaceCount, ViewInv
    <3>2. /\ v = Shape(v) /\ v.relTotal = view[r].relTotal /\ v.stats = view[r].stats
          /\ v.byKind = view[r].byKind /\ v.byNamespace = NamespaceCount
      BY <3>1 DEF Shape
    <3>3. /\ Total(view[r].byKind)' = Total(view[r].byKind)
          /\ Total(view[r].byNamespace)' = Total(NamespaceCount)
      BY <1>3, <3>2
    <3>4. Total(NamespaceCount) = Cardinality(Stored)
      BY TotalByNamespace
    <3>5. /\ Total(view[r].byKind) \in Nat
          /\ Total(view[r].byKind) <= Cardinality(Stored)
          /\ view[r].stats.items + view[r].relTotal > 0 => Total(view[r].byKind) > 0
      BY <1>5, <3>1 DEF ViewSoFar
    <3> QED
      BY <1>1, <1>3, <1>5, <3>1, <3>2, <3>3, <3>4, <3>5 DEF ViewSoFar, ReaderStates
  <2> QED
    BY <2>1, <2>2, <2>3, <2>4 DEF Summary
<1>8. CountedIsStored'
  BY <1>1 DEF ViewInv, CountedIsStored
<1> QED
  BY <1>3, <1>4, <1>7, <1>8 DEF ViewInv

LEMMA ViewStep == TypeOK /\ ViewInv /\ [Next]_vars => ViewInv'
<1> SUFFICES ASSUME TypeOK, ViewInv, [Next]_vars PROVE ViewInv'
  OBVIOUS
<1>1. ASSUME NEW s \in Streams, ReportMeta(s)
      PROVE  view' = view /\ \A r \in Readers : pc'[r] = pc[r]
  <2>1. view' = view
    BY <1>1 DEF ReportMeta, Finish, Accept, AcceptBatch, Reject, EndOfStream, Abort,
                Resolve, RecordStream, Publish, SetTotal, SetResolved, CountKinds,
                SetTracked, Reply
  <2>2. pc' = pc \/ \E state : pc' = [pc EXCEPT ![s] = state]
    BY <1>1 DEF ReportMeta, Finish, Accept, AcceptBatch, Reject, EndOfStream, Abort,
                Resolve, RecordStream, Publish, SetTotal, SetResolved, CountKinds,
                SetTracked, Reply
  <2>3. \A r \in Readers : r # s
    BY ProcessAssumption
  <2>4. pc \in [Streams \cup Readers -> StreamStates \cup ReaderStates]
    BY DEF TypeOK
  <2> QED
    BY <2>1, <2>2, <2>3, <2>4
<1>2. CASE UNCHANGED vars
  BY <1>2, ViewStays, CountedStep DEF vars, ViewInv
<1>3. ASSUME view' = view /\ \A r \in Readers : pc'[r] = pc[r]
      PROVE  ViewInv'
  BY <1>3, ViewStays, CountedStep DEF ViewInv
<1> QED
  BY <1>1, <1>2, <1>3, ReadingStep DEF Next, Idle

LEMMA ViewInit == Init => ViewInv
<1> SUFFICES ASSUME Init PROVE ViewInv
  OBVIOUS
<1>1. \A r \in Readers : r \notin Streams
  BY ProcessAssumption
<1>2. \A r \in Readers : pc[r] = "relationStat"
  BY <1>1 DEF Init
<1> QED
  BY <1>2 DEF Init, ViewInv, CountedIsStored, ViewSoFar, Shape, NoStats, Counts,
              ReaderStates

(* Within one summary a later part never knows less than an earlier one,
   although the lock is released in between. *)
THEOREM SummariesFitTogether == Spec => []SummaryParts
<1>1. TypeOK /\ ViewInv => SummaryParts
  BY DEF ViewInv, ViewSoFar, SummaryParts
<1> QED
  BY <1>1, TypeInit, TypeStep, ViewInit, ViewStep, PTL DEF Spec

-----------------------------------------------------------------------------
(***************************************************************************)
(* Refinement: the safety part of the ledger.                              *)
(***************************************************************************)

LEMMA LedgerInit == Init => Ledger!Init
BY DEF Init, Ledger!Init, Ledger!Zero, NoStats, StatusOf

LEMMA LedgerStep == TypeOK /\ [Next]_vars => [Ledger!Next]_Ledger!vars
<1> SUFFICES ASSUME TypeOK, [Next]_vars PROVE [Ledger!Next]_Ledger!vars
  OBVIOUS
<1> DEFINE st == [s \in Streams |-> StatusOf(pc[s])]
           ta == [s \in Streams |-> [batches |-> batches[s], items |-> items[s],
                                     rejected |-> rejected[s]]]
<1>a. TypeOK'
  BY TypeStep
<1>1. ASSUME NEW s \in Streams, Accept(s) \/ Reject(s)
      PROVE  Ledger!Take(s)
  <2>1. st[s] = "open" /\ st' = st /\ stats' = stats
    BY <1>1 DEF Accept, AcceptBatch, Reject, StatusOf, storeVars
  <2>2. /\ ta'[s] \in [batches : Nat, items : Nat, rejected : Nat]
        /\ ta'[s].batches >= ta[s].batches
        /\ ta'[s].items >= ta[s].items
        /\ ta'[s].rejected >= ta[s].rejected
    <3>1. CASE Accept(s)
      <4>1. PICK b \in Batches :
               /\ batches' = [batches EXCEPT ![s] = @ + 1]
               /\ items' = [items EXCEPT ![s] = @ + Cardinality(b.resources)]
               /\ rejected' = rejected
        BY <3>1 DEF Accept, AcceptBatch
      <4> QED
        BY <4>1, BatchSize DEF TypeOK
    <3>2. CASE Reject(s)
      <4>1. PICK b \in Batches :
               /\ rejected' = [rejected EXCEPT ![s] = @ + Cardinality(b.resources)]
               /\ UNCHANGED <<batches, items>>
        BY <3>2 DEF Reject
      <4> QED
        BY <4>1, BatchSize DEF TypeOK
    <3> QED
      BY <1>1, <3>1, <3>2
  <2>3. \A t \in Streams : t # s => ta'[t] = ta[t]
    <3>1. CASE Accept(s)
      BY <3>1 DEF Accept, AcceptBatch, TypeOK
    <3>2. CASE Reject(s)
      BY <3>2 DEF Reject, TypeOK
    <3> QED
      BY <1>1, <3>1, <3>2
  <2>4. ta' = [ta EXCEPT ![s] = ta'[s]]
    BY <2>3
  <2> QED
    BY <2>1, <2>2, <2>4 DEF Ledger!Take, Ledger!Tallies
<1>2. ASSUME NEW s \in Streams, EndOfStream(s) PROVE Ledger!Close(s)
  <2>1. st[s] = "open" /\ st' = [st EXCEPT ![s] = "closed"]
    BY <1>2 DEF EndOfStream, StatusOf, TypeOK
  <2> QED
    BY <1>2, <2>1 DEF EndOfStream, Ledger!Close, Ledger!Move, storeVars, localVars
<1>3. ASSUME NEW s \in Streams, Abort(s) PROVE Ledger!Lose(s)
  <2>1. st[s] = "open" /\ st' = [st EXCEPT ![s] = "lost"]
    BY <1>3 DEF Abort, StatusOf, TypeOK
  <2> QED
    BY <1>3, <2>1 DEF Abort, Ledger!Lose, Ledger!Move, storeVars, localVars
<1>4. ASSUME NEW s \in Streams, RecordStream(s) PROVE Ledger!Count(s)
  <2>1. st[s] = "closed" /\ st' = [st EXCEPT ![s] = "counted"]
    BY <1>4 DEF RecordStream, StatusOf, TypeOK
  <2>2. stats' = Ledger!Sum(stats, ta[s]) /\ ta' = ta
    BY <1>4 DEF RecordStream, Ledger!Sum, localVars
  <2> QED
    BY <2>1, <2>2 DEF Ledger!Count, Ledger!Move
<1>5. ASSUME NEW s \in Streams, Reply(s) PROVE Ledger!Answer(s)
  <2>1. st[s] = "counted" /\ st' = [st EXCEPT ![s] = "answered"]
    BY <1>5 DEF Reply, StatusOf, TypeOK
  <2> QED
    BY <1>5, <2>1 DEF Reply, Ledger!Answer, Ledger!Move, storeVars, localVars
<1>6. ASSUME NEW s \in Streams,
             \/ Resolve(s) \/ Publish(s) \/ SetTotal(s) \/ SetResolved(s)
             \/ CountKinds(s) \/ SetTracked(s)
      PROVE  UNCHANGED Ledger!vars
  <2>1. UNCHANGED <<stats, batches, items, rejected>>
    BY <1>6 DEF Resolve, Publish, SetTotal, SetResolved, CountKinds, SetTracked,
                storeVars, localVars
  <2>2. StatusOf(pc'[s]) = StatusOf(pc[s])
        /\ \A t \in Streams : t # s => pc'[t] = pc[t]
    BY <1>6 DEF Resolve, Publish, SetTotal, SetResolved, CountKinds, SetTracked,
                StatusOf, TypeOK
  <2>3. st' = st
    BY <2>2
  <2> QED
    BY <2>1, <2>3 DEF Ledger!vars
<1>7. ASSUME NEW r \in Readers, Summary(r) PROVE UNCHANGED Ledger!vars
  <2>1. \A t \in Streams : pc'[t] = pc[t]
    BY <1>7, ProcessAssumption
       DEF Summary, ReadRelationStat, ReadStats, ReadKindCount,
           ReadNamespaceCount, TypeOK
  <2> QED
    BY <1>7, <2>1 DEF Summary, ReadRelationStat, ReadStats, ReadKindCount,
           ReadNamespaceCount, storeVars, localVars, Ledger!vars
<1>8. CASE UNCHANGED vars
  BY <1>8 DEF vars, storeVars, localVars, Ledger!vars
<1> QED
  BY <1>1, <1>2, <1>3, <1>4, <1>5, <1>6, <1>7, <1>8
     DEF Next, ReportMeta, Finish, Idle, Ledger!Next

(* Store.stats.Meta is a ledger of the ReportMeta streams: each stream that
   ends cleanly is added once, before its client is answered, and a stream
   that was cut off is never added. *)
THEOREM StatsAreALedger == Spec => Ledger!Init /\ [][Ledger!Next]_Ledger!vars
BY TypeInit, TypeStep, LedgerInit, LedgerStep, PTL DEF Spec

-----------------------------------------------------------------------------
(***************************************************************************)
(* GET /api/resources while streams store and resolve.                     *)
(***************************************************************************)

(* Somebody holds the key, or the agent gave the UID *)
HasTarget(u, k) == Holders(k) # {} \/ \E uid \in UIDs : Given(<<u, k>>, uid)

IsTrue(u, k, link) == /\ link.uid # NoUID => KeyOf[link.uid] = k
                      /\ link.resolved => HasTarget(u, k)

(* Also of the links that are not resolved: they may be read one word at a
   time, each word at another moment. *)
StoreIsTrue ==
    \A u \in Stored : \A k \in DOMAIN resources[u] : IsTrue(u, k, resources[u][k])

(* A request reads only slices that exist, and what they say is true *)
ReadingIsTrue(l) ==
    \A r \in todo[l] :
        /\ r \in Stored \X Keys
        /\ r[1] \notin DOMAIN detached[l] => r[2] \in DOMAIN resources[r[1]]
        /\ IsTrue(r[1], r[2], InMemory(l, r))

(* The words read so far are words of the relation being encoded *)
WordsAreTrue(l) ==
    LET r == Current(l) IN
    /\ DOMAIN word[l] # {} => todo[l] # {}
    /\ "pointer" \in DOMAIN word[l] =>
           (word[l]["pointer"] # NoUID => KeyOf[word[l]["pointer"]] = r[2])
    /\ "resolved" \in DOMAIN word[l] =>
           (word[l]["resolved"] => HasTarget(r[1], r[2]))

ShownIsTrue(l) ==
    \A r \in DOMAIN shown[l] : IsTrue(r[1], r[2], shown[l][r])

ListTypeOK ==
    /\ DOMAIN lister = Listers /\ DOMAIN detached = Listers
    /\ DOMAIN todo = Listers /\ DOMAIN word = Listers /\ DOMAIN shown = Listers

Unread(l) == lister[l] = "request" => /\ DOMAIN detached[l] = {}
                                      /\ DOMAIN word[l] = {}

ListInv ==
    /\ ListTypeOK
    /\ \A l \in Listers :
          /\ Unread(l)
          /\ lister[l] = "encoding" => ReadingIsTrue(l)
          /\ lister[l] = "encoding" => WordsAreTrue(l)
          /\ ShownIsTrue(l)

(* A listing changes nothing of the server: what holds of every behaviour of
   the server holds while it is listed. *)
LEMMA ListingIsServing == [ListingNext]_allVars => [Next]_vars
<1> SUFFICES ASSUME [ListingNext]_allVars PROVE [Next]_vars
  OBVIOUS
<1>1. ASSUME NEW s \in Streams, Store(s) PROVE Next
  BY <1>1 DEF Store, Next, ReportMeta, Accept
<1>2. ASSUME NEW r \in Readers, Summarise(r) PROVE Next
  BY <1>2 DEF Summarise, Next
<1>3. ASSUME NEW l \in Listers, List(l) PROVE UNCHANGED vars
  BY <1>3 DEF List, Snapshot, ReadWord, Encode, EncodeTorn, EndListing
<1>4. CASE ListingIdle \/ UNCHANGED allVars
  BY <1>4 DEF ListingIdle, allVars
<1> QED
  BY <1>1, <1>2, <1>3, <1>4 DEF ListingNext

(* No resource is ever dropped, so a target once there stays *)
LEMMA TargetsStay ==
    ASSUME [Next]_vars, NEW u, NEW k, HasTarget(u, k)
    PROVE  HasTarget(u, k)'
<1>1. Stored \subseteq Stored'
  <2>1. ASSUME NEW s \in Streams, Accept(s) PROVE Stored \subseteq Stored'
    BY <2>1, UpsertEffect, BatchSize DEF Accept, AcceptBatch, Stored
  <2>2. ASSUME NEW s \in Streams, Resolve(s) PROVE Stored \subseteq Stored'
    BY <2>2, ResolveEffect DEF Resolve, Stored
  <2> QED
    BY <2>1, <2>2, OnlyAcceptOrResolve DEF Stored
<1> QED
  BY <1>1 DEF HasTarget, Holders, Given

LEMMA TruthStays ==
    ASSUME [Next]_vars, NEW u, NEW k, NEW link, IsTrue(u, k, link)
    PROVE  /\ link.uid # NoUID => KeyOf[link.uid] = k
           /\ link.resolved => HasTarget(u, k)'
BY TargetsStay DEF IsTrue

(* What ResolveRelations writes is true of the relation it is written to *)
LEMMA ResolvedIsTrue ==
    ASSUME NEW ix \in Indexes, ResolveRelations(ix), NEW u, NEW k,
           NEW link, IsTrue(u, k, link)
    PROVE  /\ Resolved(link, k, ix).uid # NoUID
                  => KeyOf[Resolved(link, k, ix).uid] = k
           /\ Resolved(link, k, ix).resolved => HasTarget(u, k)'
<1>1. CASE k \in DOMAIN ix
  <2>1. ix[k] \in Stored' /\ KeyOf[ix[k]] = k
    BY <1>1, ResolveEffect DEF Stored
  <2> QED
    BY <1>1, <2>1 DEF Resolved, HasTarget, Holders
<1>2. CASE k \notin DOMAIN ix
  BY <1>2 DEF Resolved, IsTrue
<1> QED
  BY <1>1, <1>2

LEMMA StoreTrueStep == TypeOK /\ StoreIsTrue /\ [Next]_vars => StoreIsTrue'
<1> SUFFICES ASSUME TypeOK, StoreIsTrue, [Next]_vars,
                    NEW u \in Stored', NEW k \in DOMAIN resources'[u]
             PROVE  /\ resources'[u][k].uid # NoUID => KeyOf[resources'[u][k].uid] = k
                    /\ resources'[u][k].resolved => HasTarget(u, k)'
  BY DEF StoreIsTrue, IsTrue
<1>1. ASSUME NEW s \in Streams, Resolve(s)
      PROVE  /\ resources'[u][k].uid # NoUID => KeyOf[resources'[u][k].uid] = k
             /\ resources'[u][k].resolved => HasTarget(u, k)'
  <2>1. PICK ix \in Indexes : ResolveRelations(ix)
    BY <1>1 DEF Resolve
  <2>2. /\ u \in Stored /\ k \in DOMAIN resources[u]
        /\ resources'[u][k] = Resolved(resources[u][k], k, ix)
    BY <2>1, ResolveEffect DEF Stored
  <2>3. IsTrue(u, k, resources[u][k])
    BY <2>2 DEF StoreIsTrue
  <2> HIDE DEF IsTrue
  <2> QED
    BY <2>1, <2>2, <2>3, ResolvedIsTrue
<1>2. CASE u \in Stored /\ resources'[u] = resources[u]
  BY <1>2, TruthStays DEF StoreIsTrue
<1>3. ASSUME NEW o \in Observations, o.uid = u, resources'[u] = ToResource(o)
      PROVE  /\ resources'[u][k].uid # NoUID => KeyOf[resources'[u][k].uid] = k
             /\ resources'[u][k].resolved => HasTarget(u, k)'
  <2>1. /\ k \in DOMAIN o.refs /\ resources'[u][k].uid = o.refs[k]
        /\ resources'[u][k].resolved <=> o.refs[k] # NoUID
    BY <1>3, ToResourceType
  <2> QED
    BY <1>3, <2>1, ObservationAssumption DEF HasTarget, Given
<1>4. ASSUME NEW s \in Streams, Accept(s)
      PROVE  \/ u \in Stored /\ resources'[u] = resources[u]
             \/ \E o \in Observations : o.uid = u /\ resources'[u] = ToResource(o)
  <2>1. PICK b \in Batches : UpsertResources(b.resources)
    BY <1>4 DEF Accept, AcceptBatch
  <2>2. b.resources \in SUBSET Observations
    BY BatchSize
  <2>3. \/ u \in DOMAIN resources /\ resources'[u] = resources[u]
        \/ \E o \in b.resources : o.uid = u /\ resources'[u] = ToResource(o)
    BY <2>1, <2>2, UpsertEffect DEF Stored
  <2> QED
    BY <2>2, <2>3 DEF Stored
<1> QED
  BY <1>1, <1>2, <1>3, <1>4, OnlyAcceptOrResolve DEF Stored

(* A request that is encoding goes on reading what it read before: memory it
   holds alone, or the store, which only ResolveRelations writes in place. *)
LEMMA MemoryStays ==
    ASSUME ListInv, StoreIsTrue, [Next]_vars, NEW l \in Listers,
           lister[l] = "encoding",
           UNCHANGED <<lister, todo>>,
           \/ \E s \in Streams, b \in Batches :
                 AcceptBatch(s, b) /\ Detach({o.uid : o \in b.resources})
           \/ /\ UNCHANGED detached
              /\ UNCHANGED resources \/ \E s \in Streams : Resolve(s)
    PROVE  ReadingIsTrue(l)'
<1> SUFFICES ASSUME NEW r \in todo[l]
             PROVE  /\ r \in Stored' \X Keys
                    /\ r[1] \notin DOMAIN detached'[l] => r[2] \in DOMAIN resources'[r[1]]
                    /\ IsTrue(r[1], r[2], InMemory(l, r))'
  BY DEF ReadingIsTrue
<1>1. /\ r \in Stored \X Keys
      /\ r[1] \notin DOMAIN detached[l] => r[2] \in DOMAIN resources[r[1]]
      /\ IsTrue(r[1], r[2], InMemory(l, r))
  BY DEF ListInv, ReadingIsTrue
<1>2. ASSUME NEW s \in Streams, NEW b \in Batches,
             AcceptBatch(s, b), Detach({o.uid : o \in b.resources})
      PROVE  /\ r \in Stored' \X Keys
             /\ r[1] \notin DOMAIN detached'[l] => r[2] \in DOMAIN resources'[r[1]]
             /\ InMemory(l, r)' = InMemory(l, r)
  <2> DEFINE new == {o.uid : o \in b.resources}
  <2>1. Stored' = Stored \cup new
        /\ \A u \in Stored \ new : resources'[u] = resources[u]
    BY <1>2 DEF AcceptBatch, UpsertResources, Stored
  <2>2. /\ DOMAIN detached'[l] = DOMAIN detached[l]
                                    \cup (new \cap {q[1] : q \in todo[l]})
        /\ \A u \in DOMAIN detached'[l] :
              detached'[l][u] = IF u \in DOMAIN detached[l] THEN detached[l][u]
                                                            ELSE resources[u]
    BY <1>2 DEF Detach
  <2>3. r[1] \notin DOMAIN detached'[l] =>
            r[1] \notin DOMAIN detached[l] /\ r[1] \notin new
    BY <2>2
  <2>4. CASE r[1] \in DOMAIN detached'[l]
    <3>1. detached'[l][r[1]][r[2]] = InMemory(l, r)
      BY <2>2, <2>4 DEF InMemory
    <3> QED
      BY <1>1, <2>1, <2>4, <3>1 DEF InMemory
  <2>5. CASE r[1] \notin DOMAIN detached'[l]
    <3>1. resources'[r[1]] = resources[r[1]] /\ r \in Stored' \X Keys
      BY <1>1, <2>1, <2>3, <2>5
    <3> QED
      BY <1>1, <2>3, <2>5, <3>1 DEF InMemory
  <2> QED
    BY <2>4, <2>5
<1>3. ASSUME UNCHANGED <<resources, detached>>
      PROVE  /\ r \in Stored' \X Keys
             /\ r[1] \notin DOMAIN detached'[l] => r[2] \in DOMAIN resources'[r[1]]
             /\ InMemory(l, r)' = InMemory(l, r)
  BY <1>1, <1>3 DEF InMemory, Stored
<1>4. ASSUME UNCHANGED detached, NEW s \in Streams, Resolve(s)
      PROVE  /\ r \in Stored' \X Keys
             /\ r[1] \notin DOMAIN detached'[l] => r[2] \in DOMAIN resources'[r[1]]
             /\ IsTrue(r[1], r[2], InMemory(l, r))'
  <2>1. PICK ix \in Indexes : ResolveRelations(ix)
    BY <1>4 DEF Resolve
  <2>2. /\ r \in Stored' \X Keys
        /\ r[1] \notin DOMAIN detached'[l] => r[2] \in DOMAIN resources'[r[1]]
    BY <1>1, <1>4, <2>1, ResolveEffect DEF Stored
  <2>3. CASE r[1] \in DOMAIN detached[l]
    <3>1. InMemory(l, r)' = InMemory(l, r)
      BY <1>4, <2>3 DEF InMemory
    <3> QED
      BY <1>1, <2>2, <3>1, TruthStays DEF IsTrue
  <2>4. CASE r[1] \notin DOMAIN detached[l]
    <3>1. InMemory(l, r)' = Resolved(InMemory(l, r), r[2], ix)
      <4>1. r[1] \in DOMAIN resources /\ r[2] \in DOMAIN resources[r[1]]
        BY <1>1, <2>4 DEF Stored
      <4>2. resources'[r[1]][r[2]] = Resolved(resources[r[1]][r[2]], r[2], ix)
        BY <2>1, <4>1, ResolveEffect
      <4> QED
        BY <1>4, <2>4, <4>2 DEF InMemory
    <3>2. /\ Resolved(InMemory(l, r), r[2], ix).uid # NoUID
                => KeyOf[Resolved(InMemory(l, r), r[2], ix).uid] = r[2]
          /\ Resolved(InMemory(l, r), r[2], ix).resolved => HasTarget(r[1], r[2])'
      BY <1>1, <2>1, ResolvedIsTrue
    <3> QED
      BY <2>2, <3>1, <3>2 DEF IsTrue
  <2> QED
    BY <2>2, <2>3, <2>4
<1>5. ASSUME InMemory(l, r)' = InMemory(l, r)
      PROVE  IsTrue(r[1], r[2], InMemory(l, r))'
  BY <1>1, <1>5, TruthStays DEF IsTrue
<1> QED
  BY <1>2, <1>3, <1>4, <1>5

(* Words read of a relation stay true while it is being encoded *)
LEMMA WordsStay ==
    ASSUME [Next]_vars, NEW l \in Listers, WordsAreTrue(l),
           UNCHANGED <<lister, todo, word>>
    PROVE  WordsAreTrue(l)'
<1>1. Current(l)' = Current(l)
  BY DEF Current
<1> QED
  BY <1>1, TargetsStay DEF WordsAreTrue

LEMMA ShownStays ==
    ASSUME [Next]_vars, NEW l \in Listers, ShownIsTrue(l), UNCHANGED shown
    PROVE  ShownIsTrue(l)'
BY TargetsStay DEF ShownIsTrue, IsTrue

(* What a handler or a summary does to the listings: nothing, or Detach *)
LEMMA ServingStep ==
    ASSUME TypeOK, ListInv, StoreIsTrue, [Next]_vars,
           \/ \E s \in Streams, b \in Batches :
                 AcceptBatch(s, b) /\ Detach({o.uid : o \in b.resources})
           \/ /\ UNCHANGED listVars
              /\ UNCHANGED resources \/ \E s \in Streams : Resolve(s)
    PROVE  ListInv'
<1>1. UNCHANGED <<lister, todo, word, shown>>
  BY DEF Detach, listVars
<1>2. DOMAIN detached' = Listers
      /\ \A l \in Listers : lister[l] # "encoding" => detached'[l] = detached[l]
  BY DEF ListInv, ListTypeOK, Detach, listVars
<1>3. ASSUME NEW l \in Listers
      PROVE  /\ Unread(l)'
             /\ (lister[l] = "encoding" => ReadingIsTrue(l))'
             /\ (lister[l] = "encoding" => WordsAreTrue(l))'
             /\ ShownIsTrue(l)'
  <2>1. Unread(l)'
    BY <1>1, <1>2 DEF ListInv, Unread
  <2>2. ASSUME lister[l] = "encoding" PROVE ReadingIsTrue(l)'
    BY <1>1, <2>2, MemoryStays DEF listVars
  <2>3. ASSUME lister[l] = "encoding" PROVE WordsAreTrue(l)'
    BY <1>1, <2>3, WordsStay DEF ListInv
  <2>4. ShownIsTrue(l)'
    BY <1>1, ShownStays DEF ListInv
  <2> QED
    BY <1>1, <2>1, <2>2, <2>3, <2>4
<1> QED
  BY <1>1, <1>2, <1>3 DEF ListInv, ListTypeOK

LEMMA SnapshotStep ==
    ASSUME TypeOK, ListInv, StoreIsTrue, NEW l \in Listers, Snapshot(l)
    PROVE  ListInv'
<1> USE DEF ListInv, ListTypeOK
<1>1. /\ lister[l] = "request" /\ lister' = [lister EXCEPT ![l] = "encoding"]
      /\ UNCHANGED <<resources, detached, word, shown>>
  BY DEF Snapshot, FirstRequest, vars, storeVars
<1>2. PICK f \in Filters :
         todo' = [todo EXCEPT ![l] = {r \in Relations : Passes(f, KeyOf[r[1]])}]
  BY DEF Snapshot
<1>3. DOMAIN detached[l] = {} /\ DOMAIN word[l] = {}
  BY <1>1 DEF Unread
<1>4. ReadingIsTrue(l)'
  <2> SUFFICES ASSUME NEW r \in Relations
               PROVE  /\ r \in Stored \X Keys
                      /\ r[2] \in DOMAIN resources[r[1]]
                      /\ IsTrue(r[1], r[2], InMemory(l, r))'
    BY <1>1, <1>2 DEF ReadingIsTrue, Stored
  <2>1. r \in Stored \X Keys /\ r[2] \in DOMAIN resources[r[1]]
    BY DEF Relations
  <2>2. InMemory(l, r)' = resources[r[1]][r[2]]
    BY <1>1, <1>3 DEF InMemory
  <2>3. IsTrue(r[1], r[2], resources[r[1]][r[2]])
    BY <2>1 DEF StoreIsTrue
  <2> QED
    BY <1>1, <2>1, <2>2, <2>3 DEF IsTrue, HasTarget, Holders, Stored
<1>5. WordsAreTrue(l)'
  BY <1>1, <1>3 DEF WordsAreTrue
<1>6. \A m \in Listers : ShownIsTrue(m)'
  BY <1>1 DEF ShownIsTrue, IsTrue, HasTarget, Holders, Stored
<1>7. ASSUME NEW m \in Listers, m # l
      PROVE  /\ Unread(m)'
             /\ (lister[m] = "encoding" => ReadingIsTrue(m))'
             /\ (lister[m] = "encoding" => WordsAreTrue(m))'
  <2>1. lister'[m] = lister[m] /\ todo'[m] = todo[m]
    BY <1>1, <1>2, <1>7
  <2> QED
    BY <1>1, <2>1 DEF Unread, ReadingIsTrue, WordsAreTrue, Current, InMemory,
                      IsTrue, HasTarget, Holders, Stored
<1> QED
  BY <1>1, <1>2, <1>4, <1>5, <1>6, <1>7 DEF Unread

(* What is said of one request is untouched by a step of another *)
LEMMA OthersStay ==
    ASSUME ListInv, UNCHANGED <<resources, detached>>, NEW m \in Listers,
           /\ lister'[m] = lister[m] /\ todo'[m] = todo[m]
           /\ word'[m] = word[m] /\ shown'[m] = shown[m]
    PROVE  /\ Unread(m)'
           /\ (lister[m] = "encoding" => ReadingIsTrue(m))'
           /\ (lister[m] = "encoding" => WordsAreTrue(m))'
           /\ ShownIsTrue(m)'
<1> USE DEF ListInv
<1>1. Current(m)' = Current(m)
  BY DEF Current
<1>2. \A u, k : HasTarget(u, k)' <=> HasTarget(u, k)
  BY DEF HasTarget, Holders, Stored
<1>3. \A r : InMemory(m, r)' = InMemory(m, r)
  BY DEF InMemory
<1>4. Unread(m)'
  BY DEF Unread
<1>5. (lister[m] = "encoding" => ReadingIsTrue(m))'
  BY <1>2, <1>3 DEF ReadingIsTrue, IsTrue, Stored
<1>6. (lister[m] = "encoding" => WordsAreTrue(m))'
  BY <1>1, <1>2 DEF WordsAreTrue
<1>7. ShownIsTrue(m)'
  BY <1>2 DEF ShownIsTrue, IsTrue
<1> QED
  BY <1>4, <1>5, <1>6, <1>7

LEMMA CurrentIsReal ==
    ASSUME NEW l, todo[l] # {}
    PROVE  Current(l) \in todo[l]
BY DEF Current

LEMMA ReadWordStep ==
    ASSUME ListInv, NEW l \in Listers, ReadWord(l)
    PROVE  ListInv'
<1> DEFINE r == Current(l)
<1>1. /\ lister[l] = "encoding" /\ todo[l] # {}
      /\ UNCHANGED <<resources, lister, detached, todo, shown>>
  BY DEF ReadWord, vars, storeVars
<1>2. PICK w \in Words \ DOMAIN word[l] :
         word' = [word EXCEPT ![l] = [x \in DOMAIN @ \cup {w} |->
             IF x # w THEN @[x]
             ELSE CASE w = "pointer" -> InMemory(l, r).uid
                    [] w = "length" -> InMemory(l, r).uid # NoUID
                    [] w = "resolved" -> InMemory(l, r).resolved]]
  BY DEF ReadWord
<1>3. IsTrue(r[1], r[2], InMemory(l, r))
  BY <1>1, CurrentIsReal DEF ListInv, ReadingIsTrue
<1>4. Current(l)' = Current(l)
  BY <1>1 DEF Current
<1>5. \A x \in DOMAIN word[l] : x \in DOMAIN word'[l] /\ word'[l][x] = word[l][x]
  BY <1>2 DEF ListInv, ListTypeOK
<1>6. DOMAIN word'[l] = DOMAIN word[l] \cup {w}
  BY <1>2 DEF ListInv, ListTypeOK
<1>7. w = "pointer" => word'[l][w] = InMemory(l, r).uid
  BY <1>2 DEF ListInv, ListTypeOK
<1>8. w = "resolved" => word'[l][w] = InMemory(l, r).resolved
  BY <1>2 DEF ListInv, ListTypeOK
<1>9. "pointer" \in DOMAIN word'[l] =>
          (word'[l]["pointer"] # NoUID => KeyOf[word'[l]["pointer"]] = r[2])
  BY <1>1, <1>3, <1>5, <1>6, <1>7 DEF ListInv, WordsAreTrue, IsTrue
<1>10. "resolved" \in DOMAIN word'[l] =>
          (word'[l]["resolved"] => HasTarget(r[1], r[2]))
  BY <1>1, <1>3, <1>5, <1>6, <1>8 DEF ListInv, WordsAreTrue, IsTrue
<1>11. HasTarget(r[1], r[2])' <=> HasTarget(r[1], r[2])
  BY <1>1, <1>4 DEF HasTarget, Holders, Stored
<1>12. WordsAreTrue(l)'
  BY <1>1, <1>4, <1>9, <1>10, <1>11 DEF WordsAreTrue
<1>13. /\ Unread(l)' /\ ReadingIsTrue(l)' /\ ShownIsTrue(l)'
  BY <1>1 DEF ListInv, Unread, ReadingIsTrue, ShownIsTrue, InMemory,
              IsTrue, HasTarget, Holders, Stored
<1>14. \A m \in Listers \ {l} : word'[m] = word[m]
  BY <1>2 DEF ListInv, ListTypeOK
<1>15. ASSUME NEW m \in Listers, m # l
       PROVE  /\ Unread(m)'
              /\ (lister[m] = "encoding" => ReadingIsTrue(m))'
              /\ (lister[m] = "encoding" => WordsAreTrue(m))'
              /\ ShownIsTrue(m)'
  BY <1>1, <1>14, <1>15, OthersStay
<1>16. ListTypeOK'
  BY <1>1, <1>2 DEF ListInv, ListTypeOK
<1> QED
  BY <1>12, <1>13, <1>15, <1>16 DEF ListInv

LEMMA EncodeStep ==
    ASSUME ListInv, NEW l \in Listers, Encode(l)
    PROVE  ListInv'
<1>1. /\ lister[l] = "encoding" /\ DOMAIN word[l] = Words
      /\ word' = [word EXCEPT ![l] = NoLinks]
      /\ todo' = [todo EXCEPT ![l] = @ \ {Current(l)}]
      /\ UNCHANGED <<resources, lister, detached>>
  BY DEF Encode, vars, storeVars
<1>2. PICK r : r = Current(l)
  OBVIOUS
<1>3. /\ DOMAIN shown'[l] = DOMAIN shown[l] \cup {r}
      /\ \A q \in DOMAIN shown[l] : q # r => shown'[l][q] = shown[l][q]
      /\ shown'[l][r].uid = IF word[l].length THEN word[l].pointer ELSE NoUID
      /\ shown'[l][r].resolved = word[l].resolved
      /\ \A m \in Listers \ {l} : shown'[m] = shown[m]
      /\ DOMAIN shown' = Listers
  BY <1>2 DEF Encode, ListInv, ListTypeOK
<1>4. /\ word[l]["pointer"] # NoUID => KeyOf[word[l]["pointer"]] = r[2]
      /\ word[l]["resolved"] => HasTarget(r[1], r[2])
  BY <1>1, <1>2 DEF ListInv, WordsAreTrue, Words
<1>5. IsTrue(r[1], r[2], shown'[l][r])
  BY <1>3, <1>4 DEF IsTrue
<1>6. \A q \in DOMAIN shown[l] : IsTrue(q[1], q[2], shown[l][q])
  BY DEF ListInv, ShownIsTrue
<1>7. \A q \in DOMAIN shown'[l] : IsTrue(q[1], q[2], shown'[l][q])
  BY <1>3, <1>5, <1>6
<1>8. ShownIsTrue(l)'
  BY <1>1, <1>7 DEF ShownIsTrue, IsTrue, HasTarget, Holders, Stored
<1>9. ReadingIsTrue(l)' /\ Unread(l)'
  BY <1>1 DEF ListInv, ListTypeOK, ReadingIsTrue, Unread, InMemory,
              IsTrue, HasTarget, Holders, Stored
<1>10. WordsAreTrue(l)'
  BY <1>1 DEF WordsAreTrue, NoLinks, ListInv, ListTypeOK
<1>11. ASSUME NEW m \in Listers, m # l
       PROVE  /\ Unread(m)'
              /\ (lister[m] = "encoding" => ReadingIsTrue(m))'
              /\ (lister[m] = "encoding" => WordsAreTrue(m))'
              /\ ShownIsTrue(m)'
  <2>1. /\ lister'[m] = lister[m] /\ todo'[m] = todo[m]
        /\ word'[m] = word[m] /\ shown'[m] = shown[m]
    BY <1>1, <1>3, <1>11 DEF ListInv, ListTypeOK
  <2> QED
    BY <1>1, <2>1, OthersStay
<1>12. ListTypeOK'
  BY <1>1, <1>3 DEF ListInv, ListTypeOK
<1> QED
  BY <1>8, <1>9, <1>10, <1>11, <1>12 DEF ListInv

LEMMA ListStep ==
    TypeOK /\ StoreIsTrue /\ ListInv /\ [ListingNext]_allVars => ListInv'
<1> SUFFICES ASSUME TypeOK, StoreIsTrue, ListInv, [ListingNext]_allVars
             PROVE  ListInv'
  OBVIOUS
<1>1. [Next]_vars
  BY ListingIsServing
<1>2. ASSUME NEW s \in Streams, Store(s) PROVE ListInv'
  <2>1. CASE \E b \in Batches : /\ AcceptBatch(s, b)
                                /\ Detach({o.uid : o \in b.resources})
    BY <1>1, <2>1, ServingStep
  <2>2. CASE /\ Reject(s) \/ EndOfStream(s) \/ Abort(s) \/ Finish(s)
             /\ UNCHANGED listVars
    <3>1. UNCHANGED resources \/ Resolve(s)
      BY <2>2 DEF Reject, EndOfStream, Abort, Finish, RecordStream, Publish, SetTotal,
                  SetResolved, CountKinds, SetTracked, Reply, storeVars
    <3> QED
      BY <1>1, <2>2, <3>1, ServingStep
  <2> QED
    BY <1>2, <2>1, <2>2 DEF Store
<1>3. ASSUME NEW r \in Readers, Summarise(r) PROVE ListInv'
  <2>1. UNCHANGED listVars /\ UNCHANGED resources
    BY <1>3 DEF Summarise, Summary, ReadRelationStat, ReadStats, ReadKindCount,
                ReadNamespaceCount, storeVars
  <2> QED
    BY <1>1, <2>1, ServingStep
<1>4. ASSUME NEW l \in Listers, List(l) PROVE ListInv'
  <2>1. CASE EncodeTorn(l) \/ EndListing(l)
    <3>1. /\ UNCHANGED <<resources, detached, todo, word, shown>>
          /\ lister[l] = "encoding"
          /\ lister' = [lister EXCEPT ![l] = "cut"] \/ lister' = [lister EXCEPT ![l] = "done"]
      BY <2>1 DEF EncodeTorn, EndListing, vars, storeVars
    <3>2. \A m \in Listers \ {l} : lister'[m] = lister[m]
      BY <3>1 DEF ListInv, ListTypeOK
    <3>3. ASSUME NEW m \in Listers, m # l
          PROVE  /\ Unread(m)'
                 /\ (lister[m] = "encoding" => ReadingIsTrue(m))'
                 /\ (lister[m] = "encoding" => WordsAreTrue(m))'
                 /\ ShownIsTrue(m)'
      BY <3>1, <3>2, <3>3, OthersStay
    <3>4. lister'[l] \in {"cut", "done"}
      BY <3>1 DEF ListInv, ListTypeOK
    <3>5. Unread(l)' /\ ShownIsTrue(l)'
      BY <3>1, <3>4 DEF ListInv, Unread, ShownIsTrue, IsTrue, HasTarget, Holders, Stored
    <3>6. ListTypeOK'
      BY <3>1 DEF ListInv, ListTypeOK
    <3> QED
      BY <3>3, <3>4, <3>5, <3>6 DEF ListInv
  <2> QED
    BY <1>4, <2>1, SnapshotStep, ReadWordStep, EncodeStep DEF List
<1>5. CASE ListingIdle \/ UNCHANGED allVars
  <2>1. UNCHANGED listVars /\ UNCHANGED resources
    BY <1>5 DEF ListingIdle, allVars, vars, storeVars
  <2> QED
    BY <1>1, <2>1, ServingStep
<1> QED
  BY <1>2, <1>3, <1>4, <1>5 DEF ListingNext

LEMMA ListInit == ListingInit => ListInv /\ StoreIsTrue
BY DEF ListingInit, Init, ListInv, ListTypeOK, Unread, ReadingIsTrue, WordsAreTrue,
       ShownIsTrue, StoreIsTrue, Stored, NoLinks

(* No response of /api/resources names a resource its relation is not about,
   or calls a relation resolved that has no target, although the encoder
   reads the words of a link while ResolveRelations writes them. *)
THEOREM ListingsAreTrue == ListingSpec => []ListedIsTrue
<1>1. ListingInit => Init
  BY DEF ListingInit
<1>2. ListInv => ListedIsTrue
  BY DEF ListInv, ShownIsTrue, IsTrue, HasTarget, ListedIsTrue, Given
<1> QED
  BY <1>1, <1>2, TypeInit, TypeStep, ListingIsServing, ListInit, ListStep,
     StoreTrueStep, PTL DEF ListingSpec
=============================================================================
