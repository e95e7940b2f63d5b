----------------------------- MODULE MetaIngest -----------------------------
(***************************************************************************)
(* The resource half of the collector server: the ReportMeta handler       *)
(* (src/internal/server/server.go), the resources, relations and stream    *)
(* statistics it keeps in the Store (src/internal/store/store.go), the     *)
(* Prometheus series it writes (src/internal/metrics/metrics.go) and the   *)
(* /api/summary handler that reads them back (src/internal/api/api.go).    *)
(*                                                                         *)
(* gRPC runs one goroutine per stream and net/http one per request.  A     *)
(* step is what one goroutine does under one acquisition of Store.mu, or   *)
(* one operation on one Prometheus series: those are atomic in the code,   *)
(* and everything in between can interleave.                               *)
(***************************************************************************)
EXTENDS Integers, FiniteSets, FiniteSetsExt, Functions

CONSTANTS
    Streams,        \* ReportMeta calls; each is one run of the handler
    Readers,        \* GET /api/summary requests; each is one run of the handler
    UIDs,           \* the UIDs the API server hands out
    Keys,           \* ns|kind|name, as records
    KeyOf,          \* the resource a UID belongs to: never changes, never reused
    Observations,   \* what CollectMeta can report: [uid, refs], see below
    Batches,        \* the MetaBatch messages a client may send
    MaxBatches,     \* bound: messages per stream
    NoUID,          \* the empty target_uid
    NoAgent         \* the empty agent_id

(***************************************************************************)
(* refs maps the key of every relation of the resource to the target_uid   *)
(* the agent filled in: the owner's UID for an ownerReference, NoUID for   *)
(* a reference by name.  CollectMeta reports no key twice for a resource.  *)
(***************************************************************************)
ASSUME ProcessAssumption == IsFiniteSet(Streams) /\ Streams \cap Readers = {}

ASSUME KeyAssumption ==
    /\ IsFiniteSet(UIDs) /\ IsFiniteSet(Keys)    \* of any size
    /\ Keys \subseteq [ns : STRING, kind : STRING, name : STRING]
    /\ KeyOf \in [UIDs -> Keys]
    /\ NoUID \notin UIDs

ASSUME ObservationAssumption ==
    \A o \in Observations :
        /\ o.uid \in UIDs
        /\ DOMAIN o.refs \subseteq Keys
        /\ \A k \in DOMAIN o.refs :
               o.refs[k] # NoUID => o.refs[k] \in UIDs /\ KeyOf[o.refs[k]] = k

ASSUME BatchAssumption ==
    \A b \in Batches :
        /\ b.resources \subseteq Observations
        /\ \A o, p \in b.resources : o.uid = p.uid => o = p
        /\ b.collectedAt \in {"absent", "past", "future"}

ASSUME BoundAssumption == MaxBatches \in Nat

VARIABLES
    resources,          \* Store.resources: uid -> key of relation -> link
    stats,              \* Store.stats.Meta
    promReceived,       \* collector_{batches,items}_received_total{kind="meta"}
    promRejected,       \* collector_items_rejected_total{kind="meta"}, all reasons
    lastSeen,           \* agents with a collector_agent_last_seen_seconds series
    relationsTotal,     \* the gauge of that name
    relationsResolved,  \* the gauge of that name
    resourcesTracked,   \* the gauge vector of that name: kind -> value
    pc,                 \* where each handler goroutine is
    received,           \* messages Recv has returned to a stream
    batches,            \* locals of ReportMeta, one per stream
    items,
    rejected,
    agentID,
    outcome,            \* what ResolveRelations returned: [resolved, unresolved]
    kindCount,          \* what is left of the range over KindCount()
    view                \* the /api/summary response under construction

storeVars == <<resources, stats>>
promVars == <<promReceived, promRejected, lastSeen,
              relationsTotal, relationsResolved, resourcesTracked>>
localVars == <<received, batches, items, rejected, agentID, outcome, kindCount>>
vars == <<storeVars, promVars, pc, localVars, view>>

Links == [uid : UIDs \cup {NoUID}, resolved : BOOLEAN]

-----------------------------------------------------------------------------
(***************************************************************************)
(* The store.                                                              *)
(***************************************************************************)

Stored == DOMAIN resources

(* toResource: a relation that arrives with a target_uid counts as resolved *)
ToResource(o) ==
    [k \in DOMAIN o.refs |-> [uid |-> o.refs[k], resolved |-> o.refs[k] # NoUID]]

UpsertResources(list) ==
    LET new == {o.uid : o \in list} IN
    resources' = [u \in Stored \cup new |->
                    IF u \in new
                    THEN ToResource(CHOOSE o \in list : o.uid = u)
                    ELSE resources[u]]

(* Every relation in the store, as a pair of the resource and the key it names *)
Relations == {r \in Stored \X Keys : r[2] \in DOMAIN resources[r[1]]}
ResolvedRelations == {r \in Relations : resources[r[1]][r[2]].resolved}

Holders(k) == {u \in Stored : KeyOf[u] = k}

(* Mutant of Indexes: the key leaves out the namespace *)
IndexesByName ==
    LET Same(k, u) == KeyOf[u].kind = k.kind /\ KeyOf[u].name = k.name
    IN {ix \in [{k \in Keys : \E u \in Stored : Same(k, u)} -> Stored] :
           \A k \in DOMAIN ix : Same(k, ix[k])}

(* The index is filled in the map's random iteration order: when several
   UIDs have the key, any of them may be the last one written. *)
Indexes == {ix \in [{KeyOf[u] : u \in Stored} -> Stored] :
                \A k \in DOMAIN ix : KeyOf[ix[k]] = k}

(* A target that is not found keeps whatever TargetUID the relation had *)
Resolved(link, k, ix) ==
    IF k \in DOMAIN ix THEN [uid |-> ix[k], resolved |-> TRUE]
                       ELSE [uid |-> link.uid, resolved |-> FALSE]

ResolveRelations(ix) ==
    resources' = [u \in Stored |->
                    [k \in DOMAIN resources[u] |-> Resolved(resources[u][k], k, ix)]]

OfKind(kd) == {u \in Stored : KeyOf[u].kind = kd}

KindCount == [kd \in {KeyOf[u].kind : u \in Stored} |-> Cardinality(OfKind(kd))]

NamespaceCount == [ns \in {KeyOf[u].ns : u \in Stored} |->
                      Cardinality({u \in Stored : KeyOf[u].ns = ns})]

-----------------------------------------------------------------------------
(***************************************************************************)
(* ReportMeta.                                                             *)
(***************************************************************************)

(* validateMeta: the batch is accepted iff no reason applies *)
Valid(b) == /\ b.agent # NoAgent
            /\ b.cluster
            /\ b.resources # {}
            /\ b.collectedAt = "past"
            /\ b.named

AcceptBatch(s, b) ==
    /\ pc[s] = "recv" /\ received[s] < MaxBatches
    /\ Valid(b)
    /\ UpsertResources(b.resources)
    /\ agentID' = [agentID EXCEPT ![s] = b.agent]
    /\ batches' = [batches EXCEPT ![s] = @ + 1]
    /\ items' = [items EXCEPT ![s] = @ + Cardinality(b.resources)]
    /\ received' = [received EXCEPT ![s] = @ + 1]
    /\ UNCHANGED <<stats, promVars, pc, rejected, outcome, kindCount, view>>

Accept(s) == \E b \in Batches : AcceptBatch(s, b)

(* Mutant of Reject: the handler's own count is not updated *)
RejectUncounted(s) ==
    /\ pc[s] = "recv" /\ received[s] < MaxBatches
    /\ \E b \in Batches :
        /\ ~Valid(b)
        /\ promRejected' = promRejected + Cardinality(b.resources)
    /\ received' = [received EXCEPT ![s] = @ + 1]
    /\ UNCHANGED <<storeVars, promReceived, lastSeen, relationsTotal,
                   relationsResolved, resourcesTracked, pc, batches, items,
                   rejected, agentID, outcome, kindCount, view>>

Reject(s) ==
    /\ pc[s] = "recv" /\ received[s] < MaxBatches
    /\ \E b \in Batches :
        /\ ~Valid(b)
        /\ rejected' = [rejected EXCEPT ![s] = @ + Cardinality(b.resources)]
        /\ promRejected' = promRejected + Cardinality(b.resources)
    /\ received' = [received EXCEPT ![s] = @ + 1]
    /\ UNCHANGED <<storeVars, promReceived, lastSeen, relationsTotal,
                   relationsResolved, resourcesTracked, pc, batches, items,
                   agentID, outcome, kindCount, view>>

(* Mutant of EndOfStream: relations are not resolved at the end of a stream *)
EndWithoutResolve(s) ==
    /\ pc[s] = "recv"
    /\ pc' = [pc EXCEPT ![s] = "record"]
    /\ UNCHANGED <<storeVars, promVars, localVars, view>>

(* Recv returns io.EOF: the client called CloseSend *)
EndOfStream(s) ==
    /\ pc[s] = "recv"
    /\ pc' = [pc EXCEPT ![s] = "resolve"]
    /\ UNCHANGED <<storeVars, promVars, localVars, view>>

(* Mutant of Abort: what arrived before the error is recorded *)
AbortRecorded(s) ==
    /\ pc[s] = "recv"
    /\ pc' = [pc EXCEPT ![s] = "failed"]
    /\ stats' = [batches  |-> stats.batches + batches[s],
                 items    |-> stats.items + items[s],
                 rejected |-> stats.rejected + rejected[s]]
    /\ UNCHANGED <<resources, promVars, localVars, view>>

(* Recv returns any other error: the client's deadline passed, it was
   cancelled or it died.  The handler returns at once. *)
Abort(s) ==
    /\ pc[s] = "recv"
    /\ pc' = [pc EXCEPT ![s] = "failed"]
    /\ UNCHANGED <<storeVars, promVars, localVars, view>>

Resolve(s) ==
    /\ pc[s] = "resolve"
    /\ \E ix \in Indexes :
        /\ ResolveRelations(ix)
        /\ LET found == {r \in Relations : r[2] \in DOMAIN ix} IN
           outcome' = [outcome EXCEPT ![s] =
               [resolved |-> Cardinality(found),
                unresolved |-> Cardinality(Relations \ found)]]
    /\ pc' = [pc EXCEPT ![s] = "record"]
    /\ UNCHANGED <<stats, promVars, received, batches, items, rejected,
                   agentID, kindCount, view>>

RecordStream(s) ==
    /\ pc[s] = "record"
    /\ stats' = [batches  |-> stats.batches + batches[s],
                 items    |-> stats.items + items[s],
                 rejected |-> stats.rejected + rejected[s]]
    /\ pc' = [pc EXCEPT ![s] = "publish"]
    /\ UNCHANGED <<resources, promVars, localVars, view>>

(* publish: counters only grow and AgentLastSeen is only set, by anyone, so
   its updates of four series are one step *)
Publish(s) ==
    /\ pc[s] = "publish"
    /\ promReceived' = [batches |-> promReceived.batches + batches[s],
                        items   |-> promReceived.items + items[s]]
    /\ lastSeen' = lastSeen \cup ({agentID[s]} \ {NoAgent})
    /\ pc' = [pc EXCEPT ![s] = "setTotal"]
    /\ UNCHANGED <<storeVars, promRejected, relationsTotal, relationsResolved,
                   resourcesTracked, localVars, view>>

(* Mutant of SetTotal: the total is the gap *)
SetTotalToGap(s) ==
    /\ pc[s] = "setTotal"
    /\ relationsTotal' = outcome[s].resolved - outcome[s].unresolved
    /\ pc' = [pc EXCEPT ![s] = "setResolved"]
    /\ UNCHANGED <<storeVars, promReceived, promRejected, lastSeen,
                   relationsResolved, resourcesTracked, localVars, view>>

SetTotal(s) ==
    /\ pc[s] = "setTotal"
    /\ relationsTotal' = outcome[s].resolved + outcome[s].unresolved
    /\ pc' = [pc EXCEPT ![s] = "setResolved"]
    /\ UNCHANGED <<storeVars, promReceived, promRejected, lastSeen,
                   relationsResolved, resourcesTracked, localVars, view>>

SetResolved(s) ==
    /\ pc[s] = "setResolved"
    /\ relationsResolved' = outcome[s].resolved
    /\ pc' = [pc EXCEPT ![s] = "countKinds"]
    /\ UNCHANGED <<storeVars, promReceived, promRejected, lastSeen,
                   relationsTotal, resourcesTracked, localVars, view>>

CountKinds(s) ==
    /\ pc[s] = "countKinds"
    /\ kindCount' = [kindCount EXCEPT ![s] = KindCount]
    /\ pc' = [pc EXCEPT ![s] = "setTracked"]
    /\ UNCHANGED <<storeVars, promVars, received, batches, items, rejected,
                   agentID, outcome, view>>

(* Mutant of SetTracked: the gauge is added to, as a counter is *)
AddTracked(s) ==
    /\ pc[s] = "setTracked"
    /\ \E kd \in DOMAIN kindCount[s] :
        /\ resourcesTracked' = [x \in DOMAIN resourcesTracked \cup {kd} |->
               (IF x \in DOMAIN resourcesTracked THEN resourcesTracked[x] ELSE 0)
               + (IF x = kd THEN kindCount[s][kd] ELSE 0)]
        /\ kindCount' = [kindCount EXCEPT ![s] = Restrict(@, DOMAIN @ \ {kd})]
    /\ UNCHANGED <<storeVars, promReceived, promRejected, lastSeen, relationsTotal,
                   relationsResolved, pc, received, batches, items, rejected,
                   agentID, outcome, view>>

(* One iteration of the range over KindCount(), in any order *)
SetTracked(s) ==
    /\ pc[s] = "setTracked"
    /\ \E kd \in DOMAIN kindCount[s] :
        /\ resourcesTracked' = [x \in DOMAIN resourcesTracked \cup {kd} |->
               IF x = kd THEN kindCount[s][kd] ELSE resourcesTracked[x]]
        /\ kindCount' = [kindCount EXCEPT ![s] = Restrict(@, DOMAIN @ \ {kd})]
    /\ UNCHANGED <<storeVars, promReceived, promRejected, lastSeen, relationsTotal,
                   relationsResolved, pc, received, batches, items, rejected,
                   agentID, outcome, view>>

(* SendAndClose: the summary goes out, or the client is gone; the handler
   returns either way *)
Reply(s) ==
    /\ pc[s] = "setTracked" /\ DOMAIN kindCount[s] = {}
    /\ pc' = [pc EXCEPT ![s] = "done"]
    /\ UNCHANGED <<storeVars, promVars, localVars, view>>

-----------------------------------------------------------------------------
(***************************************************************************)
(* GET /api/summary: the argument list is evaluated in order, each call    *)
(* taking and releasing the read lock.                                     *)
(***************************************************************************)

ReadRelationStat(r) ==
    /\ pc[r] = "relationStat"
    /\ view' = [view EXCEPT ![r].relTotal = Cardinality(Relations),
                            ![r].relResolved = Cardinality(ResolvedRelations)]
    /\ pc' = [pc EXCEPT ![r] = "stats"]
    /\ UNCHANGED <<storeVars, promVars, localVars>>

ReadStats(r) ==
    /\ pc[r] = "stats"
    /\ view' = [view EXCEPT ![r].stats = stats]
    /\ pc' = [pc EXCEPT ![r] = "byKind"]
    /\ UNCHANGED <<storeVars, promVars, localVars>>

(* Mutant of ReadKindCount: answers from the gauge instead of the store *)
ReadTracked(r) ==
    /\ pc[r] = "byKind"
    /\ view' = [view EXCEPT ![r].byKind = resourcesTracked]
    /\ pc' = [pc EXCEPT ![r] = "byNamespace"]
    /\ UNCHANGED <<storeVars, promVars, localVars>>

ReadKindCount(r) ==
    /\ pc[r] = "byKind"
    /\ view' = [view EXCEPT ![r].byKind = KindCount]
    /\ pc' = [pc EXCEPT ![r] = "byNamespace"]
    /\ UNCHANGED <<storeVars, promVars, localVars>>

ReadNamespaceCount(r) ==
    /\ pc[r] = "byNamespace"
    /\ view' = [view EXCEPT ![r].byNamespace = NamespaceCount]
    /\ pc' = [pc EXCEPT ![r] = "done"]
    /\ UNCHANGED <<storeVars, promVars, localVars>>

-----------------------------------------------------------------------------
NoStats == [batches |-> 0, items |-> 0, rejected |-> 0]
Nothing == [x \in {} |-> 0]

Init ==
    /\ resources = [u \in {} |-> Nothing]
    /\ stats = NoStats
    /\ promReceived = [batches |-> 0, items |-> 0]
    /\ promRejected = 0 /\ lastSeen = {}
    /\ relationsTotal = 0 /\ relationsResolved = 0 /\ resourcesTracked = Nothing
    /\ pc = [p \in Streams \cup Readers |->
                IF p \in Streams THEN "recv" ELSE "relationStat"]
    /\ received = [s \in Streams |-> 0]
    /\ batches = [s \in Streams |-> 0]
    /\ items = [s \in Streams |-> 0]
    /\ rejected = [s \in Streams |-> 0]
    /\ agentID = [s \in Streams |-> NoAgent]
    /\ outcome = [s \in Streams |-> [resolved |-> 0, unresolved |-> 0]]
    /\ kindCount = [s \in Streams |-> Nothing]
    /\ view = [r \in Readers |-> [relTotal |-> 0, relResolved |-> 0,
                                  stats |-> NoStats,
                                  byKind |-> Nothing, byNamespace |-> Nothing]]

(* What the handler does by itself once Recv has returned EOF *)
Finish(s) ==
    \/ Resolve(s) \/ RecordStream(s) \/ Publish(s) \/ SetTotal(s)
    \/ SetResolved(s) \/ CountKinds(s) \/ SetTracked(s) \/ Reply(s)

ReportMeta(s) == Accept(s) \/ Reject(s) \/ EndOfStream(s) \/ Abort(s) \/ Finish(s)

Summary(r) ==
    ReadRelationStat(r) \/ ReadStats(r) \/ ReadKindCount(r) \/ ReadNamespaceCount(r)

(* No call is left to serve: the server idles *)
Idle ==
    /\ \A s \in Streams : pc[s] \in {"done", "failed"}
    /\ \A r \in Readers : pc[r] = "done"
    /\ UNCHANGED vars

Next ==
    \/ \E s \in Streams : ReportMeta(s)
    \/ \E r \in Readers : Summary(r)
    \/ Idle

(* The Go scheduler runs every runnable goroutine and sync.RWMutex starves
   neither side; nothing makes a client send or close. *)
Fairness == /\ \A s \in Streams : WF_vars(Finish(s))
            /\ \A r \in Readers : WF_vars(Summary(r))

Spec == Init /\ [][Next]_vars /\ Fairness

-----------------------------------------------------------------------------
(***************************************************************************)
(* Properties.                                                             *)
(***************************************************************************)

StreamStates == {"recv", "resolve", "record", "publish", "setTotal",
                 "setResolved", "countKinds", "setTracked", "done", "failed"}
ReaderStates == {"relationStat", "stats", "byKind", "byNamespace", "done"}
Counts == [batches : Nat, items : Nat, rejected : Nat]

(* Every variable holds a value its Go counterpart can hold. *)
TypeOK ==
    /\ Stored \subseteq UIDs
    /\ \A u \in Stored : /\ DOMAIN resources[u] \subseteq Keys
                         /\ \A k \in DOMAIN resources[u] : resources[u][k] \in Links
    /\ stats \in Counts
    /\ promReceived \in [batches : Nat, items : Nat] /\ promRejected \in Nat
    /\ relationsTotal \in Nat /\ relationsResolved \in Nat
    /\ pc \in [Streams \cup Readers -> StreamStates \cup ReaderStates]
    /\ \A s \in Streams : pc[s] \in StreamStates
    /\ batches \in [Streams -> Nat]
    /\ items \in [Streams -> Nat]
    /\ rejected \in [Streams -> Nat]
    /\ outcome \in [Streams -> [resolved : Nat, unresolved : Nat]]

(* A resolved relation names the resource its target UID belongs to (same
   namespace, kind and name), and that UID is either in the store or was
   given by the API server in an ownerReference: ResolveRelations never
   links across namespaces or to a resource nobody collected, however the
   streams interleave. *)
ResolvedMeansFound ==
    \A u \in Stored : \A k \in DOMAIN resources[u] :
        LET link == resources[u][k] IN
        link.resolved =>
            /\ link.uid # NoUID /\ KeyOf[link.uid] = k
            /\ \/ link.uid \in Stored
               \/ \E o \in Observations :
                     o.uid = u /\ k \in DOMAIN o.refs /\ o.refs[k] = link.uid

Linkable(u, k) == ~resources[u][k].resolved /\ Holders(k) # {}

(* A stream that has stored a batch and whose ResolveRelations has not run
   since: it is still receiving, about to resolve, or was cut off. *)
OwesResolve(s) == pc[s] \in {"recv", "resolve", "failed"} /\ batches[s] > 0

(* A relation stays unresolved while its target is in the store only on
   account of a stream that stored something and has not resolved since: in
   particular, once every stream has ended cleanly nothing that could be
   linked is left unlinked, although any stream's upsert may come between
   another's upsert and its ResolveRelations. *)
UnresolvedIsOwed ==
    (\E u \in Stored : \E k \in DOMAIN resources[u] : Linkable(u, k))
        => \E s \in Streams : OwesResolve(s)

(* collector_resources_tracked is written from a count taken earlier, after
   the lock was released: it may lag but never shows more resources than
   the store holds. *)
TrackedNeverOverstates ==
    \A kd \in DOMAIN resourcesTracked :
        resourcesTracked[kd] <= Cardinality(OfKind(kd))

Unrecorded == {s \in Streams : pc[s] \in {"recv", "resolve", "record", "failed"}}

(* The two places that count what arrived agree up to the streams still
   under way: an item dropped by validation is in Store.stats or in a
   handler that has not recorded (or never will, because it was cut off),
   and an item or batch counted in Store.stats but not yet in Prometheus
   belongs to a handler between RecordStream and publish. *)
CountersAgree ==
    /\ promRejected =
           stats.rejected + MapThenSumSet(LAMBDA s : rejected[s], Unrecorded)
    /\ LET publishing == {s \in Streams : pc[s] = "publish"} IN
       /\ stats.items = promReceived.items
                            + MapThenSumSet(LAMBDA s : items[s], publishing)
       /\ stats.batches = promReceived.batches
                            + MapThenSumSet(LAMBDA s : batches[s], publishing)

Total(count) == MapThenSumSet(LAMBDA x : count[x], DOMAIN count)

(* The parts of one /api/summary response are read under separate locks; what
   their order guarantees is that a later part never knows less than an
   earlier one: no fewer resources by namespace than by kind, and no items
   in the statistics, nor relations, without a resource. *)
SummaryParts ==
    \A r \in Readers : pc[r] = "done" =>
        /\ Total(view[r].byKind) <= Total(view[r].byNamespace)
        /\ view[r].stats.items + view[r].relTotal > 0 => Total(view[r].byKind) > 0

(* When every client has closed its stream and none was cut off, the store
   ends up, for good, with every relation linked whose target it holds. *)
Settled == \A s \in Streams : pc[s] \notin {"recv", "failed"}
AllLinked == ~ \E u \in Stored : \E k \in DOMAIN resources[u] : Linkable(u, k)
LinkedInTheEnd == <>Settled => <>[]AllLinked

(***************************************************************************)
(* What the comments say and the code does not do: refuted by a run of its *)
(* own.                                                                    *)
(***************************************************************************)

(* meta.go:315-316: an owner's UID is already in the ownerReference, the one
   case that needs no resolution by name: a relation that came with a UID
   keeps it. *)
OwnerUIDKept ==
    \A u \in Stored : \A k \in DOMAIN resources[u] :
        resources[u][k].uid # NoUID =>
            \A o \in Observations :
                (o.uid = u /\ k \in DOMAIN o.refs /\ o.refs[k] # NoUID)
                    => o.refs[k] = resources[u][k].uid

-----------------------------------------------------------------------------
(***************************************************************************)
(* ReportMeta implements the ledger.                                       *)
(***************************************************************************)

StatusOf(state) ==
    CASE state = "recv" -> "open"
      [] state \in {"resolve", "record"} -> "closed"
      [] state = "failed" -> "lost"
      [] state = "done" -> "answered"
      [] OTHER -> "counted"

Ledger == INSTANCE StreamLedger WITH
    status <- [s \in Streams |-> StatusOf(pc[s])],
    tally  <- [s \in Streams |-> [batches  |-> batches[s],
                                  items    |-> items[s],
                                  rejected |-> rejected[s]]],
    ledger <- stats

(* Store.stats.Meta receives the tally of every stream that ends cleanly
   exactly once, before the client is answered, and nothing of a stream that
   was cut off; every such stream is counted and answered in the end. *)
ImplementsLedger == Ledger!Spec
=============================================================================
