----------------------------- MODULE MetricIngest -----------------------------
(***************************************************************************)
(* The metric half of the collector server: the ReportMetric handler       *)
(* (src/internal/server/server.go) and the bounded buffer of points with   *)
(* its two queries in the Store (src/internal/store/store.go).  Steps are  *)
(* as in MetaIngest: one acquisition of Store.mu, or one update of the     *)
(* Prometheus counters.                                                    *)
(***************************************************************************)
EXTENDS Retention, Functions

CONSTANTS
    Streams,            \* ReportMetric calls
    Samples,            \* metrics as sent: [uid, name, value]
    Batches,            \* messages: [agent, cluster, samples, at, named]
    MaxBatches,         \* bound: messages per stream
    MaxMetricPoints,    \* maxMetricPoints
    Horizon,            \* the server's clock plus a minute
    NoTime,             \* collected_at is not set
    NoAgent,            \* the empty agent_id
    NoFilter            \* the empty metric name of a query

Times == 0..Horizon
Points == [sample : Samples, at : Times]

ASSUME MetricAssumption ==
    /\ MaxBatches \in Nat /\ MaxMetricPoints \in Nat /\ Horizon \in Nat
    /\ \A b \in Batches : /\ b.samples \in Seq(Samples)
                          /\ b.at \in Nat \cup {NoTime}
    /\ NoTime \notin Nat
    /\ NoFilter \notin {x.name : x \in Samples}

VARIABLES
    metrics,        \* Store.metrics, oldest append first
    stats,          \* Store.stats.Metric
    promReceived,   \* collector_{batches,items}_received_total{kind="metric"}
    promRejected,   \* collector_items_rejected_total{kind="metric"}, all reasons
    lastSeen,       \* agents with a collector_agent_last_seen_seconds series
    pc,
    received,       \* messages Recv has returned to a stream
    batches, items, rejected, agentID,  \* locals of ReportMetric
    appended        \* history: every point ever appended, in order

promVars == <<promReceived, promRejected, lastSeen>>
countVars == <<received, batches, items, rejected, agentID>>
vars == <<metrics, stats, promVars, pc, countVars, appended>>

-----------------------------------------------------------------------------
(***************************************************************************)
(* The store.                                                              *)
(***************************************************************************)

(* Mutant of AppendMetrics: keeps the front of the buffer *)
KeepOldest(points) ==
    /\ LET all == metrics \o points IN
       metrics' = IF Len(all) > MaxMetricPoints
                  THEN SubSeq(all, 1, MaxMetricPoints) ELSE all
    /\ appended' = appended \o points

AppendMetrics(points) ==
    /\ metrics' = Retain(metrics, points, MaxMetricPoints)
    /\ appended' = appended \o points

Key(p) == <<p.sample.uid, p.sample.name>>

(* Mutant of LatestMetrics: the last point appended wins *)
LastAppended(name) ==
    LET mine == {i \in DOMAIN metrics : name \in {NoFilter, metrics[i].sample.name}}
    IN [k \in {Key(metrics[i]) : i \in mine} |->
           metrics[CHOOSE i \in mine :
               /\ Key(metrics[i]) = k
               /\ \A j \in mine : Key(metrics[j]) = k => j <= i]]

(* LatestMetrics: one pass over the buffer; a later point replaces the one
   kept for its resource and name only if its time is after it.  The final
   sort by value orders what is returned and drops nothing. *)
LatestMetrics(name) ==
    LET Skip(p, latest) ==
            \/ name # NoFilter /\ p.sample.name # name
            \/ Key(p) \in DOMAIN latest /\ p.at <= latest[Key(p)].at
        scan[i \in 0..Len(metrics)] ==
            IF i = 0 THEN [k \in {} |-> 0]
            ELSE LET p == metrics[i]
                     latest == scan[i - 1]
                 IN IF Skip(p, latest) THEN latest
                    ELSE [k \in DOMAIN latest \cup {Key(p)} |->
                             IF k = Key(p) THEN p ELSE latest[k]]
    IN scan[Len(metrics)]

(* MetricSeries: one pass, oldest first *)
MetricSeries(uid, name) ==
    LET series[i \in 0..Len(metrics)] ==
            IF i = 0 THEN << >>
            ELSE IF Key(metrics[i]) = <<uid, name>>
                 THEN Append(series[i - 1], metrics[i]) ELSE series[i - 1]
    IN series[Len(metrics)]

-----------------------------------------------------------------------------
(***************************************************************************)
(* ReportMetric.                                                           *)
(***************************************************************************)

(* validateMetric.  `named`: every metric has name and resource_uid *)
Valid(b) == /\ b.agent # NoAgent
            /\ b.cluster
            /\ b.samples # << >>
            /\ b.at # NoTime
            /\ b.at <= Horizon
            /\ b.named

(* Every point of a batch gets the batch's collected_at *)
PointsOf(b) == [i \in 1..Len(b.samples) |-> [sample |-> b.samples[i], at |-> b.at]]

Accept(s) ==
    /\ pc[s] = "recv" /\ received[s] < MaxBatches
    /\ \E b \in Batches :
        /\ Valid(b)
        /\ AppendMetrics(PointsOf(b))
        /\ agentID' = [agentID EXCEPT ![s] = b.agent]
        /\ batches' = [batches EXCEPT ![s] = @ + 1]
        /\ items' = [items EXCEPT ![s] = @ + Len(b.samples)]
    /\ received' = [received EXCEPT ![s] = @ + 1]
    /\ UNCHANGED <<stats, promVars, pc, rejected>>

Reject(s) ==
    /\ pc[s] = "recv" /\ received[s] < MaxBatches
    /\ \E b \in Batches :
        /\ ~Valid(b)
        /\ rejected' = [rejected EXCEPT ![s] = @ + Len(b.samples)]
        /\ promRejected' = promRejected + Len(b.samples)
    /\ received' = [received EXCEPT ![s] = @ + 1]
    /\ UNCHANGED <<metrics, stats, promReceived, lastSeen, pc, batches, items,
                    agentID, appended>>

Goto(s, state) == pc' = [pc EXCEPT ![s] = state]

(* Mutant of EndOfStream: the statistics are not updated *)
EndUnrecorded(s) ==
    /\ pc[s] = "recv" /\ Goto(s, "publish")
    /\ UNCHANGED <<metrics, stats, promVars, countVars, appended>>

EndOfStream(s) ==
    /\ pc[s] = "recv" /\ Goto(s, "record")
    /\ UNCHANGED <<metrics, stats, promVars, countVars, appended>>

(* Recv fails: the client's deadline passed, it was cancelled or it died *)
Abort(s) ==
    /\ pc[s] = "recv" /\ Goto(s, "failed")
    /\ UNCHANGED <<metrics, stats, promVars, countVars, appended>>

RecordStream(s) ==
    /\ pc[s] = "record" /\ Goto(s, "publish")
    /\ stats' = [batches  |-> stats.batches + batches[s],
                 items    |-> stats.items + items[s],
                 rejected |-> stats.rejected + rejected[s]]
    /\ UNCHANGED <<metrics, promVars, countVars, appended>>

(* Mutant of Publish: nets out what was rejected *)
PublishNet(s) ==
    /\ pc[s] = "publish" /\ Goto(s, "reply")
    /\ promReceived' = [batches |-> promReceived.batches + batches[s],
                        items   |-> promReceived.items + items[s] - rejected[s]]
    /\ lastSeen' = lastSeen \cup ({agentID[s]} \ {NoAgent})
    /\ UNCHANGED <<metrics, stats, promRejected, countVars, appended>>

Publish(s) ==
    /\ pc[s] = "publish" /\ Goto(s, "reply")
    /\ promReceived' = [batches |-> promReceived.batches + batches[s],
                        items   |-> promReceived.items + items[s]]
    /\ lastSeen' = lastSeen \cup ({agentID[s]} \ {NoAgent})
    /\ UNCHANGED <<metrics, stats, promRejected, countVars, appended>>

Reply(s) ==
    /\ pc[s] = "reply" /\ Goto(s, "done")
    /\ UNCHANGED <<metrics, stats, promVars, countVars, appended>>

-----------------------------------------------------------------------------
Init ==
    /\ metrics = << >> /\ appended = << >>
    /\ stats = [batches |-> 0, items |-> 0, rejected |-> 0]
    /\ promReceived = [batches |-> 0, items |-> 0]
    /\ promRejected = 0 /\ lastSeen = {}
    /\ pc = [s \in Streams |-> "recv"]
    /\ received = [s \in Streams |-> 0]
    /\ batches = [s \in Streams |-> 0]
    /\ items = [s \in Streams |-> 0]
    /\ rejected = [s \in Streams |-> 0]
    /\ agentID = [s \in Streams |-> NoAgent]

(* What the handler does by itself once Recv has returned EOF *)
Finish(s) == RecordStream(s) \/ Publish(s) \/ Reply(s)

ReportMetric(s) == Accept(s) \/ Reject(s) \/ EndOfStream(s) \/ Abort(s) \/ Finish(s)

(* No call is left to serve: the server idles *)
Idle == (\A s \in Streams : pc[s] \in {"done", "failed"}) /\ UNCHANGED vars

Next == (\E s \in Streams : ReportMetric(s)) \/ Idle

Spec == Init /\ [][Next]_vars /\ \A s \in Streams : WF_vars(Finish(s))

-----------------------------------------------------------------------------
(***************************************************************************)
(* Properties.                                                             *)
(***************************************************************************)

StreamStates == {"recv", "record", "publish", "reply", "done", "failed"}

(* Every variable holds a value its Go counterpart can hold. *)
TypeOK ==
    /\ metrics \in Seq(Points) /\ appended \in Seq(Points)
    /\ stats \in [batches : Nat, items : Nat, rejected : Nat]
    /\ promReceived \in [batches : Nat, items : Nat]
    /\ promRejected \in Nat
    /\ pc \in [Streams -> StreamStates]
    /\ batches \in [Streams -> Nat]
    /\ items \in [Streams -> Nat]
    /\ rejected \in [Streams -> Nat]

(* The metric buffer is at every moment exactly the newest MaxMetricPoints
   points of all that were accepted, in the order they were appended. *)
KeepsTheNewest == metrics = Newest(appended, MaxMetricPoints)

(* Of all the points ever reported for a resource and name, i has the latest
   time, and is the first to have it. *)
IsLatestEver(i) ==
    \A j \in DOMAIN appended :
        Key(appended[j]) = Key(appended[i]) /\ j # i =>
            \/ appended[j].at < appended[i].at
            \/ appended[j].at = appended[i].at /\ i < j

(* LatestMetrics shows, for every resource and name, the latest point ever
   reported, whatever order streams delivered it in, unless that point has
   been evicted since; only a resource with nothing retained is missing; and
   the series of that resource, asked for at the same moment, contains the
   point shown and none that is later. *)
LatestIsLatest ==
    \A name \in {x.name : x \in Samples} \cup {NoFilter} :
        LET latest == LatestMetrics(name)
            Asked(p) == name \in {NoFilter, p.sample.name}
            evicted == Len(appended) - Len(metrics)
        IN /\ \A i \in DOMAIN appended :
                 i > evicted /\ Asked(appended[i]) /\ IsLatestEver(i)
                     => latest[Key(appended[i])] = appended[i]
           /\ DOMAIN latest =
                 {Key(metrics[i]) : i \in {j \in DOMAIN metrics : Asked(metrics[j])}}
           /\ \A k \in DOMAIN latest :
                 LET series == MetricSeries(k[1], k[2]) IN
                 /\ latest[k] \in Range(series)
                 /\ \A p \in Range(series) : p.at <= latest[k].at

(* What LatestMetrics shows of a resource goes back in time, in one step of
   any handler, only when the point it showed is evicted in that step. *)
BackOnlyByEviction ==
    [][LET latest == LatestMetrics(NoFilter) IN
       \A k \in DOMAIN latest :
           latest[k] \in Range(metrics)' =>
               LatestMetrics(NoFilter)'[k].at >= latest[k].at]_vars

StatusOf(state) == CASE state = "recv" -> "open"
                     [] state = "record" -> "closed"
                     [] state = "failed" -> "lost"
                     [] state = "done" -> "answered"
                     [] OTHER -> "counted"

Ledger == INSTANCE StreamLedger WITH
    status <- [s \in Streams |-> StatusOf(pc[s])],
    tally  <- [s \in Streams |-> [batches  |-> batches[s],
                                  items    |-> items[s],
                                  rejected |-> rejected[s]]],
    ledger <- stats

(* Store.stats.Metric receives the tally of every metric stream that ends
   cleanly exactly once, before the client is answered, and nothing of a
   stream that was cut off; every such stream is counted and answered. *)
ImplementsLedger == Ledger!Spec
=============================================================================
