# Verification of k8s-collector

TLA+ models of the collector (agents that read a Kubernetes cluster, a server
that stores what they report and answers a dashboard), checked with TLC and, where
noted, proved with TLAPS. Paths are relative to the repository root. The models are
translated from the code; comments and tests are quoted only where the code departs
from them.

## 1. The system

| component | state | operations | talks to |
|---|---|---|---|
| ReportMeta (`internal/server/server.go`, `internal/store/store.go`) | `resources`, their relations, `stats.Meta` | receive a batch, validate, upsert; at EOF resolve relations, record, publish, reply | agent (client stream), Store under one RWMutex, Prometheus |
| ReportMetric | `metrics` (last 2000 points), `stats.Metric` | append and trim; record, publish, reply | agent, node agent |
| ReportLog | `logs` (last 1000 lines), `stats.Log` | append and trim; record, publish, set the gauge by level, reply | agent |
| Query API (`internal/api/api.go`) | none | summary (five reads under five locks), resources, metrics, series, logs | dashboard, Store |
| Prometheus series (`internal/metrics/metrics.go`) | counters and gauges | add, set | handlers, scraper |
| Subscribe / Health | none | push the targets and hold the stream; answer | agent |
| server process (`cmd/server/main.go`) | three goroutines | serve, stop on SIGTERM | kubelet |
| agent (`cmd/agent/main.go`) | targets, `ready` | wait for the server, subscribe, collect every 20 s and send | API server, metrics-server, server |
| CollectMeta (`internal/collector/meta.go`) | the report under construction | one list per kind and namespace | API server |
| CollectMetrics, CollectLogs (`internal/collector/metric_log.go`) | the same | two lists joined by name; a tail of every container | API server, metrics-server |
| node agent (`cmd/node-agent`, `internal/collector/cgroup.go`) | none | walk the cgroup tree, join with pods, send | server |
| dashboard (`web/src`) | what is shown | refresh every 5 s | Query API |

The hard parts are where two of these meet. Every stream and every HTTP request is a
goroutine of its own, and the store's lock is taken once per operation and not once per
handler, so handlers interleave between their steps. Prometheus series are written
outside that lock, from values read inside it. A stream can break after any batch.
Buffers are trimmed by order of arrival, queries speak of time. One response is written
from memory that handlers are writing to. A report is assembled from lists of a cluster
that changes, from samples joined to pods by name, from a directory tree that vanishes
under the walk. The agent repeats no call: a deadline, a restart or an error leaves
everything to the next cycle, while the call it gave up may still be handled. Shutdown
has to bring to an end calls that, by design, do not end.

`PROJECT.json` lists the hazards, each with its line and the properties that cover it.

## 2. Modules

| module | models | checked by | proved in |
|---|---|---|---|
| `StreamLedger` | what any Report call promises: its tally is counted exactly once, when the client has closed it and before it is answered; a stream cut off is never counted | as a property of the three below | |
| `MetaIngest` | ReportMeta, resources and relations, the gauges, the summary request | `MCMetaIngest`, `MCMetaOwner`, and within `ResourceListing` | `MetaIngest_proofs` |
| `ResourceListing` | `GET /api/resources` beside the streams of `MetaIngest`, down to the words its encoder reads without the lock | `MCResourceListing`, `MCListingRace` | `MetaIngest_proofs` |
| `Retention` | append and trim, shared by both buffers | through its users | `Library_proofs` |
| `LogIngest` | ReportLog, the log buffer, `Logs`, the gauge by level | `MCLogIngest` | `LogIngest_proofs` |
| `MetricIngest` | ReportMetric, the metric buffer, `LatestMetrics`, `MetricSeries` | `MCMetricIngest` | `MetricIngest_proofs` |
| `ClusterCollect` | CollectMeta against a changing cluster | `MCClusterCollect` | `ClusterCollect_proofs` |
| `Pods` | external: the pods, samples and cgroups that the collectors of pod data read | through its users | `PodReports_proofs` |
| `PodCollect` | CollectMetrics and CollectLogs | `MCPodReports` | `PodReports_proofs` |
| `NodeAgent` | collectOnce of the node agent with the cgroup walk | `MCPodReports` | `PodReports_proofs` |
| `PodReports` | the composition of these three | `MCPodReports` | `PodReports_proofs` |
| `WaitForServer` | the retry loop of both agents, with its clock | within `Agent` | `Agent_proofs` |
| `Subscription` | Subscribe, `subscription.run`, `waitInitial`, restarts | within `Agent` | `Agent_proofs` |
| `Agent` | the agent process: `WaitForServer`, `Subscription` and the loop of main, until SIGTERM | `MCAgent` | `Agent_proofs` |
| `Delivery` | the send functions, their deadlines, the handlers as a stream sees them, restarts of the server | `MCDelivery` | `Delivery_proofs` |
| `Lifecycle` | the server process and its shutdown | `MCLifecycle`, `MCLifecycleStop` | `Delivery_proofs` |

`Agent` and `Delivery` are two views of one process. `Agent` has every stage of a cycle
and its time, and a send there takes any time up to its deadline and ends in any way.
`Delivery` has what such a send does, and no time but that the deadline may pass.

### How state and actions correspond to the code

**Steps.** In the three ingest modules a step is what a goroutine does under one
acquisition of `Store.mu`, or one operation on one Prometheus series; the `pc` of a
stream names the next one. `Accept` is an iteration of the receive loop: validation,
the store operation, and the locals `batches`, `items`, `agentID`. `Reject` is the
`continue` branch with its counter. `EndOfStream` and `Abort` are the two errors of
`Recv`. What follows is one action per call, in the order of the code: `Resolve`,
`RecordStream`, `Publish`, `SetTotal`, `SetResolved`, `CountKinds`, `SetTracked`
(one iteration of the range), `Reply`. `Publish` writes its series in one step:
they are counters that only grow and a time that is only set, and no property compares
two of them in the middle.

**MetaIngest.** `resources` maps a UID to its relations, each keyed by the
namespace, kind and name of its target and holding `TargetUID` and `Resolved`. What
a UID is the name of is the constant `KeyOf`: Kubernetes does not change or reuse it.
`Indexes` is the set of all indexes the random iteration of the map can produce.
`SeenAt`, labels, status and attributes are left out: nothing in the server reads them.
The summary request reads in the order Go evaluates the fields of its response; its
last read (`LevelCount`) belongs to logs and is left out.

**ResourceListing.** `Snapshot` is `Store.Resources`, `ReadWord` one read of the JSON
encoder. `Resources` copies each `Resource` and not the array behind its `Relations`, so
the encoder reads the store's own memory until `UpsertResources` gives the UID a new
array (`Detach`). A relation is three words there: the two of the string `TargetUID`, and
`Resolved`. The race is undefined behaviour only in this sense: each word may be read
before or after a `ResolveRelations`, in any order. A length without a pointer makes the
encoder panic (`EncodeTorn`).

**LogIngest, MetricIngest.** Batches are sequences, because the buffers keep order.
`appended` is a history variable: everything ever appended. In `MetricIngest` a batch
has one time, set by the client, which may be any up to `Horizon`, the server's clock
plus the minute `validateMetric` allows, which stands still: the times of one client, too,
may go back.

**ClusterCollect.** `next` runs through `ListOrder`, the ten lists of the loop over
namespaces. The API server (`Create`, `Delete`, `List`) is external: unique
names, objects only in namespaces that exist, owners that exist when the object is
created. A relation to an owner has the owner's kind and name and the namespace of what it
owns, as in `meta.go:317-325`, so one to a Node, which owns the mirrors of static pods, has a
target that is never reported. `steady` is a history variable: what has been alive since the first list.
Objects do not change while they live.

**Pods.** What the other collectors read, all external: the API server's pods, the
samples of metrics-server, which has them by name, and the cgroups of running containers
with a CPU counter that grows. Pods are created, started, deleted and replaced under
their names. `steady` and `cpuBefore` are history variables. The variable `task` says which
collector a behaviour is about: they only read, and share nothing.

**PodCollect.** A step is one call: a list of pods or of samples in one namespace, or the
read of one container's log. `uidOf` is the map of names CollectMetrics builds. A point
or line is kept as the UID it is labelled with and the pod it really is of (`of`). `Expire`
is the collection's deadline; from then on lists fail, and a log read fails into the
`continue` of `metric_log.go:120`.

**NodeAgent.** The walk reads `kubelet-kubepods.slice`, which holds the slices of guaranteed
pods, and the directories of the two other QoS classes as it gets to them (`ReadClass`); it
visits what it has read in the order of the names, guaranteed pods last (`Due`). In a slice it
looks at the scopes, and reads two files of each. Names are records of the
parts that `podUIDFromSlice` and `containerIDFromScope` look at: suffix, what stands before
the id, and the form of the id. A read of a file that is gone, or cannot be read, is 0
(`Reads`); `blind` is the history of the latter.

**WaitForServer.** Time is in seconds. A call of Health succeeds or fails after any
time up to its timeout: the gRPC channel has a backoff of its own, so a failure tells
nothing about the server.

**Subscription.** `handler` is the server's goroutine, `run` and `main` the two of the
agent. What is in `net` when the stream breaks may arrive or be lost.

**Agent.** main goes through `WaitForServer` (`at`), `waitInitial` (`main`) and the stages
of `collectOnce` (`stage`), one after the other; `subscription.run` is its other goroutine.
`signalled` is the context of `signal.NotifyContext`: it ends the pauses, the subscription
and every call, but not `waitInitial`. The loop counts units of ten seconds, of which its
period and deadlines are multiples. `toTick` and `slot` are the ticker: `slot` is its channel
with room for one tick, and ticks that find it full are dropped. A collection may succeed
after a signal: its lists were answered before, and CollectLogs passes over reads that
fail. The loop of the node agent (`node-agent/main.go:85-99`) has no module: it is
this one with one kind and no subscription.

**Delivery.** An item is its index. A batch is the slice `items[from:to]` that the loops of
`sendMeta`, `sendMetric`, `sendLog` and the node agent's `send` cut. Two calls exist at a time:
the current one, and the one before, which the agent may have given up while the
server still reads it. `Crash` takes the memory and the handlers; an answer that was
sent may have got through. The handler's steps from `ResolveRelations` to `publish`, which
are `MetaIngest`'s, are one step here (`Record`).

**Lifecycle.** `Serve` returns when GracefulStop is done, and `main` with it, which
cuts whatever HTTP requests are open (`MainReturns`). A call that its client opened before it
heard of the shutdown is still accepted while GracefulStop waits for others. `Kill` is the
end of the pod's grace period, and `ServeFails` a `Serve` that returns an error, upon
which main calls `os.Exit` and cuts everything; `NoStreamCut` is about neither.

## 3. What the runs check

Passing runs:

- **MCMetaIngest** (invariants). Two streams of up to two messages over a pod, the
  ConfigMap it names and the ReplicaSet that owns it, the last two also under a second
  UID, a ConfigMap of that name in another namespace, and a batch with a bad clock.
  `ResolvedMeansFound`: links are right. `UnresolvedIsOwed`: a relation that could be
  linked is unlinked only on account of a stream that stored something and has not
  resolved since. `TrackedNeverOverstates`: the gauge by kind may lag, never exceed.
  `CountersAgree`: locals, `Store.stats` and Prometheus add up at every moment.
- **MCResourceListing**. Two streams of one message, and a listing or a summary, without
  symmetry. `ListedIsTrue`: a response that races with `ResolveRelations` never shows a
  UID that the relation is not about, nor a resolved relation nobody has a target for.
  `SummaryParts`: what the order of the reads guarantees. `ImplementsLedger`: refinement
  of `StreamLedger`, with its liveness. `LinkedInTheEnd`: if all streams end cleanly,
  everything that can be linked is linked for good.
- **MCLogIngest**. Two streams of up to two messages, a buffer of three lines that they
  overflow. `KeepsTheNewest`, `QueriesAreExact` (every filter and limit from -1 to one
  more than the buffer), `RetainedLevelsShown`, `ImplementsLedger`.
- **MCMetricIngest**. The same for points, with points of equal times, clocks that
  disagree and one ahead of the server. `LatestIsLatest`, `BackOnlyByEviction` (an
  action property), `KeepsTheNewest`, `ImplementsLedger`.
- **MCClusterCollect**. Any initial cluster out of nine objects, up to three changes
  while the lists run, a failure at any list. `SteadyIsReported`, `ChainIsClosed`.
- **MCPodReports**. A guaranteed pod with two containers, its successor under the same name on another
  node, a namesake in another namespace and of another runtime, and a static pod.
  `SteadyUsageIsOwn`: a pod that was there all along gets its own usage; a point with
  another's is of a pod that was replaced. `SteadyLogsAreRead`: what ran all along and could
  be read is read, and a deadline that passes without an error costs containers of the last
  namespace only. `MeasuredIsReal`: the walk loses nothing that could be read, and a CPU
  counter that is sent is one the container had, but for a 0 where it could not be read or
  the container has ended.
- **MCAgent**. The code's times, a server that restarts once, may be silent and may hang
  every call up to its deadline, and a signal at any moment. `GivesUpInTime`: waitForServer
  gives up after its limit and not much later. `ChosenIsPrefix`: however `waitInitial`
  races with `run`, main has a beginning of the server's list or the defaults. `NoBurst` (an
  action property): three cycles never begin within less than a period, however many ticks
  a long one missed. `KeepsCollecting`: each kind is collected again and again, whatever
  fails. `EndsOnSignal`: wherever a signal finds the agent, it ends.
- **MCDelivery**. Reports of 0, 3 and 4 items in batches of 2, of 5 and of 0; two deadlines at
  any point, one restart. `RecordedIsWhole`: a handler never records a part of a report,
  also when the agent has given it up. `AckedIsExact`: what the summary tells the agent is
  what it had. `RecordedIsHeld`: the server holds everything from the first report it
  records until it ends. `Recovers`: once deadlines and restarts stop, it holds
  everything for good, and reports are acknowledged again and again.
- **MCLifecycle**. Two agents, two reports, one request. `NoStreamCut`,
  `StopsWhenAlone`.

Runs that end in a violation, each of a statement the repository makes:

- **MCMetaOwner**: `meta.go:315-316` and `meta_test.go:197` want the UID of an
  ownerReference used as it is. `ResolveRelations` looks it up by name like any other and,
  as nothing is ever deleted from the store, may replace it with that of a namesake.
- **MCListingRace**: `store.go:23` says that `Resolved` tells whether the name was resolved
  to a UID, and `store.go:6` that concurrent access is handled as a database would. A
  response can show a relation as resolved, and no UID.
- **MCLifecycleStop**: `server/main.go:72` expects GracefulStop to bring the streams to an
  end. It waits for Subscribe, which waits for the agent.

Met while modelling, and too plain to need a run:

- `metrics.go:53` reads a gap between the two relation gauges as a kind that is not
  collected, and `deploy/k8s/07-prometheus.yaml:95-96` has an alert on it. They are set one
  after the other (`server.go:77-78`), outside the lock: two streams that finish together
  leave a gap with every relation resolved. One agent is enough, when the 30 s of a send run
  out while its handler is past `Recv`.
- `metrics.go:68` calls the gauge by level the number of retained lines. A level whose
  lines are all evicted keeps its last value (`server.go:191`).
- `agent/main.go:171` stops the pause at 15 s; the test is made before doubling, and it
  reaches 16 s.
- `collector.proto:71`: `target_uid` is empty when resolution fails; `store.go:128`
  leaves what the agent sent.
- `store.go:275` (series oldest first) and `store_test.go:109` (logs newest first) are
  true of the order of arrival only.
- `meta.go:29-30` gives the order of the lists as what makes names resolvable; a ConfigMap
  created after its list is missing from a report that has the workload naming it. What
  holds is `ChainIsClosed`.
- `agent/main.go:287` and `:310-311`: `ready` is closed at the first target and not at the
  whole list, and the stream is not kept after an error: nobody subscribes again.
- The server's intervals (`server.go:230-232`) and the targets themselves are not used by the
  agent, whose ticker and stages are fixed.
- `cgroup.go:100` speaks of three values that are 0; two are tested. A CPU counter that
  cannot be read is sent as 0 beside a memory that can, and a cumulative counter appears to
  be reset.
- `metric_log.go:54-55` says that the caller can tell how many pods were dropped; nothing it
  gets says so.
- A static pod's slice is named by a hash of 32 digits, which `looksLikeUID` refuses: the
  node agent reports none of them.

### Bounds

`MaxBatches` (messages per stream), `MaxChanges` (changes of the cluster during a
collection), `MaxRestarts` and `MaxCrashes` (of the server), `MaxDeadlines` (of sends whose
batch size is not 0), `Window` (batches under way) and `MaxCPU` are bounds of the models;
the sets of streams, UIDs, objects and targets are small in the runs. Two streams are
enough for every race between handlers the code allows: handlers share only the store and
the series, and each property speaks of one stream and "the others". Two messages per
stream are needed for a stream that stores before and after another's resolution; three
retained elements and up to eight sent make the buffers overflow by one and by several.
A behaviour has one HTTP request, a listing or a summary: they only read. Three changes
let an object be deleted, created again, and sampled; a walk meets one pod that goes or
one counter that moves, and any number of pods that start. Two calls in `Delivery` are
what the times of the code allow: a cycle that failed is followed by another, and the one
before is over by then (an assumption of the model, in the guard of `Open`). Two deadlines
let both be given up. One restart of the server can come at any step, so a second finds
the same states. The theorems of section 4 do not have the bounds of their modules' runs.

### Fairness

A handler that has left its receive loop runs to its end (`WF(Finish)`), and so does a
request: the Go scheduler runs every goroutine that can run, and `sync.RWMutex`
starves neither side. Nothing makes a client send, close or break its stream in the
ingest modules. In `Agent` the goroutines of the process run, its timers fire, every call
returns by its deadline, and Kubernetes starts the server again; nothing makes the server
send, answer or succeed, nor a signal come. `EndsOnSignal` does not rest on a fair choice
of `select`: one tick at most is in the channel, and the cycle it may still start takes no
time once every call fails at once. In `Delivery` the agent goes on with its cycles,
deadlines pass (`MaxDeadlines` times, or for ever with a batch size of 0), handlers run and
the server is started again; a restart need not come. In `Lifecycle` reports end (their
clients set a deadline of 30 s), an agent need not leave.

A run says `CHECK_DEADLOCK FALSE` only where the program stops: a function that returns,
a process that ends. The server modules idle explicitly instead.

## 4. What is proved

Every invariant and every action property that a run checks is also a theorem, for every
value of the constants that meets the assumptions named in its module: any number of
streams, messages, resources, pods, namespaces, items, any buffer size, period, deadline
and number of restarts. By module:

**`Library_proofs`**: what the other proofs share.

- *Induction.* The induction theorems of the TLAPS library take the property as an
  operator, which the installed provers cannot instantiate. `LeastNumber` is derived from
  the one that does not (`WFMin`), and from it `NumbersInductively` and
  `FiniteSetsInductively`, which take the property as the set of what has it.
- *Sums.* `MapThenSumSet` over a finite set is a recursive function that exists
  (`FoldExists`), so it obeys its equation (`SumRecursion`); hence `SumElement` (a sum is
  any one term and the sum of the rest) and `SumOfClasses` (the sizes of the classes of a
  set add up to its size).
- *Retention.* `RetainIsNewest`: trimming after each append keeps the newest elements of
  the whole history; `DropConcatDrop` is the step in which two trims become one.

**`MetaIngest_proofs`**: `MetaIngest` and `ResourceListing`.

- *Links.* `ResolvedMeansFound` and `UnresolvedIsOwed` are inductive together with
  `TypeOK`. The steps that matter are `Accept` and `Resolve`; `OnlyAcceptOrResolve` says
  that no other changes the store. `Resolve` links everything that can be linked
  (`ResolveLinksAll`), and `Accept` makes its own stream owe a resolution (`BatchesGrow`).
- *The gauge by kind.* `TrackedNeverOverstates` is not inductive: a handler holds counts it
  has yet to write. `TrackedInv` adds that those do not overstate either; it is kept because
  the store only grows (`KindsGrow`).
- *Counters.* `CountersAgree` is inductive once its sums can be reasoned about: each step
  moves one stream into or out of one sum (`SumWithout`) and leaves what the others
  contribute (`SumOfOthers`).
- *The summary.* `SummaryParts` compares reads made at different moments. `ViewSoFar` says
  of each partial response what it implies about the store as it is now, which later steps
  can only strengthen: the store grows (`StoredGrows`), and items are only counted after
  they are stored (`CountedIsStored`). That the kinds, and the namespaces, add up to the
  number of resources is `SumOfClasses`.
- *Listings.* `ListedIsTrue`, although the encoder reads memory that `ResolveRelations` is
  writing. Each *word* of each link is true of its relation at any moment
  (`StoreIsTrue`, also of links that are not resolved), so words read at different
  moments are true together (`WordsAreTrue`); and what a listing has yet to read is
  memory that is still there, detached or not (`ReadingIsTrue`). A listing takes no part in
  the rest: its steps are steps of `MetaIngest` or none (`ListingIsServing`).

**`LogIngest_proofs`, `MetricIngest_proofs`**

- *Buffers.* `KeepsTheNewest`, inductive with `TypeOK` by `RetainIsNewest`.
- *Queries.* The loops of `Logs`, `LatestMetrics` and `MetricSeries` are recursive functions
  over positions. Each exists (`ScanExists`, `PassExists`, `SeriesExists`) and has an
  invariant of its own: after each line, `Logs` has the newest matches up to its limit
  (`Exact`); after each point, `LatestMetrics` has the first of the latest points of each
  resource and name (`Passed`), and `MetricSeries` all points of one (`HoldsAll`).
  `QueriesAreExact` follows at once, for every filter and every limit; `LatestIsLatest` with
  `KeepsTheNewest`, which makes positions in the buffer positions in the history
  (`RetainedPositions`); and `BackOnlyByEviction`, an action property, as nothing that is
  retained after a step is later than what is shown then (`NoneIsLater`).
- *The gauge by level.* `RetainedLevelsShown` is not inductive: `LevelsCarried` weakens what
  a stream owes to what it still carries, from its first line to the write of that level.

**The ledger**: `StatsAreALedger`, in all three ingest modules: initial states map to
initial states, and each step to a step of `StreamLedger` or a stutter. This is the safety
part of `ImplementsLedger`; its fairness is checked by TLC.

**`ClusterCollect_proofs`**: `SteadyIsReported` needs an invariant over the lists still to
come: a steady object is in the report, or its namespace is not begun, or its kind is not
yet listed in the current one. `ChainIsClosed` follows from it with `TargetKindsCollected`
(each kind that can be a target is listed) and the fact that the targets of a collected
resource are in its own namespace or are namespaces.

**`PodReports_proofs`**: `SteadyUsageIsOwn`, `SteadyLogsAreRead` and `MeasuredIsReal`. The
invariant has a part for each collector and rests on two facts about the cluster (`PodInv`):
no two pods have one name at a time, and a sample is of a pod that had its name. What a step
of the cluster may do to a collection under way is `PodShift`: what is steady only shrinks,
counters only grow. So an entry in the map of names of a pod that has been there all along
is right when it is made and stays right; and a namespace that has been passed has been
passed with all of its containers read, failed, or expired.

**`Agent_proofs`**

- `GivesUpInTime` from a bound on the clock that depends on where `waitForServer` is.
- `ChosenIsPrefix`: the first *r* targets of the list have been received and the next ones, up
  to `pushed`, are in `net` in order (`Received`). A stream that breaks leaves the
  rest of `net` unread, and as nobody subscribes again, no other list begins.
- `NoBurst` from an invariant about the ticker: a tick waits in its channel only if a period
  is over, or will be by the next tick, since the last cycle began; and the last two cycles
  with the time to the next tick make up a period.

**`Delivery_proofs`**: `Delivery` and `Lifecycle`, whose server ends in several ways.

- `RecordedIsWhole` and `RecordedIsHeld` need the chain that the batches under way form:
  each begins where the one before ends, the first where the handler's tally ends, and the
  last ends where the agent has got to. So a handler that finds the stream closed and empty
  has everything; and as whatever it has taken is in the store (nothing leaves it before the
  process ends), so has the server.
- `AckedIsExact`: every batch under way is full or the last (`FullOrLast`), so the number of batches
  tells how far a handler has got (`Counted`); the products are kept apart from the rest
  (`ProductStep`).
- `NoStreamCut`: once `Serve` can return, no call is open (`Uncut`), so the end of main cuts
  none.

### Assumptions

Each is named where its constants are declared, and TLC evaluates it in the runs.

| assumption | why the code justifies it |
|---|---|
| `KeyAssumption`, `ObservationAssumption` | Kubernetes does not reuse a UID; a UID the agent sends along is that of the resource named |
| `BatchAssumption` | a report lists an object once |
| `ProcessAssumption` | finitely many calls, of any number; a call is a stream or a request |
| `LogAssumption`, `MetricAssumption` | batches are sequences; the empty filter is no name, and no time is no number |
| `ClusterAssumption` | only namespaces and nodes are in no namespace; every object has a name |
| `PodAssumption` | the empty UID is nobody's |
| `NamespaceAssumption` | the API server lists a namespace once. It also says that what `SelectSeq` leaves are elements of the list, which cannot be derived: its definition is recursive |
| `NodeAssumption` | the three QoS classes; no container has the empty id |
| `WaitAssumption`, `TimeAssumption`, `TargetAssumption` | times are natural numbers, `Cap` and the period are not 0; targets are strings in a list |
| `CountAssumption`, `BoundAssumption` | counts are natural numbers. A batch size of 0 is among them, as it is among the flag's values |

### Only model-checked

Liveness under fairness (`LinkedInTheEnd`, `KeepsCollecting`, `EndsOnSignal`, `Recovers`,
`StopsWhenAlone`, and the fairness in `ImplementsLedger`) is out of the prover's reach; so
are the violations, each of which is one behaviour.

## 5. Not modelled

- The dashboard: each answer replaces what is shown, in one assignment. That refreshes
  overlap is recorded as a hazard.
- Generated code and the protocol: the messages are records. Deployment: manifests, which
  set the bounds and the fairness of the models.
- Start-up: flags, connections, clients, listening, static files.
- Text: the time stamp and level of a log line, the fields of a JSON response, the parsing
  of a query, the values of a sample. The limit of a container's memory, which is read and
  sent nowhere.
- The stream duration histogram and the split of rejections by reason: no decision depends
  on them.

## 6. Plan

Done: the ledger, the three ingest modules, the listing, all collectors, both agents,
delivery, shutdown, and the proofs above. Next, in this order:

1. Bounds that the liveness properties rest on and that are safety properties: how long a
   cycle takes at most, how many steps a handler has left.
2. The dashboard's overlapping refreshes, if it grows a state that two answers share.
