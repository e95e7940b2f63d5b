-------------------------- MODULE MetricIngest_proofs --------------------------
(***************************************************************************)
(* Theorems about MetricIngest for every set of streams and messages       *)
(* and every buffer size.                                                  *)
(***************************************************************************)
EXTENDS MetricIngest, Library_proofs

(* The two are preserved together: that the buffer is a suffix of what was
   appended is what gives the buffer its type. *)
Inv == TypeOK /\ KeepsTheNewest

LEMMA InvInit == Init => Inv
<1> SUFFICES ASSUME Init PROVE Inv
  OBVIOUS
<1>1. TypeOK
  <2>1. << >> \in Seq(Points)
    OBVIOUS
  <2> QED
    BY <2>1 DEF Init, TypeOK, StreamStates
<1>2. KeepsTheNewest
  <2>1. Newest(<< >>, MaxMetricPoints) = << >>
    BY MetricAssumption DEF Newest
  <2> QED
    BY <2>1 DEF Init, KeepsTheNewest
<1> QED
  BY <1>1, <1>2 DEF Inv

(* The points of an accepted batch carry a time the server took for past *)
LEMMA PointsType ==
    ASSUME NEW b \in Batches, Valid(b)
    PROVE  PointsOf(b) \in Seq(Points)
<1>1. b.samples \in Seq(Samples) /\ b.at \in Nat /\ b.at <= Horizon
  BY MetricAssumption DEF Valid
<1>2. Len(b.samples) \in Nat /\ b.at \in Times
  BY <1>1, LenProperties, MetricAssumption DEF Times
<1>3. ASSUME NEW i \in 1..Len(b.samples)
      PROVE  [sample |-> b.samples[i], at |-> b.at] \in Points
  <2>1. b.samples[i] \in Samples
    BY <1>1, ElementOfSeq
  <2> QED
    BY <1>2, <2>1 DEF Points
<1> QED
  BY <1>2, <1>3 DEF PointsOf

(* Storing a batch is the only step that touches the buffer *)
LEMMA BufferStep ==
    ASSUME Inv, [Next]_vars
    PROVE  \/ UNCHANGED <<metrics, appended>>
           \/ \E b \in Batches : Valid(b) /\ AppendMetrics(PointsOf(b))
BY DEF Next, ReportMetric, Finish, Idle, Accept, Reject, EndOfStream, Abort, RecordStream,
       Publish, Reply, vars, promVars, countVars

LEMMA NewestStep ==
    ASSUME Inv, [Next]_vars
    PROVE  /\ KeepsTheNewest'
           /\ metrics' \in Seq(Points) /\ appended' \in Seq(Points)
<1>1. CASE UNCHANGED <<metrics, appended>>
  BY <1>1 DEF Inv, TypeOK, KeepsTheNewest
<1>2. ASSUME NEW b \in Batches, Valid(b), AppendMetrics(PointsOf(b))
      PROVE  /\ KeepsTheNewest'
             /\ metrics' \in Seq(Points) /\ appended' \in Seq(Points)
  <2>1. PointsOf(b) \in Seq(Points) /\ MaxMetricPoints \in Nat
    BY <1>2, PointsType, MetricAssumption
  <2>2. metrics = Newest(appended, MaxMetricPoints) /\ appended \in Seq(Points)
    BY DEF Inv, TypeOK, KeepsTheNewest
  <2>3. appended' = appended \o PointsOf(b) /\ appended' \in Seq(Points)
    BY <1>2, <2>1, <2>2, ConcatProperties DEF AppendMetrics
  <2>4. metrics' = Newest(appended', MaxMetricPoints)
    BY <1>2, <2>1, <2>2, <2>3, RetainIsNewest DEF AppendMetrics
  <2>5. metrics' \in Seq(Points)
    BY <2>1, <2>3, <2>4, NewestBounds
  <2> QED
    BY <2>3, <2>4, <2>5 DEF KeepsTheNewest
<1> QED
  BY <1>1, <1>2, BufferStep

LEMMA BatchSize == \A b \in Batches : Len(b.samples) \in Nat
BY MetricAssumption, LenProperties

LEMMA TypeStep ==
    ASSUME Inv, [Next]_vars
    PROVE  TypeOK'
<1> USE DEF Inv, TypeOK, StreamStates, Goto
<1>0. metrics' \in Seq(Points) /\ appended' \in Seq(Points)
  BY NewestStep
<1>1. ASSUME NEW s \in Streams, Accept(s)
      PROVE  TypeOK'
  <2>1. PICK n \in Nat : items' = [items EXCEPT ![s] = @ + n]
    BY <1>1, BatchSize DEF Accept
  <2>2. items' \in [Streams -> Nat]
    BY <2>1
  <2>3. /\ batches' = [batches EXCEPT ![s] = @ + 1]
        /\ UNCHANGED <<stats, promReceived, promRejected, pc, rejected>>
    BY <1>1 DEF Accept, promVars
  <2>4. batches' \in [Streams -> Nat]
    BY <2>3
  <2>5. /\ stats' \in [batches : Nat, items : Nat, rejected : Nat]
        /\ promReceived' \in [batches : Nat, items : Nat] /\ promRejected' \in Nat
        /\ pc' \in [Streams -> StreamStates] /\ rejected' \in [Streams -> Nat]
    BY <2>3
  <2> HIDE DEF Inv, StreamStates
  <2> QED
    BY <1>0, <2>2, <2>4, <2>5
<1>2. ASSUME NEW s \in Streams, Reject(s)
      PROVE  TypeOK'
  <2>1. PICK n \in Nat : /\ rejected' = [rejected EXCEPT ![s] = @ + n]
                         /\ promRejected' = promRejected + n
    BY <1>2, BatchSize DEF Reject
  <2>2. rejected' \in [Streams -> Nat] /\ promRejected' \in Nat
    BY <2>1
  <2> QED
    BY <1>0, <1>2, <2>2 DEF Reject
<1>3. ASSUME NEW s \in Streams, EndOfStream(s) \/ Abort(s) \/ Reply(s)
      PROVE  TypeOK'
  BY <1>0, <1>3 DEF EndOfStream, Abort, Reply, promVars,
     countVars
<1>4. ASSUME NEW s \in Streams, RecordStream(s)
      PROVE  TypeOK'
  <2>1. stats' \in [batches : Nat, items : Nat, rejected : Nat]
    BY <1>4 DEF RecordStream
  <2> QED
    BY <1>0, <1>4, <2>1 DEF RecordStream, promVars, countVars
<1>5. ASSUME NEW s \in Streams, Publish(s)
      PROVE  TypeOK'
  BY <1>0, <1>5 DEF Publish, countVars
<1>6. CASE UNCHANGED vars
  BY <1>6 DEF vars, promVars, countVars
<1> QED
  BY <1>1, <1>2, <1>3, <1>4, <1>5, <1>6 DEF Next, ReportMetric, Finish, Idle

LEMMA InvStep == Inv /\ [Next]_vars => Inv'
BY NewestStep, TypeStep DEF Inv

(* Every reachable state of the metric half is well typed, for every set of
   streams and every buffer size. *)
THEOREM TypeCorrect == Spec => []TypeOK
<1>1. Inv => TypeOK
  BY DEF Inv
<1> QED
  BY <1>1, InvInit, InvStep, PTL DEF Spec

(* The metric buffer always holds exactly the newest MaxMetricPoints of all the
   points that concurrent ReportMetric streams ever appended. *)
THEOREM MetricsKeepTheNewest == Spec => []KeepsTheNewest
<1>1. Inv => KeepsTheNewest
  BY DEF Inv
<1> QED
  BY <1>1, InvInit, InvStep, PTL DEF Spec
-----------------------------------------------------------------------------
(***************************************************************************)
(* Queries.                                                                *)
(***************************************************************************)

Wanted(name, p) == name \in {NoFilter, p.sample.name}

Skips(name, p, latest) == \/ name # NoFilter /\ p.sample.name # name
                          \/ Key(p) \in DOMAIN latest /\ p.at <= latest[Key(p)].at

(* What the pass has after one more point *)
Kept(name, p, latest) ==
    IF Skips(name, p, latest) THEN latest
    ELSE [k \in DOMAIN latest \cup {Key(p)} |-> IF k = Key(p) THEN p ELSE latest[k]]

(* g is the pass of LatestMetrics over the first n points retained *)
IsPass(g, n, name) ==
    g = [i \in 0..n |-> IF i = 0 THEN [k \in {} |-> 0]
                        ELSE Kept(name, metrics[i], g[i - 1])]

LEMMA LatestIsPass ==
    ASSUME NEW name
    PROVE  LatestMetrics(name) =
              (CHOOSE g : IsPass(g, Len(metrics), name))[Len(metrics)]
BY DEF LatestMetrics, IsPass, Skips, Kept

LEMMA PassExists ==
    ASSUME NEW name, NEW n \in Nat
    PROVE  \E g : IsPass(g, n, name)
<1>1. PICK Good : Good = {k \in Nat : \E g : IsPass(g, k, name)}
  OBVIOUS
<1>2. 0 \in Good
  <2>1. IsPass([i \in 0..0 |-> [k \in {} |-> 0]], 0, name)
    BY DEF IsPass
  <2> QED
    BY <1>1, <2>1
<1>3. ASSUME NEW m \in Nat, m \in Good PROVE m + 1 \in Good
  <2>1. PICK g : IsPass(g, m, name)
    BY <1>1, <1>3
  <2>2. PICK h : h = [i \in 0..m + 1 |-> IF i = 0 THEN [k \in {} |-> 0]
                                         ELSE Kept(name, metrics[i], g[i - 1])]
    OBVIOUS
  <2>3. \A i \in 0..m + 1 : i # 0 => i - 1 \in 0..m
    OBVIOUS
  <2>4. \A i \in 0..m : i \in 0..m + 1 /\ h[i] = g[i]
    <3> SUFFICES ASSUME NEW i \in 0..m PROVE i \in 0..m + 1 /\ h[i] = g[i]
      OBVIOUS
    <3>1. i \in 0..m + 1
      OBVIOUS
    <3> QED
      BY <2>1, <2>2, <3>1 DEF IsPass
  <2>5. IsPass(h, m + 1, name)
    BY <2>2, <2>3, <2>4 DEF IsPass
  <2> QED
    BY <1>1, <2>5
<1>4. n \in Good
  BY <1>2, <1>3, NumbersInductively
<1> QED
  BY <1>1, <1>4

(* The j-th point is the latest of its resource and name among the first n,
   and the first of those as late. *)
FirstLatest(name, j, n) ==
    /\ j \in 1..n /\ Wanted(name, metrics[j])
    /\ \A i \in 1..n :
          Wanted(name, metrics[i]) /\ Key(metrics[i]) = Key(metrics[j]) =>
              \/ metrics[i].at < metrics[j].at
              \/ metrics[i].at = metrics[j].at /\ j <= i

(* What the pass has after n points *)
Passed(name, latest, n) ==
    /\ \A i \in 1..n : Wanted(name, metrics[i]) => Key(metrics[i]) \in DOMAIN latest
    /\ \A k \in DOMAIN latest : \E j \in 1..n :
          FirstLatest(name, j, n) /\ Key(metrics[j]) = k /\ latest[k] = metrics[j]

LEMMA PassStep ==
    ASSUME metrics \in Seq(Points), NEW name, NEW n \in Nat, n + 1 \in 1..Len(metrics),
           NEW latest, Passed(name, latest, n), NEW p, p = metrics[n + 1],
           NEW next, next = Kept(name, p, latest)
    PROVE  Passed(name, next, n + 1)
<1>0. \A i \in 1..n + 1 : i \in 1..n \/ i = n + 1
  OBVIOUS
<1>1. \A i \in 1..n + 1 : metrics[i].at \in Int
  <2>1. \A i \in 1..n + 1 : i \in 1..Len(metrics)
    BY LenProperties
  <2>2. \A i \in 1..Len(metrics) : metrics[i] \in Points
    BY ElementOfSeq
  <2> QED
    BY <2>1, <2>2 DEF Points, Times
<1>2. \A i \in 1..n : i \in 1..n + 1 /\ i <= n + 1
  OBVIOUS
<1>3. Wanted(name, p) <=> name = NoFilter \/ p.sample.name = name
  BY DEF Wanted
<1>4. ASSUME NEW j \in 1..n, FirstLatest(name, j, n),
             Wanted(name, p) /\ Key(p) = Key(metrics[j]) => p.at <= metrics[j].at
      PROVE  FirstLatest(name, j, n + 1)
  <2>1. p.at \in Int /\ metrics[j].at \in Int /\ j <= n + 1
    BY <1>1, <1>2
  <2>2. Wanted(name, p) /\ Key(p) = Key(metrics[j]) =>
            p.at < metrics[j].at \/ (p.at = metrics[j].at /\ j <= n + 1)
    BY <1>4, <2>1
  <2> QED
    BY <1>0, <1>2, <1>4, <2>2 DEF FirstLatest
<1>5. CASE ~Wanted(name, p)
  <2>1. next = latest
    BY <1>3, <1>5 DEF Skips, Kept
  <2>2. \A j \in 1..n : FirstLatest(name, j, n) => FirstLatest(name, j, n + 1)
    BY <1>4, <1>5
  <2> QED
    BY <1>0, <1>2, <1>5, <2>1, <2>2 DEF Passed
<1>6. CASE Wanted(name, p) /\ Key(p) \in DOMAIN latest /\ p.at <= latest[Key(p)].at
  <2>1. next = latest
    BY <1>6 DEF Skips, Kept
  <2>2. ASSUME NEW k \in DOMAIN latest
        PROVE  \E j \in 1..n + 1 : /\ FirstLatest(name, j, n + 1)
                                   /\ Key(metrics[j]) = k /\ latest[k] = metrics[j]
    <3>1. PICK j \in 1..n : /\ FirstLatest(name, j, n)
                            /\ Key(metrics[j]) = k /\ latest[k] = metrics[j]
      BY DEF Passed
    <3>2. FirstLatest(name, j, n + 1)
      BY <1>4, <1>6, <3>1
    <3> QED
      BY <1>2, <3>1, <3>2
  <2>3. \A i \in 1..n + 1 : Wanted(name, metrics[i]) => Key(metrics[i]) \in DOMAIN latest
    BY <1>0, <1>6 DEF Passed
  <2> QED
    BY <2>1, <2>2, <2>3 DEF Passed
<1>7. CASE /\ Wanted(name, p)
           /\ Key(p) \in DOMAIN latest => ~(p.at <= latest[Key(p)].at)
  <2>1. next = [k \in DOMAIN latest \cup {Key(p)} |->
                   IF k = Key(p) THEN p ELSE latest[k]]
    BY <1>3, <1>7 DEF Skips, Kept
  <2>2. /\ DOMAIN next = DOMAIN latest \cup {Key(p)} /\ next[Key(p)] = p
        /\ \A k \in DOMAIN latest : k # Key(p) => next[k] = latest[k]
    BY <2>1
  <2>3. FirstLatest(name, n + 1, n + 1)
    <3> SUFFICES ASSUME NEW i \in 1..n, Wanted(name, metrics[i]),
                        Key(metrics[i]) = Key(p)
                 PROVE  metrics[i].at < p.at
      BY <1>0, <1>7 DEF FirstLatest
    <3>1. Key(p) \in DOMAIN latest
      BY DEF Passed
    <3>2. PICK j \in 1..n : /\ FirstLatest(name, j, n)
                            /\ Key(metrics[j]) = Key(p) /\ latest[Key(p)] = metrics[j]
      BY <3>1 DEF Passed
    <3>3. metrics[i].at <= metrics[j].at
      <4>1. metrics[i].at \in Int /\ metrics[j].at \in Int
        BY <1>1, <1>2
      <4>2. metrics[i].at < metrics[j].at \/ metrics[i].at = metrics[j].at
        BY <3>2 DEF FirstLatest
      <4> QED
        BY <4>1, <4>2
    <3>4. ~(p.at <= metrics[j].at)
      BY <1>7, <3>1, <3>2
    <3>5. metrics[i].at \in Int /\ metrics[j].at \in Int /\ p.at \in Int
      BY <1>1, <1>2
    <3> QED
      BY <3>3, <3>4, <3>5
  <2>4. ASSUME NEW k \in DOMAIN next
        PROVE  \E j \in 1..n + 1 : /\ FirstLatest(name, j, n + 1)
                                   /\ Key(metrics[j]) = k /\ next[k] = metrics[j]
    <3>1. CASE k = Key(p)
      BY <2>2, <2>3, <3>1
    <3>2. CASE k # Key(p)
      <4>1. k \in DOMAIN latest /\ next[k] = latest[k]
        BY <2>2, <3>2
      <4>2. PICK j \in 1..n : /\ FirstLatest(name, j, n)
                              /\ Key(metrics[j]) = k /\ latest[k] = metrics[j]
        BY <4>1 DEF Passed
      <4>3. FirstLatest(name, j, n + 1)
        BY <1>4, <3>2, <4>2
      <4> QED
        BY <1>2, <4>1, <4>2, <4>3
    <3> QED
      BY <3>1, <3>2
  <2>5. \A i \in 1..n + 1 : Wanted(name, metrics[i]) => Key(metrics[i]) \in DOMAIN next
    BY <1>0, <2>2 DEF Passed
  <2> QED
    BY <2>4, <2>5 DEF Passed
<1> QED
  BY <1>5, <1>6, <1>7

(* LatestMetrics returns, for each resource and name with a point wanted, the
   first of its latest points. *)
LatestPassed ==
    \A name : Passed(name, LatestMetrics(name), Len(metrics))

LEMMA LatestIsExact == TypeOK => LatestPassed
<1> SUFFICES ASSUME TypeOK, NEW name
             PROVE  Passed(name, LatestMetrics(name), Len(metrics))
  BY DEF LatestPassed
<1>0. metrics \in Seq(Points)
  BY DEF TypeOK
<1>1. PICK N \in Nat : N = Len(metrics)
  BY <1>0, LenProperties
<1>2. PICK g : IsPass(g, N, name) /\ LatestMetrics(name) = g[N]
  <2>1. IsPass(CHOOSE g : IsPass(g, N, name), N, name)
    BY PassExists
  <2> QED
    BY <1>1, <2>1, LatestIsPass
<1>3. PICK Good : Good = {i \in Nat : i <= N => Passed(name, g[i], i)}
  OBVIOUS
<1>4. 0 \in Good
  <2>1. g[0] = [k \in {} |-> 0]
    BY <1>2 DEF IsPass
  <2>2. Passed(name, g[0], 0)
    BY <2>1 DEF Passed
  <2> QED
    BY <1>3, <2>2
<1>5. ASSUME NEW i \in Nat, i \in Good PROVE i + 1 \in Good
  <2> SUFFICES ASSUME i + 1 <= N PROVE Passed(name, g[i + 1], i + 1)
    BY <1>3
  <2>1. Passed(name, g[i], i) /\ i + 1 \in 1..Len(metrics)
    BY <1>1, <1>3, <1>5
  <2>2. i + 1 \in 0..N /\ i + 1 # 0 /\ (i + 1) - 1 = i
    OBVIOUS
  <2>3. PICK p : p = metrics[i + 1]
    OBVIOUS
  <2>4. g[i + 1] = Kept(name, p, g[i])
    <3>1. g[i + 1] = Kept(name, metrics[i + 1], g[(i + 1) - 1])
      BY <1>2, <2>2 DEF IsPass
    <3> QED
      BY <2>2, <2>3, <3>1
  <2> QED
    BY <1>0, <2>1, <2>3, <2>4, PassStep
<1>6. N \in Good
  BY <1>4, <1>5, NumbersInductively
<1> QED
  BY <1>1, <1>2, <1>3, <1>6

(* The buffer is the end of what was appended: its positions are positions
   there *)
LEMMA RetainedPositions ==
    ASSUME Inv
    PROVE  \E evicted \in Nat :
              /\ Len(appended) \in Nat /\ Len(metrics) \in Nat
              /\ evicted = Len(appended) - Len(metrics)
              /\ \A j \in 1..Len(metrics) : metrics[j] = appended[j + evicted]
<1>1. /\ appended \in Seq(Points) /\ MaxMetricPoints \in Nat
      /\ Len(appended) \in Nat /\ Len(metrics) \in Nat
  BY LenProperties, MetricAssumption DEF Inv, TypeOK
<1>2. PICK d : d = Excess(Len(appended), MaxMetricPoints)
  OBVIOUS
<1>3. d \in Nat /\ d <= Len(appended)
  BY <1>1, <1>2, ExcessBounds
<1>4. metrics = Drop(appended, d)
  BY <1>1, <1>2, NewestIsDrop DEF Inv, KeepsTheNewest
<1>5. /\ Len(metrics) = Len(appended) - d
      /\ \A i \in 1..Len(appended) - d : metrics[i] = appended[i + d]
  BY <1>1, <1>3, <1>4, DropElements
<1>6. d = Len(appended) - Len(metrics)
  BY <1>1, <1>3, <1>5
<1> QED
  BY <1>1, <1>3, <1>5, <1>6

(* The series after one more point, and the pass of MetricSeries over n *)
Extended(k, p, series) == IF Key(p) = k THEN Append(series, p) ELSE series
IsSeries(g, n, k) ==
    g = [i \in 0..n |-> IF i = 0 THEN << >> ELSE Extended(k, metrics[i], g[i - 1])]

LEMMA MetricSeriesIsSeries ==
    ASSUME NEW uid, NEW name
    PROVE  MetricSeries(uid, name) =
              (CHOOSE g : IsSeries(g, Len(metrics), <<uid, name>>))[Len(metrics)]
BY DEF MetricSeries, IsSeries, Extended

LEMMA SeriesExists ==
    ASSUME NEW k, NEW n \in Nat
    PROVE  \E g : IsSeries(g, n, k)
<1>1. PICK Good : Good = {m \in Nat : \E g : IsSeries(g, m, k)}
  OBVIOUS
<1>2. 0 \in Good
  <2>1. IsSeries([i \in 0..0 |-> << >>], 0, k)
    BY DEF IsSeries
  <2> QED
    BY <1>1, <2>1
<1>3. ASSUME NEW m \in Nat, m \in Good PROVE m + 1 \in Good
  <2>1. PICK g : IsSeries(g, m, k)
    BY <1>1, <1>3
  <2>2. PICK h : h = [i \in 0..m + 1 |-> IF i = 0 THEN << >>
                                         ELSE Extended(k, metrics[i], g[i - 1])]
    OBVIOUS
  <2>3. \A i \in 0..m + 1 : i # 0 => i - 1 \in 0..m
    OBVIOUS
  <2>4. \A i \in 0..m : i \in 0..m + 1 /\ h[i] = g[i]
    <3> SUFFICES ASSUME NEW i \in 0..m PROVE i \in 0..m + 1 /\ h[i] = g[i]
      OBVIOUS
    <3>1. i \in 0..m + 1
      OBVIOUS
    <3> QED
      BY <2>1, <2>2, <3>1 DEF IsSeries
  <2>5. IsSeries(h, m + 1, k)
    BY <2>2, <2>3, <2>4 DEF IsSeries
  <2> QED
    BY <1>1, <2>5
<1>4. n \in Good
  BY <1>2, <1>3, NumbersInductively
<1> QED
  BY <1>1, <1>4

(* A series over the first n points holds those of its resource and name *)
HoldsAll(series, n, k) ==
    /\ series \in Seq(Points)
    /\ \A i \in 1..n : Key(metrics[i]) = k => metrics[i] \in Range(series)
    /\ \A p \in Range(series) : \E i \in 1..n : Key(metrics[i]) = k /\ p = metrics[i]

LEMMA AppendRange ==
    ASSUME NEW S, NEW s \in Seq(S), NEW x \in S
    PROVE  /\ Append(s, x) \in Seq(S)
           /\ Range(Append(s, x)) = Range(s) \cup {x}
<1>1. PICK n \in Nat : n = Len(s)
  BY LenProperties
<1>2. /\ Append(s, x) \in Seq(S) /\ DOMAIN Append(s, x) = 1..n + 1
      /\ DOMAIN s = 1..n /\ Append(s, x)[n + 1] = x
      /\ \A i \in 1..n : Append(s, x)[i] = s[i]
  BY <1>1, AppendProperties, LenProperties
<1>3. 1..n + 1 = (1..n) \cup {n + 1}
  OBVIOUS
<1> QED
  BY <1>2, <1>3 DEF Range

LEMMA SeriesStep ==
    ASSUME metrics \in Seq(Points), NEW k, NEW n \in Nat, n + 1 \in 1..Len(metrics),
           NEW series, HoldsAll(series, n, k)
    PROVE  HoldsAll(Extended(k, metrics[n + 1], series), n + 1, k)
<1>1. metrics[n + 1] \in Points
  BY ElementOfSeq
<1>2. 1..n + 1 = (1..n) \cup {n + 1}
  OBVIOUS
<1>3. CASE Key(metrics[n + 1]) = k
  <2>1. /\ Append(series, metrics[n + 1]) \in Seq(Points)
        /\ Range(Append(series, metrics[n + 1])) = Range(series) \cup {metrics[n + 1]}
    BY <1>1, AppendRange DEF HoldsAll
  <2> QED
    BY <1>2, <1>3, <2>1 DEF HoldsAll, Extended
<1>4. CASE Key(metrics[n + 1]) # k
  BY <1>2, <1>4 DEF HoldsAll, Extended
<1> QED
  BY <1>3, <1>4

LEMMA SeriesIsComplete ==
    ASSUME TypeOK, NEW uid, NEW name
    PROVE  HoldsAll(MetricSeries(uid, name), Len(metrics), <<uid, name>>)
<1>0. metrics \in Seq(Points)
  BY DEF TypeOK
<1>1. PICK N \in Nat : N = Len(metrics)
  BY <1>0, LenProperties
<1>2. PICK k : k = <<uid, name>>
  OBVIOUS
<1>3. PICK g : IsSeries(g, N, k) /\ MetricSeries(uid, name) = g[N]
  <2>1. IsSeries(CHOOSE g : IsSeries(g, N, k), N, k)
    BY SeriesExists
  <2> QED
    BY <1>1, <1>2, <2>1, MetricSeriesIsSeries
<1>4. PICK Good : Good = {i \in Nat : i <= N => HoldsAll(g[i], i, k)}
  OBVIOUS
<1>5. 0 \in Good
  <2>1. g[0] = << >>
    BY <1>3 DEF IsSeries
  <2>2. HoldsAll(<< >>, 0, k)
    BY DEF HoldsAll, Range
  <2> QED
    BY <1>4, <2>1, <2>2
<1>6. ASSUME NEW i \in Nat, i \in Good PROVE i + 1 \in Good
  <2> SUFFICES ASSUME i + 1 <= N PROVE HoldsAll(g[i + 1], i + 1, k)
    BY <1>4
  <2>1. HoldsAll(g[i], i, k) /\ i + 1 \in 1..Len(metrics)
    BY <1>1, <1>4, <1>6
  <2>2. i + 1 \in 0..N /\ i + 1 # 0 /\ (i + 1) - 1 = i
    OBVIOUS
  <2>3. g[i + 1] = Extended(k, metrics[i + 1], g[i])
    <3>1. g[i + 1] = Extended(k, metrics[i + 1], g[(i + 1) - 1])
      BY <1>3, <2>2 DEF IsSeries
    <3> QED
      BY <2>2, <3>1
  <2> QED
    BY <1>0, <2>1, <2>3, SeriesStep
<1>7. N \in Good
  BY <1>5, <1>6, NumbersInductively
<1> QED
  BY <1>1, <1>2, <1>3, <1>4, <1>7

LEMMA TimesAreNumbers ==
    ASSUME TypeOK
    PROVE  \A i \in 1..Len(metrics) : metrics[i].at \in Int
<1>1. \A i \in 1..Len(metrics) : metrics[i] \in Points
  BY ElementOfSeq DEF TypeOK
<1> QED
  BY <1>1 DEF Points, Times

(* The point of latest time ever reported, while it is retained, is the one
   the pass ends with. *)
LEMMA LatestEverIsShown ==
    ASSUME Inv, LatestPassed, NEW name, NEW i \in DOMAIN appended,
           i > Len(appended) - Len(metrics), Wanted(name, appended[i]), IsLatestEver(i)
    PROVE  LatestMetrics(name)[Key(appended[i])] = appended[i]
<1>0. TypeOK
  BY DEF Inv
<1>1. PICK evicted \in Nat :
          /\ Len(appended) \in Nat /\ Len(metrics) \in Nat
          /\ evicted = Len(appended) - Len(metrics)
          /\ \A j \in 1..Len(metrics) : metrics[j] = appended[j + evicted]
  BY RetainedPositions
<1>2. DOMAIN appended = 1..Len(appended)
  BY <1>0, LenProperties DEF TypeOK
<1>3. PICK m \in 1..Len(metrics) : i = m + evicted /\ metrics[m] = appended[i]
  <2>1. i - evicted \in 1..Len(metrics) /\ i = (i - evicted) + evicted
    BY <1>1, <1>2
  <2> QED
    BY <1>1, <2>1
<1>4. Passed(name, LatestMetrics(name), Len(metrics))
  BY DEF LatestPassed
<1>5. Key(metrics[m]) \in DOMAIN LatestMetrics(name)
  BY <1>3, <1>4 DEF Passed
<1>6. PICK j \in 1..Len(metrics) :
          /\ FirstLatest(name, j, Len(metrics))
          /\ Key(metrics[j]) = Key(metrics[m])
          /\ LatestMetrics(name)[Key(metrics[m])] = metrics[j]
  BY <1>4, <1>5 DEF Passed
<1>7. metrics[m].at < metrics[j].at \/ (metrics[m].at = metrics[j].at /\ j <= m)
  BY <1>3, <1>6 DEF FirstLatest
<1>8. j + evicted \in DOMAIN appended /\ metrics[j] = appended[j + evicted]
  BY <1>1, <1>2
<1>9. metrics[m].at \in Int /\ metrics[j].at \in Int
  BY <1>0, TimesAreNumbers
<1>10. j + evicted = i
  <2> SUFFICES ASSUME j + evicted # i PROVE FALSE
    OBVIOUS
  <2>1. \/ metrics[j].at < metrics[m].at
        \/ metrics[j].at = metrics[m].at /\ i < j + evicted
    BY <1>3, <1>6, <1>8 DEF IsLatestEver
  <2> QED
    BY <1>1, <1>3, <1>7, <1>9, <2>1
<1> QED
  BY <1>3, <1>6, <1>8, <1>10

LEMMA LatestHolds == Inv /\ LatestPassed => LatestIsLatest
<1> SUFFICES ASSUME Inv, LatestPassed,
                    NEW name \in {x.name : x \in Samples} \cup {NoFilter},
                    NEW latest, latest = LatestMetrics(name)
             PROVE  /\ \A i \in DOMAIN appended :
                          /\ i > Len(appended) - Len(metrics)
                          /\ Wanted(name, appended[i]) /\ IsLatestEver(i)
                          => latest[Key(appended[i])] = appended[i]
                    /\ DOMAIN latest =
                          {Key(metrics[i]) : i \in {j \in DOMAIN metrics :
                                                       Wanted(name, metrics[j])}}
                    /\ \A k \in DOMAIN latest :
                          /\ latest[k] \in Range(MetricSeries(k[1], k[2]))
                          /\ \A p \in Range(MetricSeries(k[1], k[2])) :
                                p.at <= latest[k].at
  BY DEF LatestIsLatest, Wanted
<1>1. Passed(name, latest, Len(metrics))
  BY DEF LatestPassed
<1>2. DOMAIN metrics = 1..Len(metrics) /\ TypeOK
  BY LenProperties DEF Inv, TypeOK
<1>3. DOMAIN latest = {Key(metrics[i]) : i \in {j \in DOMAIN metrics :
                                                   Wanted(name, metrics[j])}}
  BY <1>1, <1>2 DEF Passed, FirstLatest
<1>4. ASSUME NEW k \in DOMAIN latest, NEW series, series = MetricSeries(k[1], k[2])
      PROVE  latest[k] \in Range(series) /\ \A p \in Range(series) : p.at <= latest[k].at
  <2>1. PICK j \in 1..Len(metrics) : /\ FirstLatest(name, j, Len(metrics))
                                     /\ Key(metrics[j]) = k /\ latest[k] = metrics[j]
    BY <1>1 DEF Passed
  <2>2. <<k[1], k[2]>> = k
    BY <2>1 DEF Key
  <2>3. HoldsAll(series, Len(metrics), k)
    BY <1>2, <1>4, <2>2, SeriesIsComplete
  <2>4. ASSUME NEW p \in Range(series) PROVE p.at <= latest[k].at
    <3>1. PICK i \in 1..Len(metrics) : Key(metrics[i]) = k /\ p = metrics[i]
      BY <2>3 DEF HoldsAll
    <3>2. Wanted(name, metrics[i])
      BY <2>1, <3>1 DEF FirstLatest, Wanted, Key
    <3>3. metrics[i].at < metrics[j].at \/ metrics[i].at = metrics[j].at
      BY <2>1, <3>1, <3>2 DEF FirstLatest
    <3>4. metrics[i].at \in Int /\ metrics[j].at \in Int
      BY <1>2, TimesAreNumbers
    <3> QED
      BY <2>1, <3>1, <3>3, <3>4
  <2> QED
    BY <2>1, <2>3, <2>4 DEF HoldsAll
<1> QED
  BY <1>3, <1>4, LatestEverIsShown

(* What a query for the latest metrics shows of a resource and name is, at
   every moment, the latest point ever reported of it unless that was evicted,
   and agrees with the series of the same resource, for every set of concurrent
   streams, every buffer size and every order of the times sent. *)
THEOREM LatestIsShown == Spec => []LatestIsLatest
<1>1. Inv => TypeOK
  BY DEF Inv
<1> QED
  BY <1>1, InvInit, InvStep, LatestIsExact, LatestHolds, PTL DEF Spec

(* Whatever is retained, what is shown of its resource and name is no older *)
NoneIsLater ==
    \A p \in Range(metrics) :
        /\ Key(p) \in DOMAIN LatestMetrics(NoFilter)
        /\ LatestMetrics(NoFilter)[Key(p)].at >= p.at

ShownUnderItsKey ==
    \A k \in DOMAIN LatestMetrics(NoFilter) : Key(LatestMetrics(NoFilter)[k]) = k

LEMMA ShownIsNewest == TypeOK /\ LatestPassed => NoneIsLater /\ ShownUnderItsKey
<1> SUFFICES ASSUME TypeOK, LatestPassed, NEW latest, latest = LatestMetrics(NoFilter)
             PROVE  /\ \A p \in Range(metrics) : /\ Key(p) \in DOMAIN latest
                                                 /\ latest[Key(p)].at >= p.at
                    /\ \A k \in DOMAIN latest : Key(latest[k]) = k
  BY DEF NoneIsLater, ShownUnderItsKey
<1>1. Passed(NoFilter, latest, Len(metrics))
  BY DEF LatestPassed
<1>2. DOMAIN metrics = 1..Len(metrics)
  BY LenProperties DEF TypeOK
<1>3. ASSUME NEW i \in 1..Len(metrics)
      PROVE  /\ Key(metrics[i]) \in DOMAIN latest
             /\ latest[Key(metrics[i])].at >= metrics[i].at
  <2>1. Wanted(NoFilter, metrics[i])
    BY DEF Wanted
  <2>2. Key(metrics[i]) \in DOMAIN latest
    BY <1>1, <2>1 DEF Passed
  <2>3. PICK j \in 1..Len(metrics) : /\ FirstLatest(NoFilter, j, Len(metrics))
                                     /\ Key(metrics[j]) = Key(metrics[i])
                                     /\ latest[Key(metrics[i])] = metrics[j]
    BY <1>1, <2>2 DEF Passed
  <2>4. metrics[i].at < metrics[j].at \/ metrics[i].at = metrics[j].at
    BY <2>1, <2>3 DEF FirstLatest
  <2>5. metrics[i].at \in Int /\ metrics[j].at \in Int
    BY TimesAreNumbers
  <2> QED
    BY <2>2, <2>3, <2>4, <2>5
<1>4. \A k \in DOMAIN latest : Key(latest[k]) = k
  BY <1>1 DEF Passed
<1> QED
  BY <1>2, <1>3, <1>4 DEF Range

LEMMA BackStep ==
    ASSUME ShownUnderItsKey, NoneIsLater'
    PROVE  LET latest == LatestMetrics(NoFilter) IN
           \A k \in DOMAIN latest :
               latest[k] \in Range(metrics)' =>
                   LatestMetrics(NoFilter)'[k].at >= latest[k].at
<1> SUFFICES ASSUME NEW k \in DOMAIN LatestMetrics(NoFilter),
                    LatestMetrics(NoFilter)[k] \in Range(metrics)'
             PROVE  LatestMetrics(NoFilter)'[k].at >= LatestMetrics(NoFilter)[k].at
  OBVIOUS
<1>1. Key(LatestMetrics(NoFilter)[k]) = k
  BY DEF ShownUnderItsKey
<1>2. \A p \in Range(metrics)' : LatestMetrics(NoFilter)'[Key(p)].at >= p.at
  BY DEF NoneIsLater
<1> QED
  BY <1>1, <1>2

(* No step of any stream makes the view of the latest metrics go back in time
   for a resource and name, unless it evicts the point that was shown. *)
THEOREM ShownMovesForward == Spec => BackOnlyByEviction
<1>1. Inv => TypeOK
  BY DEF Inv
<1>2. Spec => [](ShownUnderItsKey /\ NoneIsLater)
  BY <1>1, InvInit, InvStep, LatestIsExact, ShownIsNewest, PTL DEF Spec
<1>3. (ShownUnderItsKey /\ NoneIsLater) /\ (ShownUnderItsKey /\ NoneIsLater)' =>
        [LET latest == LatestMetrics(NoFilter) IN
         \A k \in DOMAIN latest :
             latest[k] \in Range(metrics)' =>
                 LatestMetrics(NoFilter)'[k].at >= latest[k].at]_vars
  BY BackStep
<1> QED
  BY <1>2, <1>3, PTL DEF BackOnlyByEviction

-----------------------------------------------------------------------------
(***************************************************************************)
(* Refinement: the safety part of the ledger.                              *)
(***************************************************************************)

LEMMA LedgerInit == Init => Ledger!Init
BY DEF Init, Ledger!Init, Ledger!Zero, StatusOf

(* The counts of stream s may grow; those of the others are kept *)
GrowsOnlyAt(s) ==
    /\ batches'[s] \in Nat /\ items'[s] \in Nat /\ rejected'[s] \in Nat
    /\ batches'[s] >= batches[s] /\ items'[s] >= items[s]
    /\ rejected'[s] >= rejected[s]
    /\ \A t \in Streams : t # s => /\ batches'[t] = batches[t]
                                   /\ items'[t] = items[t]
                                   /\ rejected'[t] = rejected[t]

LEMMA TakeStep ==
    ASSUME TypeOK, NEW s \in Streams, Accept(s) \/ Reject(s)
    PROVE  Ledger!Take(s)
<1> DEFINE st == [t \in Streams |-> StatusOf(pc[t])]
           ta == [t \in Streams |-> [batches |-> batches[t], items |-> items[t],
                                     rejected |-> rejected[t]]]
<1>1. st[s] = "open" /\ st' = st /\ stats' = stats
  BY DEF Accept, Reject, StatusOf
<1>2. \/ \E n \in Nat : /\ batches' = [batches EXCEPT ![s] = @ + 1]
                        /\ items' = [items EXCEPT ![s] = @ + n]
                        /\ rejected' = rejected
      \/ \E n \in Nat : /\ rejected' = [rejected EXCEPT ![s] = @ + n]
                        /\ UNCHANGED <<batches, items>>
  <2>1. CASE Accept(s)
    BY <2>1, BatchSize DEF Accept
  <2>2. CASE Reject(s)
    BY <2>2, BatchSize DEF Reject
  <2> QED
    BY <2>1, <2>2
<1>3. /\ ta'[s] \in [batches : Nat, items : Nat, rejected : Nat]
      /\ ta'[s].batches >= ta[s].batches
      /\ ta'[s].items >= ta[s].items
      /\ ta'[s].rejected >= ta[s].rejected
      /\ \A t \in Streams : t # s => ta'[t] = ta[t]
  <2>1. ASSUME NEW n \in Nat, batches' = [batches EXCEPT ![s] = @ + 1],
               items' = [items EXCEPT ![s] = @ + n], rejected' = rejected
        PROVE  GrowsOnlyAt(s)
    BY <2>1 DEF TypeOK, GrowsOnlyAt
  <2>2. ASSUME NEW n \in Nat, rejected' = [rejected EXCEPT ![s] = @ + n],
               UNCHANGED <<batches, items>>
        PROVE  GrowsOnlyAt(s)
    BY <2>2 DEF TypeOK, GrowsOnlyAt
  <2>3. GrowsOnlyAt(s)
    BY <1>2, <2>1, <2>2
  <2> QED
    BY <2>3 DEF GrowsOnlyAt
<1>4. ta' = [ta EXCEPT ![s] = ta'[s]]
  BY <1>3
<1> QED
  BY <1>1, <1>3, <1>4 DEF Ledger!Take, Ledger!Tallies

LEMMA LedgerStep == TypeOK /\ [Next]_vars => [Ledger!Next]_Ledger!vars
<1> SUFFICES ASSUME TypeOK, [Next]_vars PROVE [Ledger!Next]_Ledger!vars
  OBVIOUS
<1> DEFINE st == [s \in Streams |-> StatusOf(pc[s])]
           ta == [s \in Streams |-> [batches |-> batches[s], items |-> items[s],
                                     rejected |-> rejected[s]]]
<1> USE DEF Goto
<1>1. ASSUME NEW s \in Streams, EndOfStream(s) PROVE Ledger!Close(s)
  <2>1. st[s] = "open" /\ st' = [st EXCEPT ![s] = "closed"]
    BY <1>1 DEF EndOfStream, StatusOf, TypeOK
  <2> QED
    BY <1>1, <2>1 DEF EndOfStream, Ledger!Close, Ledger!Move, countVars
<1>2. ASSUME NEW s \in Streams, Abort(s) PROVE Ledger!Lose(s)
  <2>1. st[s] = "open" /\ st' = [st EXCEPT ![s] = "lost"]
    BY <1>2 DEF Abort, StatusOf, TypeOK
  <2> QED
    BY <1>2, <2>1 DEF Abort, Ledger!Lose, Ledger!Move, countVars
<1>3. ASSUME NEW s \in Streams, RecordStream(s) PROVE Ledger!Count(s)
  <2>1. st[s] = "closed" /\ st' = [st EXCEPT ![s] = "counted"]
    BY <1>3 DEF RecordStream, StatusOf, TypeOK
  <2>2. stats' = Ledger!Sum(stats, ta[s]) /\ ta' = ta
    BY <1>3 DEF RecordStream, Ledger!Sum, countVars
  <2> QED
    BY <2>1, <2>2 DEF Ledger!Count, Ledger!Move
<1>4. ASSUME NEW s \in Streams, Reply(s) PROVE Ledger!Answer(s)
  <2>1. st[s] = "counted" /\ st' = [st EXCEPT ![s] = "answered"]
    BY <1>4 DEF Reply, StatusOf, TypeOK
  <2> QED
    BY <1>4, <2>1 DEF Reply, Ledger!Answer, Ledger!Move, countVars
<1>5. ASSUME NEW s \in Streams, Publish(s)
      PROVE  UNCHANGED Ledger!vars
  <2>1. UNCHANGED <<stats, batches, items, rejected>>
    BY <1>5 DEF Publish, countVars
  <2>2. StatusOf(pc'[s]) = StatusOf(pc[s])
        /\ \A t \in Streams : t # s => pc'[t] = pc[t]
    BY <1>5 DEF Publish, StatusOf, TypeOK
  <2>3. st' = st
    BY <2>2
  <2> QED
    BY <2>1, <2>3 DEF Ledger!vars
<1>6. CASE UNCHANGED vars
  BY <1>6 DEF vars, countVars, Ledger!vars
<1> QED
  BY <1>1, <1>2, <1>3, <1>4, <1>5, <1>6, TakeStep
     DEF Next, ReportMetric, Finish, Idle, Ledger!Next

(* Store.stats.Metric is a ledger of the ReportMetric streams: each stream that
   ends cleanly is added once, before its client is answered, and a stream
   that was cut off is never added. *)
THEOREM StatsAreALedger == Spec => Ledger!Init /\ [][Ledger!Next]_Ledger!vars
<1>1. Inv => TypeOK
  BY DEF Inv
<1> QED
  BY <1>1, InvInit, InvStep, LedgerInit, LedgerStep, PTL DEF Spec
=============================================================================
