--------------------------- MODULE LogIngest_proofs ---------------------------
(***************************************************************************)
(* Theorems about LogIngest for every set of streams and messages and      *)
(* every buffer size.                                                      *)
(***************************************************************************)
EXTENDS LogIngest, Library_proofs

(* The two are preserved together: that the buffer is a suffix of what was
   appended is what gives the buffer its type. *)
Inv == TypeOK /\ KeepsTheNewest

LEMMA InvInit == Init => Inv
<1> SUFFICES ASSUME Init PROVE Inv
  OBVIOUS
<1>1. TypeOK
  <2>1. << >> \in Seq(Lines)
    OBVIOUS
  <2> QED
    BY <2>1 DEF Init, TypeOK, NoStats, StreamStates
<1>2. KeepsTheNewest
  <2>1. Newest(<< >>, MaxLogLines) = << >>
    BY LogAssumption DEF Newest
  <2> QED
    BY <2>1 DEF Init, KeepsTheNewest
<1> QED
  BY <1>1, <1>2 DEF Inv

(* Storing a batch is the only step that touches the buffer *)
LEMMA BufferStep ==
    ASSUME Inv, [Next]_vars
    PROVE  \/ UNCHANGED <<logs, appended>>
           \/ \E b \in Batches : AppendLogs(b.entries)
BY DEF Next, ReportLog, Finish, Idle, Accept, Reject, EndOfStream, Abort, RecordStream,
       Publish, CountLevels, SetLevel, Reply, vars, promVars, countVars

LEMMA NewestStep ==
    ASSUME Inv, [Next]_vars
    PROVE  /\ KeepsTheNewest'
           /\ logs' \in Seq(Lines) /\ appended' \in Seq(Lines)
<1>1. CASE UNCHANGED <<logs, appended>>
  BY <1>1 DEF Inv, TypeOK, KeepsTheNewest
<1>2. ASSUME NEW b \in Batches, AppendLogs(b.entries)
      PROVE  /\ KeepsTheNewest'
             /\ logs' \in Seq(Lines) /\ appended' \in Seq(Lines)
  <2>1. b.entries \in Seq(Lines) /\ MaxLogLines \in Nat
    BY LogAssumption
  <2>2. logs = Newest(appended, MaxLogLines) /\ appended \in Seq(Lines)
    BY DEF Inv, TypeOK, KeepsTheNewest
  <2>3. appended' = appended \o b.entries /\ appended' \in Seq(Lines)
    BY <1>2, <2>1, <2>2, ConcatProperties DEF AppendLogs
  <2>4. logs' = Newest(appended', MaxLogLines)
    BY <1>2, <2>1, <2>2, <2>3, RetainIsNewest DEF AppendLogs
  <2>5. logs' \in Seq(Lines)
    BY <2>1, <2>3, <2>4, NewestBounds
  <2> QED
    BY <2>3, <2>4, <2>5 DEF KeepsTheNewest
<1> QED
  BY <1>1, <1>2, BufferStep

LEMMA BatchSize == \A b \in Batches : Len(b.entries) \in Nat
BY LogAssumption, LenProperties

LEMMA TypeStep ==
    ASSUME Inv, [Next]_vars
    PROVE  TypeOK'
<1> USE DEF Inv, TypeOK, StreamStates, Goto
<1>0. logs' \in Seq(Lines) /\ appended' \in Seq(Lines)
  BY NewestStep
<1>1. ASSUME NEW s \in Streams, Accept(s)
      PROVE  TypeOK'
  <2>1. PICK n \in Nat : items' = [items EXCEPT ![s] = @ + n]
    BY <1>1, BatchSize DEF Accept
  <2>2. items' \in [Streams -> Nat]
    BY <2>1
  <2>3. /\ batches' = [batches EXCEPT ![s] = @ + 1]
        /\ UNCHANGED <<stats, promReceived, promRejected, pc, rejected>>
    BY <1>1 DEF Accept, promVars
  <2>4. batches' \in [Streams -> Nat]
    BY <2>3
  <2>5. /\ stats' \in [batches : Nat, items : Nat, rejected : Nat]
        /\ promReceived' \in [batches : Nat, items : Nat] /\ promRejected' \in Nat
        /\ pc' \in [Streams -> StreamStates] /\ rejected' \in [Streams -> Nat]
    BY <2>3
  <2> HIDE DEF Inv, StreamStates
  <2> QED
    BY <1>0, <2>2, <2>4, <2>5
<1>2. ASSUME NEW s \in Streams, Reject(s)
      PROVE  TypeOK'
  <2>1. PICK n \in Nat : /\ rejected' = [rejected EXCEPT ![s] = @ + n]
                         /\ promRejected' = promRejected + n
    BY <1>2, BatchSize DEF Reject
  <2>2. rejected' \in [Streams -> Nat] /\ promRejected' \in Nat
    BY <2>1
  <2> QED
    BY <1>0, <1>2, <2>2 DEF Reject
<1>3. ASSUME NEW s \in Streams, EndOfStream(s) \/ Abort(s) \/ CountLevels(s)
                                \/ SetLevel(s) \/ Reply(s)
      PROVE  TypeOK'
  <2>1. UNCHANGED <<stats, promReceived, promRejected, batches, items, rejected>>
    BY <1>3 DEF EndOfStream, Abort, CountLevels, SetLevel, Reply, promVars, countVars
  <2>2. \E state \in StreamStates : pc' = [pc EXCEPT ![s] = state]
    BY <1>3 DEF EndOfStream, Abort, CountLevels, SetLevel, Reply
  <2>3. pc' \in [Streams -> StreamStates]
    BY <2>2
  <2> QED
    BY <1>0, <2>1, <2>3
<1>4. ASSUME NEW s \in Streams, RecordStream(s)
      PROVE  TypeOK'
  <2>1. UNCHANGED <<promReceived, promRejected, batches, items, rejected>>
    BY <1>4 DEF RecordStream, promVars, countVars
  <2>2. stats' \in [batches : Nat, items : Nat, rejected : Nat]
    BY <1>4 DEF RecordStream
  <2>3. pc' \in [Streams -> StreamStates]
    BY <1>4 DEF RecordStream
  <2> QED
    BY <1>0, <2>1, <2>2, <2>3
<1>5. ASSUME NEW s \in Streams, Publish(s)
      PROVE  TypeOK'
  BY <1>0, <1>5 DEF Publish, countVars
<1>6. CASE UNCHANGED vars
  BY <1>6 DEF vars, promVars, countVars
<1> QED
  BY <1>1, <1>2, <1>3, <1>4, <1>5, <1>6 DEF Next, ReportLog, Finish, Idle

LEMMA InvStep == Inv /\ [Next]_vars => Inv'
BY NewestStep, TypeStep DEF Inv

(* Every reachable state of the log half is well typed, for every set of
   streams and every buffer size. *)
THEOREM TypeCorrect == Spec => []TypeOK
<1>1. Inv => TypeOK
  BY DEF Inv
<1> QED
  BY <1>1, InvInit, InvStep, PTL DEF Spec

(* The log buffer always holds exactly the newest MaxLogLines of all the
   lines that concurrent ReportLog streams ever appended. *)
THEOREM LogsKeepTheNewest == Spec => []KeepsTheNewest
<1>1. Inv => KeepsTheNewest
  BY DEF Inv
<1> QED
  BY <1>1, InvInit, InvStep, PTL DEF Spec
-----------------------------------------------------------------------------
(***************************************************************************)
(* Queries.                                                                *)
(***************************************************************************)

(* The matching lines, and those of them after the m-th line retained *)
Found(ns, level) == {i \in DOMAIN logs : Matches(logs[i], ns, level)}
Past(found, m) == {j \in found : j > m}

(* g is the scan of Logs over the last n lines retained *)
IsScan(g, n, ns, level, limit) ==
    g = [i \in 0..n |->
            IF i = 0 THEN << >>
            ELSE IF /\ Len(g[i - 1]) < Clamp(limit)
                    /\ Matches(logs[Len(logs) - i + 1], ns, level)
                 THEN Append(g[i - 1], logs[Len(logs) - i + 1]) ELSE g[i - 1]]

LEMMA LogsIsScan ==
    ASSUME NEW ns, NEW level, NEW limit
    PROVE  Logs(ns, level, limit) =
              (CHOOSE g : IsScan(g, Len(logs), ns, level, limit))[Len(logs)]
BY DEF Logs, IsScan

LEMMA ScanExists ==
    ASSUME NEW ns, NEW level, NEW limit, NEW n \in Nat
    PROVE  \E g : IsScan(g, n, ns, level, limit)
<1>1. PICK Good : Good = {k \in Nat : \E g : IsScan(g, k, ns, level, limit)}
  OBVIOUS
<1>2. 0 \in Good
  <2>1. IsScan([i \in 0..0 |-> << >>], 0, ns, level, limit)
    BY DEF IsScan
  <2> QED
    BY <1>1, <2>1
<1>3. ASSUME NEW k \in Nat, k \in Good PROVE k + 1 \in Good
  <2>1. PICK g : IsScan(g, k, ns, level, limit)
    BY <1>1, <1>3
  <2>2. PICK h : h = [i \in 0..k + 1 |->
            IF i = 0 THEN << >>
            ELSE IF /\ Len(g[i - 1]) < Clamp(limit)
                    /\ Matches(logs[Len(logs) - i + 1], ns, level)
                 THEN Append(g[i - 1], logs[Len(logs) - i + 1]) ELSE g[i - 1]]
    OBVIOUS
  <2>3. \A i \in 0..k + 1 : i # 0 => i - 1 \in 0..k
    OBVIOUS
  <2>4. \A i \in 0..k : i \in 0..k + 1 /\ h[i] = g[i]
    <3> SUFFICES ASSUME NEW i \in 0..k PROVE i \in 0..k + 1 /\ h[i] = g[i]
      OBVIOUS
    <3>1. i \in 0..k + 1
      OBVIOUS
    <3> QED
      BY <2>1, <2>2, <3>1 DEF IsScan
  <2>5. IsScan(h, k + 1, ns, level, limit)
    BY <2>2, <2>3, <2>4 DEF IsScan
  <2> QED
    BY <1>1, <2>5
<1>4. n \in Good
  BY <1>2, <1>3, NumbersInductively
<1> QED
  BY <1>1, <1>4

(* One line further back: its match, if it is one, comes after all newer *)
LEMMA PastStep ==
    ASSUME NEW N \in Nat, NEW found \in SUBSET (1..N), NEW m \in 1..N
    PROVE  /\ IsFiniteSet(Past(found, m))
           /\ Cardinality(Past(found, m)) \in Nat
           /\ Cardinality(Past(found, m - 1)) =
                 IF m \in found THEN Cardinality(Past(found, m)) + 1
                                ELSE Cardinality(Past(found, m))
<1>1. IsFiniteSet(1..N)
  BY FS_Interval
<1>2. Past(found, m) \in SUBSET (1..N) /\ m \notin Past(found, m)
  <2>1. ~(m > m)
    OBVIOUS
  <2>2. Past(found, m) \subseteq found
    BY DEF Past
  <2> QED
    BY <2>1, <2>2 DEF Past
<1>3. IsFiniteSet(Past(found, m))
  BY <1>1, <1>2, FS_Subset
<1>4. Past(found, m - 1) = IF m \in found THEN Past(found, m) \cup {m}
                                          ELSE Past(found, m)
  <2>1. \A j \in found : j > m - 1 <=> (j > m \/ j = m)
    <3>1. \A j \in 1..N : j > m - 1 <=> (j > m \/ j = m)
      OBVIOUS
    <3> QED
      BY <3>1
  <2> QED
    BY <2>1 DEF Past
<1> QED
  BY <1>2, <1>3, <1>4, FS_CardinalityType, FS_AddElement

(* What the scan has when it has seen the lines after the m-th *)
Exact(out, found, limit, m) ==
    /\ out \in Seq(Lines)
    /\ Len(out) = IF Cardinality(Past(found, m)) < Clamp(limit)
                  THEN Cardinality(Past(found, m)) ELSE Clamp(limit)
    /\ \A j \in Past(found, m) :
          /\ Cardinality(Past(found, j)) \in Nat
          /\ Cardinality(Past(found, j)) < Cardinality(Past(found, m))
          /\ Cardinality(Past(found, j)) < Clamp(limit)
                => out[Cardinality(Past(found, j)) + 1] = logs[j]

LEMMA ScanStep ==
    ASSUME logs \in Seq(Lines), NEW ns, NEW level, NEW limit, Clamp(limit) \in Nat,
           NEW found, found = Found(ns, level), NEW m \in 1..Len(logs),
           NEW out, Exact(out, found, limit, m), NEW next,
           next = IF Len(out) < Clamp(limit) /\ Matches(logs[m], ns, level)
                  THEN Append(out, logs[m]) ELSE out
    PROVE  Exact(next, found, limit, m - 1)
<1>1. PICK N \in Nat : N = Len(logs)
  BY LenProperties
<1>2. /\ found \in SUBSET (1..N) /\ DOMAIN logs = 1..N
      /\ m \in found <=> Matches(logs[m], ns, level)
  BY <1>1 DEF Found
<1>3. PICK c \in Nat : c = Cardinality(Past(found, m))
  BY <1>1, <1>2, PastStep
<1>4. Cardinality(Past(found, m - 1)) = IF m \in found THEN c + 1 ELSE c
  BY <1>1, <1>2, <1>3, PastStep
<1>5. Past(found, m - 1) = IF m \in found THEN Past(found, m) \cup {m}
                                          ELSE Past(found, m)
  BY <1>2 DEF Past
<1>6. PICK C \in Nat : C = Clamp(limit)
  OBVIOUS
<1>7. /\ out \in Seq(Lines) /\ Len(out) = IF c < C THEN c ELSE C
      /\ \A j \in Past(found, m) :
            /\ Cardinality(Past(found, j)) \in Nat
            /\ Cardinality(Past(found, j)) < c
            /\ Cardinality(Past(found, j)) < C
                  => out[Cardinality(Past(found, j)) + 1] = logs[j]
  BY <1>3, <1>6 DEF Exact
<1>8. logs[m] \in Lines
  BY ElementOfSeq
<1>9. CASE m \notin found
  <2>1. next = out /\ Past(found, m - 1) = Past(found, m)
    BY <1>2, <1>5, <1>9
  <2> QED
    BY <1>3, <1>6, <1>7, <2>1 DEF Exact
<1>10. CASE m \in found /\ c < C
  <2>1. next = Append(out, logs[m]) /\ Len(out) = c
    BY <1>2, <1>6, <1>7, <1>10
  <2>2. /\ next \in Seq(Lines) /\ Len(next) = c + 1 /\ next[c + 1] = logs[m]
        /\ \A k \in 1..c : next[k] = out[k]
    BY <1>7, <1>8, <2>1, AppendProperties
  <2>3. Len(next) = IF c + 1 < C THEN c + 1 ELSE C
    BY <1>10, <2>2
  <2>4. ASSUME NEW j \in Past(found, m)
        PROVE  /\ Cardinality(Past(found, j)) \in Nat
               /\ Cardinality(Past(found, j)) < c + 1
               /\ Cardinality(Past(found, j)) < C
                     => next[Cardinality(Past(found, j)) + 1] = logs[j]
    <3>1. PICK d \in Nat : d = Cardinality(Past(found, j)) /\ d < c
      BY <1>7
    <3>2. d < C => out[d + 1] = logs[j]
      BY <1>7, <3>1
    <3>3. d + 1 \in 1..c
      BY <3>1
    <3> QED
      BY <2>2, <3>1, <3>2, <3>3
  <2>5. \A j \in Past(found, m - 1) : j \in Past(found, m) \/ j = m
    BY <1>5
  <2>6. Cardinality(Past(found, m - 1)) = c + 1
    BY <1>4, <1>10
  <2>8. /\ Cardinality(Past(found, m)) \in Nat
        /\ Cardinality(Past(found, m)) < c + 1
        /\ next[Cardinality(Past(found, m)) + 1] = logs[m]
    BY <1>3, <2>2
  <2>7. \A j \in Past(found, m - 1) :
            /\ Cardinality(Past(found, j)) \in Nat
            /\ Cardinality(Past(found, j)) < c + 1
            /\ Cardinality(Past(found, j)) < C
                  => next[Cardinality(Past(found, j)) + 1] = logs[j]
    BY <2>4, <2>5, <2>8, Zenon
  <2> QED
    BY <1>6, <2>2, <2>3, <2>6, <2>7 DEF Exact
<1>11. CASE m \in found /\ ~(c < C)
  <2>1. next = out /\ Len(out) = C
    BY <1>2, <1>6, <1>7, <1>11
  <2>2. \A j \in Past(found, m - 1) : j \in Past(found, m) \/ j = m
    BY <1>5
  <2>3. Cardinality(Past(found, m - 1)) = c + 1
    BY <1>4, <1>11
  <2>4. ASSUME NEW j \in Past(found, m - 1)
        PROVE  /\ Cardinality(Past(found, j)) \in Nat
               /\ Cardinality(Past(found, j)) < c + 1
               /\ Cardinality(Past(found, j)) < C
                     => out[Cardinality(Past(found, j)) + 1] = logs[j]
    <3>1. PICK d : d = Cardinality(Past(found, j))
      OBVIOUS
    <3>2. CASE j = m
      <4>1. d = c /\ c < c + 1
        BY <1>3, <3>1, <3>2
      <4> QED
        BY <1>11, <3>1, <4>1
    <3>3. CASE j \in Past(found, m)
      <4>1. d \in Nat /\ d < c /\ (d < C => out[d + 1] = logs[j])
        BY <1>7, <3>1, <3>3
      <4>2. d < c + 1
        BY <4>1
      <4> QED
        BY <3>1, <4>1, <4>2
    <3> QED
      BY <2>2, <3>2, <3>3
  <2>5. C = IF c + 1 < C THEN c + 1 ELSE C
    BY <1>11
  <2> QED
    BY <1>6, <1>7, <2>1, <2>3, <2>4, <2>5 DEF Exact
<1> QED
  BY <1>9, <1>10, <1>11

LEMMA ScanIsExact ==
    ASSUME logs \in Seq(Lines), NEW ns, NEW level, NEW limit, Clamp(limit) \in Nat
    PROVE  Exact(Logs(ns, level, limit), Found(ns, level), limit, 0)
<1>1. PICK N \in Nat : N = Len(logs)
  BY LenProperties
<1>2. PICK g : IsScan(g, N, ns, level, limit) /\ Logs(ns, level, limit) = g[N]
  <2>1. IsScan(CHOOSE g : IsScan(g, N, ns, level, limit), N, ns, level, limit)
    BY ScanExists
  <2> QED
    BY <1>1, <2>1, LogsIsScan
<1>3. PICK found : found = Found(ns, level)
  OBVIOUS
<1>4. PICK Good : Good = {i \in Nat : i <= N => Exact(g[i], found, limit, N - i)}
  OBVIOUS
<1>5. 0 \in Good
  <2>1. g[0] = << >> /\ << >> \in Seq(Lines) /\ Len(<< >>) = 0
    BY <1>2 DEF IsScan
  <2>2. Past(found, N) = {}
    BY <1>1, <1>3 DEF Past, Found
  <2>3. Cardinality(Past(found, N)) = 0
    BY <2>2, FS_EmptySet
  <2>4. Exact(g[0], found, limit, N)
    BY <2>1, <2>2, <2>3 DEF Exact
  <2> QED
    BY <1>4, <2>4
<1>6. ASSUME NEW i \in Nat, i \in Good PROVE i + 1 \in Good
  <2> SUFFICES ASSUME i + 1 <= N
               PROVE  Exact(g[i + 1], found, limit, N - (i + 1))
    BY <1>4
  <2>1. PICK m \in 1..N : m = N - i
    OBVIOUS
  <2>2. Exact(g[i], found, limit, m)
    BY <1>4, <1>6, <2>1
  <2>3. /\ i + 1 \in 0..N /\ i + 1 # 0 /\ (i + 1) - 1 = i
        /\ N - (i + 1) + 1 = m /\ N - (i + 1) = m - 1
    BY <2>1
  <2>4. g[i + 1] = IF Len(g[i]) < Clamp(limit) /\ Matches(logs[m], ns, level)
                   THEN Append(g[i], logs[m]) ELSE g[i]
    <3>1. g[i + 1] =
             IF /\ Len(g[(i + 1) - 1]) < Clamp(limit)
                /\ Matches(logs[N - (i + 1) + 1], ns, level)
             THEN Append(g[(i + 1) - 1], logs[N - (i + 1) + 1]) ELSE g[(i + 1) - 1]
      BY <1>1, <1>2, <2>3 DEF IsScan
    <3> QED
      BY <2>3, <3>1
  <2>5. Exact(g[i + 1], found, limit, m - 1)
    BY <1>1, <1>3, <2>2, <2>4, ScanStep
  <2> QED
    BY <2>3, <2>5
<1>7. N \in Good
  BY <1>5, <1>6, NumbersInductively
<1> QED
  BY <1>2, <1>3, <1>4, <1>7

(* A query of the retained lines returns its newest matches, newest first, and
   as many of them as the limit allows, for any buffer and any filter. *)
THEOREM QueriesReturnTheNewest == Spec => []QueriesAreExact
<1>1. TypeOK => QueriesAreExact
  <2>1. ASSUME TypeOK, NEW ns, NEW level, NEW limit \in Int
        PROVE  LET found == Found(ns, level)
                   out == Logs(ns, level, limit)
               IN /\ Len(out) = IF Cardinality(found) < Clamp(limit)
                                THEN Cardinality(found) ELSE Clamp(limit)
                  /\ \A i \in found :
                        Cardinality(Past(found, i)) < Clamp(limit) =>
                            out[Cardinality(Past(found, i)) + 1] = logs[i]
    <3>1. logs \in Seq(Lines)
      BY <2>1 DEF TypeOK
    <3>2. Clamp(limit) \in Nat
      BY LogAssumption DEF Clamp
    <3>3. Exact(Logs(ns, level, limit), Found(ns, level), limit, 0)
      BY <3>1, <3>2, ScanIsExact
    <3>4. Past(Found(ns, level), 0) = Found(ns, level)
      BY <3>1, LenProperties DEF Past, Found
    <3> QED
      BY <3>3, <3>4 DEF Exact
  <2>2. \A limit \in -1..MaxLogLines + 1 : limit \in Int
    BY LogAssumption
  <2> QED
    BY <2>1, <2>2 DEF QueriesAreExact, Found, Past
<1> QED
  BY <1>1, TypeCorrect, PTL

-----------------------------------------------------------------------------
(***************************************************************************)
(* The gauge of log lines by level.                                        *)
(***************************************************************************)

(* A stream that stored lines and will yet count them, or was cut off, or
   that has counted this level and not yet written it: less than OwesGauge,
   and what Reply needs to find nothing owed. *)
Carries(s, level) ==
    /\ batches[s] > 0
    /\ \/ pc[s] \in {"recv", "record", "publish", "countLevels", "failed"}
       \/ pc[s] = "setLevels" /\ level \in DOMAIN levelCount[s]

LevelsCarried ==
    /\ DOMAIN levelCount = Streams
    /\ \A i \in DOMAIN logs :
          \/ logs[i].level \in DOMAIN byLevel
          \/ \E s \in Streams : Carries(s, logs[i].level)

LEMMA CarriedInit == Init => LevelsCarried
BY DEF Init, LevelsCarried

(* A stream goes on carrying what it carried *)
LEMMA CarriedOn ==
    ASSUME TypeOK, LevelsCarried, UNCHANGED logs, DOMAIN levelCount' = Streams,
           DOMAIN byLevel \subseteq DOMAIN byLevel',
           \A s \in Streams : \A i \in DOMAIN logs : Carries(s, logs[i].level) =>
               Carries(s, logs[i].level)' \/ logs[i].level \in DOMAIN byLevel'
    PROVE  LevelsCarried'
BY DEF LevelsCarried

LEMMA CarriedStep ==
    TypeOK /\ LevelsCarried /\ [Next]_vars => LevelsCarried'
<1> SUFFICES ASSUME TypeOK, LevelsCarried, [Next]_vars PROVE LevelsCarried'
  OBVIOUS
<1>0. /\ pc \in [Streams -> StreamStates] /\ batches \in [Streams -> Nat]
      /\ DOMAIN levelCount = Streams
  BY DEF TypeOK, LevelsCarried
<1> USE DEF Goto
<1>1. ASSUME NEW s \in Streams, Accept(s) PROVE LevelsCarried'
  <2>1. /\ pc'[s] = "recv" /\ batches'[s] > 0 /\ levelCount' = levelCount
    BY <1>0, <1>1 DEF Accept
  <2>2. \A level : Carries(s, level)'
    BY <2>1 DEF Carries
  <2> QED
    BY <1>0, <2>1, <2>2 DEF LevelsCarried
<1>2. ASSUME NEW s \in Streams, Reject(s) PROVE LevelsCarried'
  BY <1>2, CarriedOn DEF Reject, Carries, LevelsCarried
<1>3. ASSUME NEW s \in Streams, EndOfStream(s) \/ Abort(s) \/ RecordStream(s) \/ Publish(s)
      PROVE  LevelsCarried'
  <2>1. UNCHANGED <<logs, byLevel, batches, levelCount>>
    BY <1>3 DEF EndOfStream, Abort, RecordStream, Publish, promVars, countVars
  <2>2. /\ pc[s] \in {"recv", "record", "publish"}
        /\ pc'[s] \in {"record", "failed", "publish", "countLevels"}
        /\ \A t \in Streams \ {s} : pc'[t] = pc[t]
    BY <1>0, <1>3 DEF EndOfStream, Abort, RecordStream, Publish
  <2>3. \A t \in Streams : \A level : Carries(t, level) => Carries(t, level)'
    BY <2>1, <2>2 DEF Carries
  <2> QED
    BY <1>0, <2>1, <2>3, CarriedOn
<1>4. ASSUME NEW s \in Streams, CountLevels(s) PROVE LevelsCarried'
  <2>1. /\ UNCHANGED <<logs, byLevel, batches>>
        /\ pc'[s] = "setLevels" /\ levelCount'[s] = LevelCount
        /\ DOMAIN levelCount' = Streams
        /\ \A t \in Streams \ {s} : pc'[t] = pc[t] /\ levelCount'[t] = levelCount[t]
    BY <1>0, <1>4 DEF CountLevels, promVars, countVars
  <2>2. \A i \in DOMAIN logs : logs[i].level \in DOMAIN LevelCount
    BY DEF LevelCount
  <2>3. \A i \in DOMAIN logs : Carries(s, logs[i].level) => Carries(s, logs[i].level)'
    BY <2>1, <2>2 DEF Carries
  <2>4. \A t \in Streams \ {s} : \A level : Carries(t, level) => Carries(t, level)'
    BY <2>1 DEF Carries
  <2> QED
    BY <2>1, <2>3, <2>4, CarriedOn
<1>5. ASSUME NEW s \in Streams, SetLevel(s) PROVE LevelsCarried'
  <2>1. PICK level \in DOMAIN levelCount[s] :
           /\ DOMAIN byLevel' = DOMAIN byLevel \cup {level}
           /\ levelCount' = [levelCount EXCEPT ![s] = Restrict(@, DOMAIN @ \ {level})]
    BY <1>5 DEF SetLevel
  <2>2. UNCHANGED <<logs, pc, batches>>
    BY <1>5 DEF SetLevel, countVars
  <2>3. /\ DOMAIN levelCount'[s] = DOMAIN levelCount[s] \ {level}
        /\ DOMAIN levelCount' = Streams
        /\ \A t \in Streams \ {s} : levelCount'[t] = levelCount[t]
    BY <1>0, <2>1 DEF Restrict
  <2>4. \A t \in Streams : \A x : Carries(t, x) => Carries(t, x)' \/ x = level
    BY <2>2, <2>3 DEF Carries
  <2> QED
    BY <2>1, <2>2, <2>3, <2>4, CarriedOn
<1>6. ASSUME NEW s \in Streams, Reply(s) PROVE LevelsCarried'
  <2>1. /\ UNCHANGED <<logs, byLevel, batches, levelCount>>
        /\ \A t \in Streams \ {s} : pc'[t] = pc[t]
        /\ pc[s] = "setLevels" /\ DOMAIN levelCount[s] = {}
    BY <1>0, <1>6 DEF Reply, promVars, countVars
  <2>2. \A t \in Streams : \A level : Carries(t, level) => Carries(t, level)'
    BY <2>1 DEF Carries
  <2> QED
    BY <1>0, <2>1, <2>2, CarriedOn
<1>7. CASE UNCHANGED vars
  BY <1>7 DEF vars, promVars, countVars, LevelsCarried, Carries
<1> QED
  BY <1>1, <1>2, <1>3, <1>4, <1>5, <1>6, <1>7 DEF Next, ReportLog, Finish, Idle

(* The gauge misses no retained level once every stream that stored lines has
   ended cleanly, whenever each of them took its count. *)
THEOREM LevelsAreShown == Spec => []RetainedLevelsShown
<1>1. LevelsCarried => RetainedLevelsShown
  BY DEF LevelsCarried, Carries, RetainedLevelsShown, OwesGauge
<1>2. Inv => TypeOK
  BY DEF Inv
<1> QED
  BY <1>1, <1>2, InvInit, InvStep, CarriedInit, CarriedStep, PTL DEF Spec

-----------------------------------------------------------------------------
(***************************************************************************)
(* Refinement: the safety part of the ledger.                              *)
(***************************************************************************)

LEMMA LedgerInit == Init => Ledger!Init
BY DEF Init, Ledger!Init, Ledger!Zero, NoStats, StatusOf

(* The counts of stream s may grow; those of the others are kept *)
GrowsOnlyAt(s) ==
    /\ batches'[s] \in Nat /\ items'[s] \in Nat /\ rejected'[s] \in Nat
    /\ batches'[s] >= batches[s] /\ items'[s] >= items[s]
    /\ rejected'[s] >= rejected[s]
    /\ \A t \in Streams : t # s => /\ batches'[t] = batches[t]
                                   /\ items'[t] = items[t]
                                   /\ rejected'[t] = rejected[t]

LEMMA TakeStep ==
    ASSUME TypeOK, NEW s \in Streams, Accept(s) \/ Reject(s)
    PROVE  Ledger!Take(s)
<1> DEFINE st == [t \in Streams |-> StatusOf(pc[t])]
           ta == [t \in Streams |-> [batches |-> batches[t], items |-> items[t],
                                     rejected |-> rejected[t]]]
<1>1. st[s] = "open" /\ st' = st /\ stats' = stats
  BY DEF Accept, Reject, StatusOf
<1>2. \/ \E n \in Nat : /\ batches' = [batches EXCEPT ![s] = @ + 1]
                        /\ items' = [items EXCEPT ![s] = @ + n]
                        /\ rejected' = rejected
      \/ \E n \in Nat : /\ rejected' = [rejected EXCEPT ![s] = @ + n]
                        /\ UNCHANGED <<batches, items>>
  <2>1. CASE Accept(s)
    BY <2>1, BatchSize DEF Accept
  <2>2. CASE Reject(s)
    BY <2>2, BatchSize DEF Reject
  <2> QED
    BY <2>1, <2>2
<1>3. /\ ta'[s] \in [batches : Nat, items : Nat, rejected : Nat]
      /\ ta'[s].batches >= ta[s].batches
      /\ ta'[s].items >= ta[s].items
      /\ ta'[s].rejected >= ta[s].rejected
      /\ \A t \in Streams : t # s => ta'[t] = ta[t]
  <2>1. ASSUME NEW n \in Nat, batches' = [batches EXCEPT ![s] = @ + 1],
               items' = [items EXCEPT ![s] = @ + n], rejected' = rejected
        PROVE  GrowsOnlyAt(s)
    BY <2>1 DEF TypeOK, GrowsOnlyAt
  <2>2. ASSUME NEW n \in Nat, rejected' = [rejected EXCEPT ![s] = @ + n],
               UNCHANGED <<batches, items>>
        PROVE  GrowsOnlyAt(s)
    BY <2>2 DEF TypeOK, GrowsOnlyAt
  <2>3. GrowsOnlyAt(s)
    BY <1>2, <2>1, <2>2
  <2> QED
    BY <2>3 DEF GrowsOnlyAt
<1>4. ta' = [ta EXCEPT ![s] = ta'[s]]
  BY <1>3
<1> QED
  BY <1>1, <1>3, <1>4 DEF Ledger!Take, Ledger!Tallies

LEMMA LedgerStep == TypeOK /\ [Next]_vars => [Ledger!Next]_Ledger!vars
<1> SUFFICES ASSUME TypeOK, [Next]_vars PROVE [Ledger!Next]_Ledger!vars
  OBVIOUS
<1> DEFINE st == [s \in Streams |-> StatusOf(pc[s])]
           ta == [s \in Streams |-> [batches |-> batches[s], items |-> items[s],
                                     rejected |-> rejected[s]]]
<1> USE DEF Goto
<1>1. ASSUME NEW s \in Streams, EndOfStream(s) PROVE Ledger!Close(s)
  <2>1. st[s] = "open" /\ st' = [st EXCEPT ![s] = "closed"]
    BY <1>1 DEF EndOfStream, StatusOf, TypeOK
  <2> QED
    BY <1>1, <2>1 DEF EndOfStream, Ledger!Close, Ledger!Move, countVars
<1>2. ASSUME NEW s \in Streams, Abort(s) PROVE Ledger!Lose(s)
  <2>1. st[s] = "open" /\ st' = [st EXCEPT ![s] = "lost"]
    BY <1>2 DEF Abort, StatusOf, TypeOK
  <2> QED
    BY <1>2, <2>1 DEF Abort, Ledger!Lose, Ledger!Move, countVars
<1>3. ASSUME NEW s \in Streams, RecordStream(s) PROVE Ledger!Count(s)
  <2>1. st[s] = "closed" /\ st' = [st EXCEPT ![s] = "counted"]
    BY <1>3 DEF RecordStream, StatusOf, TypeOK
  <2>2. stats' = Ledger!Sum(stats, ta[s]) /\ ta' = ta
    BY <1>3 DEF RecordStream, Ledger!Sum, countVars
  <2> QED
    BY <2>1, <2>2 DEF Ledger!Count, Ledger!Move
<1>4. ASSUME NEW s \in Streams, Reply(s) PROVE Ledger!Answer(s)
  <2>1. st[s] = "counted" /\ st' = [st EXCEPT ![s] = "answered"]
    BY <1>4 DEF Reply, StatusOf, TypeOK
  <2> QED
    BY <1>4, <2>1 DEF Reply, Ledger!Answer, Ledger!Move, countVars
<1>5. ASSUME NEW s \in Streams, Publish(s) \/ CountLevels(s) \/ SetLevel(s)
      PROVE  UNCHANGED Ledger!vars
  <2>1. UNCHANGED <<stats, batches, items, rejected>>
    BY <1>5 DEF Publish, CountLevels, SetLevel, countVars
  <2>2. StatusOf(pc'[s]) = StatusOf(pc[s])
        /\ \A t \in Streams : t # s => pc'[t] = pc[t]
    BY <1>5 DEF Publish, CountLevels, SetLevel, StatusOf, TypeOK
  <2>3. st' = st
    BY <2>2
  <2> QED
    BY <2>1, <2>3 DEF Ledger!vars
<1>6. CASE UNCHANGED vars
  BY <1>6 DEF vars, countVars, Ledger!vars
<1> QED
  BY <1>1, <1>2, <1>3, <1>4, <1>5, <1>6, TakeStep
     DEF Next, ReportLog, Finish, Idle, Ledger!Next

(* Store.stats.Log is a ledger of the ReportLog streams: each stream that
   ends cleanly is added once, before its client is answered, and a stream
   that was cut off is never added. *)
THEOREM StatsAreALedger == Spec => Ledger!Init /\ [][Ledger!Next]_Ledger!vars
<1>1. Inv => TypeOK
  BY DEF Inv
<1> QED
  BY <1>1, InvInit, InvStep, LedgerInit, LedgerStep, PTL DEF Spec
=============================================================================
