------------------------------- MODULE LogIngest -------------------------------
(***************************************************************************)
(* The log half of the collector server: the ReportLog handler             *)
(* (src/internal/server/server.go), the bounded log buffer and its queries *)
(* in the Store (src/internal/store/store.go), and the gauge of log lines  *)
(* by level (src/internal/metrics/metrics.go).  Steps are as in MetaIngest:*)
(* one acquisition of Store.mu or one operation on a Prometheus series.    *)
(***************************************************************************)
EXTENDS Retention, FiniteSets, FiniteSetsExt, Functions

CONSTANTS
    Streams,        \* ReportLog calls
    Lines,          \* log entries: records with at least ns and level
    Batches,        \* LogBatch messages: [agent, cluster, entries, dated, whole]
    MaxBatches,     \* bound: messages per stream
    MaxLogLines,    \* maxLogLines
    DefaultLimit,   \* the limit Logs falls back to
    NoAgent,        \* the empty agent_id
    NoFilter        \* the empty filter of a query

ASSUME LogAssumption ==
    /\ MaxBatches \in Nat /\ MaxLogLines \in Nat /\ DefaultLimit \in Nat
    /\ \A b \in Batches : b.entries \in Seq(Lines)
    /\ NoFilter \notin {l.ns : l \in Lines} \cup {l.level : l \in Lines}

VARIABLES
    logs,           \* Store.logs, oldest append first
    stats,          \* Store.stats.Log
    promReceived,   \* collector_{batches,items}_received_total{kind="log"}
    promRejected,   \* collector_items_rejected_total{kind="log"}, all reasons
    lastSeen,       \* agents with a collector_agent_last_seen_seconds series
    byLevel,        \* collector_log_entries_by_level: level -> value
    pc,
    received,       \* messages Recv has returned to a stream
    batches, items, rejected, agentID,  \* locals of ReportLog
    levelCount,     \* what is left of the range over LevelCount()
    appended        \* history: every line ever appended, in order

promVars == <<promReceived, promRejected, lastSeen, byLevel>>
countVars == <<received, batches, items, rejected, agentID>>
vars == <<logs, stats, promVars, pc, countVars, levelCount, appended>>

-----------------------------------------------------------------------------
(***************************************************************************)
(* The store.                                                              *)
(***************************************************************************)

(* Mutant of AppendLogs: trims before it appends *)
TrimThenAppend(lines) ==
    /\ logs' = Retain(logs, << >>, MaxLogLines) \o lines
    /\ appended' = appended \o lines

AppendLogs(lines) ==
    /\ logs' = Retain(logs, lines, MaxLogLines)
    /\ appended' = appended \o lines

OfLevel(level) == {i \in DOMAIN logs : logs[i].level = level}

LevelCount == [level \in {logs[i].level : i \in DOMAIN logs} |->
                  Cardinality(OfLevel(level))]

Matches(l, ns, level) == /\ ns = NoFilter \/ l.ns = ns
                         /\ level = NoFilter \/ l.level = level

Clamp(limit) == IF limit <= 0 \/ limit > MaxLogLines THEN DefaultLimit ELSE limit

(* Mutant of Logs: the limit counts the lines looked at, not those returned *)
LogsAmongLast(ns, level, limit) ==
    LET last == Newest(logs, Clamp(limit))
        match == SelectSeq(last, LAMBDA l : Matches(l, ns, level))
    IN [i \in 1..Len(match) |-> match[Len(match) - i + 1]]

(* Logs: scan from the end until enough lines match *)
Logs(ns, level, limit) ==
    LET scan[i \in 0..Len(logs)] ==     \* what the last i lines contribute
            IF i = 0 THEN << >>
            ELSE LET out == scan[i - 1]
                     l == logs[Len(logs) - i + 1]
                 IN IF Len(out) < Clamp(limit) /\ Matches(l, ns, level)
                    THEN Append(out, l) ELSE out
    IN scan[Len(logs)]

-----------------------------------------------------------------------------
(***************************************************************************)
(* ReportLog.                                                              *)
(***************************************************************************)

(* validateLog: unlike meta and metric batches, one from the future passes.
   `dated`: collected_at is set; `whole`: every entry has pod_uid and message *)
Valid(b) == /\ b.agent # NoAgent
            /\ b.cluster
            /\ b.entries # << >>
            /\ b.dated
            /\ b.whole

Accept(s) ==
    /\ pc[s] = "recv" /\ received[s] < MaxBatches
    /\ \E b \in Batches :
        /\ Valid(b)
        /\ AppendLogs(b.entries)
        /\ agentID' = [agentID EXCEPT ![s] = b.agent]
        /\ batches' = [batches EXCEPT ![s] = @ + 1]
        /\ items' = [items EXCEPT ![s] = @ + Len(b.entries)]
    /\ received' = [received EXCEPT ![s] = @ + 1]
    /\ UNCHANGED <<stats, promVars, pc, rejected, levelCount>>

Reject(s) ==
    /\ pc[s] = "recv" /\ received[s] < MaxBatches
    /\ \E b \in Batches :
        /\ ~Valid(b)
        /\ rejected' = [rejected EXCEPT ![s] = @ + Len(b.entries)]
        /\ promRejected' = promRejected + Len(b.entries)
    /\ received' = [received EXCEPT ![s] = @ + 1]
    /\ UNCHANGED <<logs, stats, promReceived, lastSeen, byLevel, pc, batches, items,
                   agentID, levelCount, appended>>

Goto(s, state) == pc' = [pc EXCEPT ![s] = state]

EndOfStream(s) ==
    /\ pc[s] = "recv" /\ Goto(s, "record")
    /\ UNCHANGED <<logs, stats, promVars, countVars, levelCount, appended>>

(* Mutant of Abort: what arrived before the error is recorded *)
AbortRecorded(s) ==
    /\ pc[s] = "recv" /\ Goto(s, "failed")
    /\ stats' = [batches  |-> stats.batches + batches[s],
                 items    |-> stats.items + items[s],
                 rejected |-> stats.rejected + rejected[s]]
    /\ UNCHANGED <<logs, promVars, countVars, levelCount, appended>>

(* Recv fails: the client's deadline passed, it was cancelled or it died *)
Abort(s) ==
    /\ pc[s] = "recv" /\ Goto(s, "failed")
    /\ UNCHANGED <<logs, stats, promVars, countVars, levelCount, appended>>

RecordStream(s) ==
    /\ pc[s] = "record" /\ Goto(s, "publish")
    /\ stats' = [batches  |-> stats.batches + batches[s],
                 items    |-> stats.items + items[s],
                 rejected |-> stats.rejected + rejected[s]]
    /\ UNCHANGED <<logs, promVars, countVars, levelCount, appended>>

(* Mutants of Publish: nets out what was rejected; leaves the level gauge *)
PublishNet(s) ==
    /\ pc[s] = "publish" /\ Goto(s, "countLevels")
    /\ promReceived' = [batches |-> promReceived.batches + batches[s],
                        items   |-> promReceived.items + items[s] - rejected[s]]
    /\ lastSeen' = lastSeen \cup ({agentID[s]} \ {NoAgent})
    /\ UNCHANGED <<logs, stats, promRejected, byLevel, countVars, levelCount, appended>>

PublishOnly(s) ==
    /\ pc[s] = "publish" /\ Goto(s, "setLevels")
    /\ promReceived' = [batches |-> promReceived.batches + batches[s],
                        items   |-> promReceived.items + items[s]]
    /\ lastSeen' = lastSeen \cup ({agentID[s]} \ {NoAgent})
    /\ UNCHANGED <<logs, stats, promRejected, byLevel, countVars, levelCount, appended>>

Publish(s) ==
    /\ pc[s] = "publish" /\ Goto(s, "countLevels")
    /\ promReceived' = [batches |-> promReceived.batches + batches[s],
                        items   |-> promReceived.items + items[s]]
    /\ lastSeen' = lastSeen \cup ({agentID[s]} \ {NoAgent})
    /\ UNCHANGED <<logs, stats, promRejected, byLevel, countVars, levelCount, appended>>

CountLevels(s) ==
    /\ pc[s] = "countLevels" /\ Goto(s, "setLevels")
    /\ levelCount' = [levelCount EXCEPT ![s] = LevelCount]
    /\ UNCHANGED <<logs, stats, promVars, countVars, appended>>

(* One iteration of the range over LevelCount(), in any order.  A level that
   has no line left is not visited and keeps its old value. *)
SetLevel(s) ==
    /\ pc[s] = "setLevels"
    /\ \E level \in DOMAIN levelCount[s] :
        /\ byLevel' = [x \in DOMAIN byLevel \cup {level} |->
               IF x = level THEN levelCount[s][level] ELSE byLevel[x]]
        /\ levelCount' = [levelCount EXCEPT ![s] = Restrict(@, DOMAIN @ \ {level})]
    /\ UNCHANGED <<logs, stats, promReceived, promRejected, lastSeen, pc, countVars,
                   appended>>

Reply(s) ==
    /\ pc[s] = "setLevels" /\ DOMAIN levelCount[s] = {}
    /\ Goto(s, "done")
    /\ UNCHANGED <<logs, stats, promVars, countVars, levelCount, appended>>

-----------------------------------------------------------------------------
NoStats == [batches |-> 0, items |-> 0, rejected |-> 0]
Nothing == [x \in {} |-> 0]

Init ==
    /\ logs = << >> /\ appended = << >>
    /\ stats = NoStats
    /\ promReceived = [batches |-> 0, items |-> 0]
    /\ promRejected = 0 /\ lastSeen = {} /\ byLevel = Nothing
    /\ pc = [s \in Streams |-> "recv"]
    /\ received = [s \in Streams |-> 0]
    /\ batches = [s \in Streams |-> 0]
    /\ items = [s \in Streams |-> 0]
    /\ rejected = [s \in Streams |-> 0]
    /\ agentID = [s \in Streams |-> NoAgent]
    /\ levelCount = [s \in Streams |-> Nothing]

(* What the handler does by itself once Recv has returned EOF *)
Finish(s) == \/ RecordStream(s) \/ Publish(s) \/ CountLevels(s)
             \/ SetLevel(s) \/ Reply(s)

ReportLog(s) == Accept(s) \/ Reject(s) \/ EndOfStream(s) \/ Abort(s) \/ Finish(s)

(* No call is left to serve: the server idles *)
Idle == (\A s \in Streams : pc[s] \in {"done", "failed"}) /\ UNCHANGED vars

Next == (\E s \in Streams : ReportLog(s)) \/ Idle

Spec == Init /\ [][Next]_vars /\ \A s \in Streams : WF_vars(Finish(s))

-----------------------------------------------------------------------------
(***************************************************************************)
(* Properties.                                                             *)
(***************************************************************************)

StreamStates ==
    {"recv", "record", "publish", "countLevels", "setLevels", "done", "failed"}

(* Every variable holds a value its Go counterpart can hold. *)
TypeOK ==
    /\ logs \in Seq(Lines) /\ appended \in Seq(Lines)
    /\ stats \in [batches : Nat, items : Nat, rejected : Nat]
    /\ promReceived \in [batches : Nat, items : Nat] /\ promRejected \in Nat
    /\ pc \in [Streams -> StreamStates]
    /\ batches \in [Streams -> Nat]
    /\ items \in [Streams -> Nat]
    /\ rejected \in [Streams -> Nat]

(* The log buffer is at every moment exactly the newest MaxLogLines lines of
   all that were accepted, in the order they were appended, however the
   batches of concurrent streams interleave: nothing newer is ever dropped
   for something older, and nothing is lost before the buffer is full. *)
KeepsTheNewest == logs = Newest(appended, MaxLogLines)

(* A query returns the newest matching lines, newest first, up to the limit
   (DefaultLimit when the limit is absent, negative or above MaxLogLines): a
   match comes after exactly the newer matches, and none is skipped. *)
QueriesAreExact ==
    \A ns \in {l.ns : l \in Lines} \cup {NoFilter} :
        \A level \in {l.level : l \in Lines} \cup {NoFilter} :
            \A limit \in -1..MaxLogLines + 1 :
                LET found == {i \in DOMAIN logs : Matches(logs[i], ns, level)}
                    Newer(i) == Cardinality({j \in found : j > i})
                    out == Logs(ns, level, limit)
                IN /\ Len(out) = IF Cardinality(found) < Clamp(limit)
                                 THEN Cardinality(found) ELSE Clamp(limit)
                   /\ \A i \in found :
                         Newer(i) < Clamp(limit) => out[Newer(i) + 1] = logs[i]

(* A stream that stored lines and has yet to write the level gauge, or was
   cut off and never will. *)
OwesGauge(s) == pc[s] # "done" /\ batches[s] > 0

(* A level some retained line has is shown by the gauge, unless a stream that
   stored lines has not got to it: no level is missing once the streams have
   ended cleanly, although each handler counts at a different moment. *)
RetainedLevelsShown ==
    \A i \in DOMAIN logs :
        logs[i].level \in DOMAIN byLevel \/ \E s \in Streams : OwesGauge(s)

StatusOf(state) == CASE state = "recv" -> "open"
                     [] state = "record" -> "closed"
                     [] state = "failed" -> "lost"
                     [] state = "done" -> "answered"
                     [] OTHER -> "counted"

Ledger == INSTANCE StreamLedger WITH
    status <- [s \in Streams |-> StatusOf(pc[s])],
    tally  <- [s \in Streams |-> [batches  |-> batches[s],
                                  items    |-> items[s],
                                  rejected |-> rejected[s]]],
    ledger <- stats

(* Store.stats.Log receives the tally of every log stream that ends cleanly
   exactly once, before the client is answered, and nothing of a stream that
   was cut off; every such stream is counted and answered in the end. *)
ImplementsLedger == Ledger!Spec
=============================================================================
