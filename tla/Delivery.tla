------------------------------- MODULE Delivery -------------------------------
(***************************************************************************)
(* One report after another from an agent to the server: the send          *)
(* functions of both agents (src/cmd/agent/main.go,                        *)
(* src/cmd/node-agent/main.go), the stream between them, the Report        *)
(* handlers (src/internal/server/server.go) as far as a stream sees them,  *)
(* and a server that keeps all it has in memory and may restart.  A send   *)
(* slices its items into batches, closes the stream and waits for the      *)
(* summary, all within a deadline; whatever goes wrong, the agent forgets  *)
(* it and reports everything again in its next cycle.                      *)
(*                                                                         *)
(* A call that the agent has given up may still be handled, so there are   *)
(* two: the current one, and the one before.  What the server keeps of an  *)
(* item is its latest state; the limits of its buffers are not reached.    *)
(* The clocks agree: only an empty batch is rejected.                      *)
(***************************************************************************)
EXTENDS Integers, Sequences

CONSTANTS
    Counts,         \* how many items there may be to report
    Sizes,          \* values of -batch
    Window,         \* bound: batches under way (flow control)
    MaxDeadlines,   \* bound: deadlines that pass
    MaxCrashes      \* bound: restarts of the server

ASSUME CountAssumption == Counts \subseteq Nat /\ Sizes \subseteq Nat
ASSUME BoundAssumption == /\ Window \in Nat \ {0}
                          /\ MaxDeadlines \in Nat /\ MaxCrashes \in Nat

Calls == {0, 1}

VARIABLES
    count, size,        \* what this agent has to report, and its -batch
    cur,                \* the call of the current cycle
    client,             \* send: idle, sending, closing, acked or failed
    start,              \* its loop variable
    wire,               \* batches under way, as [from, to): indexes of items
    closed,             \* CloseSend came after them
    cancelled,          \* the call's context is done
    handler,            \* none, recv, record, reply, answered or gone
    tally,              \* the handler's locals
    server,             \* up or down
    store,              \* the items the server holds
    recorded,           \* history: a report was recorded since the server started
    deadlines, crashes  \* bounds

config == <<count, size>>
agentVars == <<cur, client, start>>
callVars == <<wire, closed, cancelled>>
serverVars == <<handler, tally, server, store, recorded>>
bounds == <<deadlines, crashes>>
vars == <<config, agentVars, callVars, serverVars, bounds>>

Items == 0..(count - 1)
Zero == [batches |-> 0, items |-> 0]
Smaller(a, b) == IF a < b THEN a ELSE b

-----------------------------------------------------------------------------
(***************************************************************************)
(* The agent.                                                              *)
(***************************************************************************)

(* Mutant of Open: a send that failed is the last *)
OpenUnlessFailed ==
    \/ client = "failed" /\ UNCHANGED vars
    \/ /\ client \in {"idle", "acked"}
       /\ server = "up" /\ handler[1 - cur] \in {"none", "answered", "gone"}
       /\ cur' = 1 - cur /\ client' = "sending" /\ start' = 0
       /\ wire' = [wire EXCEPT ![1 - cur] = << >>]
       /\ closed' = [closed EXCEPT ![1 - cur] = FALSE]
       /\ cancelled' = [cancelled EXCEPT ![1 - cur] = FALSE]
       /\ handler' = [handler EXCEPT ![1 - cur] = "recv"]
       /\ tally' = [tally EXCEPT ![1 - cur] = Zero]
       /\ UNCHANGED <<config, server, store, recorded, bounds>>

(* A new cycle.  Bound: the call before the last one is over by then. *)
Open ==
    /\ client \in {"idle", "acked", "failed"}
    /\ server = "up" /\ handler[1 - cur] \in {"none", "answered", "gone"}
    /\ cur' = 1 - cur /\ client' = "sending" /\ start' = 0
    /\ wire' = [wire EXCEPT ![1 - cur] = << >>]
    /\ closed' = [closed EXCEPT ![1 - cur] = FALSE]
    /\ cancelled' = [cancelled EXCEPT ![1 - cur] = FALSE]
    /\ handler' = [handler EXCEPT ![1 - cur] = "recv"]
    /\ tally' = [tally EXCEPT ![1 - cur] = Zero]
    /\ UNCHANGED <<config, server, store, recorded, bounds>>

(* Opening the stream fails, and with it the cycle *)
OpenFails ==
    /\ client \in {"idle", "acked", "failed"} /\ server = "down"
    /\ client' = "failed"
    /\ UNCHANGED <<config, cur, start, callVars, serverVars, bounds>>

CanSend == /\ client = "sending" /\ start < count
           /\ Len(wire[cur]) < Window /\ handler[cur] # "gone"

(* Mutant of Send: the last batch is not cut off at the end of the list *)
SendUncut ==
    /\ CanSend
    /\ wire' = [wire EXCEPT ![cur] = Append(@, [from |-> start, to |-> start + size])]
    /\ start' = start + size
    /\ UNCHANGED <<config, cur, client, closed, cancelled, serverVars, bounds>>

(* Mutant of Send: it goes on after the item behind the batch *)
SendSkips ==
    /\ CanSend
    /\ wire' = [wire EXCEPT ![cur] =
                   Append(@, [from |-> start, to |-> Smaller(start + size, count)])]
    /\ start' = start + size + 1
    /\ UNCHANGED <<config, cur, client, closed, cancelled, serverVars, bounds>>

(* With a size of 0 this is an empty batch, again and again *)
Send ==
    /\ CanSend
    /\ wire' = [wire EXCEPT ![cur] =
                   Append(@, [from |-> start, to |-> Smaller(start + size, count)])]
    /\ start' = start + size
    /\ UNCHANGED <<config, cur, client, closed, cancelled, serverVars, bounds>>

CloseSend ==
    /\ client = "sending" /\ start >= count
    /\ client' = "closing" /\ closed' = [closed EXCEPT ![cur] = TRUE]
    /\ UNCHANGED <<config, cur, start, wire, cancelled, serverVars, bounds>>

ReceiveSummary ==
    /\ client = "closing" /\ handler[cur] = "answered"
    /\ client' = "acked"
    /\ UNCHANGED <<config, cur, start, callVars, serverVars, bounds>>

Fail == /\ client' = "failed" /\ cancelled' = [cancelled EXCEPT ![cur] = TRUE]
        /\ UNCHANGED <<config, cur, start, wire, closed, serverVars>>

(* 30 s have passed, wherever the report is.  A size of 0 always gets here,
   so the bound is for the others. *)
Deadline ==
    /\ client \in {"sending", "closing"}
    /\ \/ size = 0 /\ start < count /\ UNCHANGED deadlines
       \/ deadlines < MaxDeadlines /\ deadlines' = deadlines + 1
    /\ Fail
    /\ UNCHANGED crashes

(* Send or RecvMsg finds the stream broken *)
StreamBroken ==
    /\ client \in {"sending", "closing"} /\ handler[cur] = "gone"
    /\ Fail /\ UNCHANGED bounds

-----------------------------------------------------------------------------
(***************************************************************************)
(* The server.                                                             *)
(***************************************************************************)

(* Mutant of Take: the resources of a batch take the place of all others *)
TakeReplaces(c) ==
    /\ handler[c] = "recv" /\ wire[c] # << >>
    /\ LET b == Head(wire[c]) IN
       /\ store' = IF b.from < b.to THEN b.from..(b.to - 1) ELSE store
       /\ tally' = [tally EXCEPT ![c] =
              [batches |-> @.batches + (IF b.from < b.to THEN 1 ELSE 0),
               items   |-> @.items + (b.to - b.from)]]
    /\ wire' = [wire EXCEPT ![c] = Tail(@)]
    /\ UNCHANGED <<config, agentVars, closed, cancelled, handler, server,
                   recorded, bounds>>

(* An iteration of the receive loop: an empty batch is rejected, and has
   nothing to count.  What arrived before the call was cancelled may be read. *)
Take(c) ==
    /\ handler[c] = "recv" /\ wire[c] # << >>
    /\ LET b == Head(wire[c]) IN
       /\ store' = store \cup b.from..(b.to - 1)
       /\ tally' = [tally EXCEPT ![c] =
              [batches |-> @.batches + (IF b.from < b.to THEN 1 ELSE 0),
               items   |-> @.items + (b.to - b.from)]]
    /\ wire' = [wire EXCEPT ![c] = Tail(@)]
    /\ UNCHANGED <<config, agentVars, closed, cancelled, handler, server,
                   recorded, bounds>>

To(c, from, to) ==
    /\ handler[c] = from /\ handler' = [handler EXCEPT ![c] = to]
    /\ UNCHANGED <<config, agentVars, callVars, tally, server, store, bounds>>

EndOfStream(c) == wire[c] = << >> /\ closed[c] /\ To(c, "recv", "record")
                  /\ UNCHANGED recorded

(* Mutant of Abort: an error of Recv is taken for the end of the stream *)
AbortRecords(c) == cancelled[c] /\ To(c, "recv", "record") /\ UNCHANGED recorded

Abort(c) == cancelled[c] /\ To(c, "recv", "gone") /\ UNCHANGED recorded

(* ResolveRelations, RecordStream and publish *)
Record(c) == To(c, "record", "reply") /\ recorded' = TRUE

(* SendAndClose: if the client has gone, nobody sees it *)
Reply(c) == To(c, "reply", "answered") /\ UNCHANGED recorded

(* The process ends, with its handlers and its memory.  An answer may have
   got through. *)
Crash ==
    /\ server = "up" /\ crashes < MaxCrashes /\ crashes' = crashes + 1
    /\ server' = "down" /\ store' = {} /\ recorded' = FALSE
    /\ \E lost \in SUBSET Calls :
        handler' = [c \in Calls |->
            IF handler[c] = "none" \/ (handler[c] = "answered" /\ c \notin lost)
            THEN handler[c] ELSE "gone"]
    /\ UNCHANGED <<config, agentVars, callVars, tally, deadlines>>

Restart ==
    /\ server = "down" /\ server' = "up"
    /\ UNCHANGED <<config, agentVars, callVars, handler, tally, store,
                   recorded, bounds>>

-----------------------------------------------------------------------------
Init ==
    /\ count \in Counts /\ size \in Sizes
    /\ cur = 0 /\ client = "idle" /\ start = 0
    /\ wire = [c \in Calls |-> << >>]
    /\ closed = [c \in Calls |-> FALSE] /\ cancelled = [c \in Calls |-> FALSE]
    /\ handler = [c \in Calls |-> "none"] /\ tally = [c \in Calls |-> Zero]
    /\ server = "up" /\ store = {} /\ recorded = FALSE
    /\ deadlines = 0 /\ crashes = 0

Report == Open \/ OpenFails \/ Send \/ CloseSend \/ ReceiveSummary \/ StreamBroken
Handle(c) == Take(c) \/ EndOfStream(c) \/ Abort(c) \/ Record(c) \/ Reply(c)

Next == Report \/ Deadline \/ (\E c \in Calls : Handle(c)) \/ Crash \/ Restart

(* The agent goes through its cycles, deadlines pass, handlers run and
   Kubernetes starts the server again. *)
Spec == /\ Init /\ [][Next]_vars
        /\ WF_vars(Report) /\ WF_vars(Deadline) /\ WF_vars(Restart)
        /\ \A c \in Calls : WF_vars(Handle(c))

-----------------------------------------------------------------------------
(***************************************************************************)
(* Properties.                                                             *)
(***************************************************************************)

ClientStates == {"idle", "sending", "closing", "acked", "failed"}
HandlerStates == {"none", "recv", "record", "reply", "answered", "gone"}
Slices == [from : Nat, to : Nat]

(* Every variable holds a value its Go counterpart can hold; only items of
   the list are ever stored. *)
TypeOK ==
    /\ count \in Nat /\ size \in Nat /\ cur \in Calls
    /\ client \in ClientStates /\ start \in Nat
    /\ wire \in [Calls -> Seq(Slices)]
    /\ closed \in [Calls -> BOOLEAN] /\ cancelled \in [Calls -> BOOLEAN]
    /\ handler \in [Calls -> HandlerStates]
    /\ tally \in [Calls -> [batches : Nat, items : Nat]]
    /\ server \in {"up", "down"} /\ store \subseteq Items

(* A report that the server records has arrived whole: a deadline, a restart
   or a size that does not divide the number of items never makes a handler
   take a part for the report, also when the agent has given the call up. *)
RecordedIsWhole ==
    \A c \in Calls :
        handler[c] \in {"record", "reply", "answered"} => tally[c].items = count

(* What an acknowledged summary says is what the agent had: every item, once,
   in as few batches as the size allows. *)
AckedIsExact ==
    client = "acked" =>
        /\ tally[cur].items = count
        /\ count > 0 => /\ (tally[cur].batches - 1) * size < count
                        /\ count <= tally[cur].batches * size

(* From the first report it records after a start until its end, the server
   holds every item, whatever failed reports bring in between. *)
RecordedIsHeld == recorded => store = Items

(* Once restarts and deadlines stop, the server holds everything for good and
   reports are acknowledged again and again, although the agent repeats no
   report that failed: the next cycle does. *)
Recovers == size > 0 => /\ <>[](store = Items)
                        /\ []<>(client = "acked")
=============================================================================
