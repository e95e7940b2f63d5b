---------------------------- MODULE Delivery_proofs ----------------------------
(***************************************************************************)
(* What is recorded is whole, and is held: for any number of items, any    *)
(* batch size, 0 included, any window, and any number of deadlines and     *)
(* restarts.                                                               *)
(*                                                                         *)
(* Batches under way are slices that follow one another, from where the    *)
(* handler has got to (its tally) to where the agent has (Reached).  So    *)
(* once the agent has closed the stream, and the handler has taken         *)
(* everything, the tally is the whole report.                              *)
(*                                                                         *)
(* Delivery has the server end by a crash.  That its orderly end cuts no   *)
(* report and no subscription off is proved at the end, about Lifecycle.   *)
(***************************************************************************)
EXTENDS Delivery, Lifecycle, TLAPS

Reached(c) == IF wire[c] = << >> THEN tally[c].items ELSE wire[c][Len(wire[c])].to

(* The batches of a call follow one another *)
Chain(c) ==
    \A i \in 1..Len(wire[c]) :
        /\ wire[c][i].from <= wire[c][i].to /\ wire[c][i].to <= count
        /\ wire[c][i].from = IF i = 1 THEN tally[c].items ELSE wire[c][i - 1].to

Sound(c) ==
    /\ Chain(c) /\ tally[c].items <= count
    /\ closed[c] => Reached(c) = count
    /\ handler[c] \in {"record", "reply", "answered"} => closed[c] /\ wire[c] = << >>
    /\ handler[c] \in {"recv", "record", "reply"} => 0..(tally[c].items - 1) \subseteq store

Inv ==
    /\ TypeOK
    /\ \A c \in Calls : Sound(c)
    /\ client \in {"sending", "closing"} => Reached(cur) = Smaller(start, count)
    /\ client = "sending" => ~closed[cur]
    /\ recorded => store = Items

-----------------------------------------------------------------------------
LEMMA InvInit == Init => Inv
<1> SUFFICES ASSUME Init PROVE Inv
    OBVIOUS
<1>1. TypeOK
  <2>1. count \in Nat /\ size \in Nat
    BY CountAssumption DEF Init
  <2>2. << >> \in Seq(Slices)
    OBVIOUS
  <2> QED BY <2>1, <2>2 DEF Init, TypeOK, Calls, Zero, ClientStates, HandlerStates
<1>2. \A c \in Calls : Sound(c)
  BY <1>1 DEF Init, TypeOK, Sound, Chain, Calls, Zero
<1> QED BY <1>1, <1>2 DEF Init, Inv

(* The smaller of two numbers, as the code's min *)
LEMMA SmallerIs ==
    ASSUME NEW a \in Nat, NEW b \in Nat
    PROVE  /\ Smaller(a, b) \in Nat /\ Smaller(a, b) <= a /\ Smaller(a, b) <= b
           /\ a < b => Smaller(a, b) = a
           /\ ~(a < b) => Smaller(a, b) = b
BY DEF Smaller

-----------------------------------------------------------------------------
(* A new call begins with nothing under way *)
LEMMA OpenStep == ASSUME Inv, Open PROVE Inv'
<1>1. PICK new \in Calls :
        /\ new # cur /\ cur' = new /\ client' = "sending" /\ start' = 0
        /\ wire' = [wire EXCEPT ![new] = << >>]
        /\ closed' = [closed EXCEPT ![new] = FALSE]
        /\ cancelled' = [cancelled EXCEPT ![new] = FALSE]
        /\ handler' = [handler EXCEPT ![new] = "recv"]
        /\ tally' = [tally EXCEPT ![new] = [batches |-> 0, items |-> 0]]
        /\ UNCHANGED <<count, size, server, store, recorded>>
  <2>1. 1 - cur \in Calls /\ 1 - cur # cur
    BY DEF Inv, TypeOK, Calls
  <2> QED BY <2>1 DEF Open, config, Zero
<1>2. count \in Nat
  BY DEF Inv, TypeOK
<1>3. /\ wire'[new] = << >> /\ ~closed'[new] /\ handler'[new] = "recv"
      /\ tally'[new].items = 0
      /\ \A c \in Calls : c # new =>
           /\ wire'[c] = wire[c] /\ closed'[c] = closed[c]
           /\ handler'[c] = handler[c] /\ tally'[c] = tally[c]
  BY <1>1 DEF Inv, TypeOK
<1>4. TypeOK'
  <2>1. << >> \in Seq(Slices) /\ [batches |-> 0, items |-> 0] \in [batches : Nat, items : Nat]
    OBVIOUS
  <2>2. wire' \in [Calls -> Seq(Slices)] /\ tally' \in [Calls -> [batches : Nat, items : Nat]]
    BY <1>1, <2>1 DEF Inv, TypeOK
  <2>3. /\ closed' \in [Calls -> BOOLEAN] /\ cancelled' \in [Calls -> BOOLEAN]
        /\ handler' \in [Calls -> HandlerStates]
    BY <1>1 DEF Inv, TypeOK, HandlerStates
  <2>4. store' \subseteq Items'
    BY <1>1 DEF Inv, TypeOK, Items
  <2> QED BY <1>1, <2>2, <2>3, <2>4 DEF Inv, TypeOK, ClientStates
<1>5. Sound(new)'
  <2>1. 0..(tally'[new].items - 1) = {}
    BY <1>3
  <2> QED BY <1>1, <1>2, <1>3, <2>1 DEF Sound, Chain
<1>6. ASSUME NEW c \in Calls, c # new PROVE Sound(c)'
  BY <1>1, <1>3, <1>6 DEF Inv, Sound, Chain, Reached
<1>7. Reached(new)' = Smaller(start', count')
  BY <1>1, <1>2, <1>3 DEF Reached, Smaller
<1> QED BY <1>1, <1>3, <1>4, <1>5, <1>6, <1>7 DEF Inv, Items

(* What is sent joins what was sent before, and ends where the agent is *)
LEMMA SendStep == ASSUME Inv, Send PROVE Inv'
<1> DEFINE b == [from |-> start, to |-> Smaller(start + size, count)]
<1>1. /\ client = "sending" /\ start < count /\ ~closed[cur] /\ cur \in Calls
      /\ wire' = [wire EXCEPT ![cur] = Append(@, b)] /\ start' = start + size
      /\ UNCHANGED <<count, size, cur, client, closed, cancelled, handler, tally,
                     server, store, recorded>>
  BY DEF Inv, TypeOK, Send, CanSend, config, serverVars
<1>2. /\ start \in Nat /\ size \in Nat /\ count \in Nat
      /\ wire[cur] \in Seq(Slices) /\ tally[cur].items \in Nat
  BY <1>1 DEF Inv, TypeOK
<1>3. /\ b \in Slices /\ b.from = start /\ b.to = Smaller(start + size, count)
      /\ start <= b.to /\ b.to <= count
  BY <1>1, <1>2, SmallerIs DEF Slices, Smaller
<1>4. Reached(cur) = start
  BY <1>1, <1>2 DEF Inv, Smaller
<1>5. /\ wire'[cur] = Append(wire[cur], b)
      /\ \A c \in Calls : c # cur => wire'[c] = wire[c]
      /\ wire' \in [Calls -> Seq(Slices)]
  BY <1>1, <1>2, <1>3 DEF Inv, TypeOK
<1>6. TypeOK'
  BY <1>1, <1>2, <1>5 DEF Inv, TypeOK, Items
<1>7. Sound(cur)'
  <2>1. Chain(cur)'
    <3>1. Chain(cur)
      BY <1>1 DEF Inv, Sound
    <3>2. /\ Len(wire'[cur]) = Len(wire[cur]) + 1 /\ wire'[cur][Len(wire[cur]) + 1] = b
          /\ \A i \in 1..Len(wire[cur]) : wire'[cur][i] = wire[cur][i]
          /\ Len(wire[cur]) \in Nat
      BY <1>2, <1>3, <1>5
    <3>3. wire[cur] = << >> <=> Len(wire[cur]) = 0
      BY <1>2
    <3> SUFFICES ASSUME NEW i \in 1..(Len(wire[cur]) + 1)
                 PROVE  /\ wire'[cur][i].from <= wire'[cur][i].to /\ wire'[cur][i].to <= count
                        /\ wire'[cur][i].from = IF i = 1 THEN tally[cur].items
                                                       ELSE wire'[cur][i - 1].to
      BY <1>1, <3>2 DEF Chain
    <3>4. CASE i \in 1..Len(wire[cur])
      <4>1. i # 1 => i - 1 \in 1..Len(wire[cur])
        BY <3>2, <3>4
      <4> QED BY <3>1, <3>2, <3>4, <4>1 DEF Chain
    <3>5. CASE i = Len(wire[cur]) + 1
      <4>1. i # 1 => i - 1 \in 1..Len(wire[cur]) /\ i - 1 = Len(wire[cur])
        BY <3>2, <3>5
      <4>2. start = IF i = 1 THEN tally[cur].items ELSE wire[cur][i - 1].to
        BY <1>4, <3>2, <3>3, <3>5, <4>1 DEF Reached
      <4> QED BY <1>3, <3>2, <3>5, <4>1, <4>2
    <3> QED BY <3>2, <3>4, <3>5
  <2> QED BY <1>1, <2>1 DEF Inv, Sound
<1>8. ASSUME NEW c \in Calls, c # cur PROVE Sound(c)'
  BY <1>1, <1>5, <1>8 DEF Inv, Sound, Chain, Reached
<1>9. Reached(cur)' = Smaller(start', count)
  BY <1>1, <1>2, <1>3, <1>5 DEF Reached
<1> QED BY <1>1, <1>6, <1>7, <1>8, <1>9 DEF Inv, Items

(* The agent closes the stream when it has got to the end *)
LEMMA CloseStep == ASSUME Inv, CloseSend PROVE Inv'
<1>1. /\ start >= count /\ cur \in Calls /\ client = "sending" /\ client' = "closing"
      /\ closed' = [closed EXCEPT ![cur] = TRUE]
      /\ UNCHANGED <<count, size, cur, start, wire, cancelled, handler, tally,
                     server, store, recorded>>
  BY DEF Inv, TypeOK, CloseSend, config, serverVars
<1>2. TypeOK'
  BY <1>1 DEF Inv, TypeOK, ClientStates, Items
<1>3. Reached(cur)' = count /\ Reached(cur)' = Smaller(start, count)
  BY <1>1 DEF Inv, TypeOK, Reached, Smaller
<1>4. Sound(cur)'
  BY <1>1, <1>3 DEF Inv, TypeOK, Sound, Chain
<1>5. ASSUME NEW c \in Calls, c # cur PROVE Sound(c)'
  BY <1>1, <1>5 DEF Inv, TypeOK, Sound, Chain, Reached
<1> QED BY <1>1, <1>2, <1>3, <1>4, <1>5 DEF Inv, Items

(* A handler takes the first batch under way: it begins where the tally ends *)
LEMMA TakeStep == ASSUME Inv, NEW d \in Calls, Take(d) PROVE Inv'
<1> DEFINE b == Head(wire[d])
<1>1. /\ handler[d] = "recv" /\ wire[d] # << >>
      /\ store' = store \cup b.from..(b.to - 1)
      /\ tally' = [tally EXCEPT ![d] =
              [batches |-> tally[d].batches + (IF b.from < b.to THEN 1 ELSE 0),
               items   |-> tally[d].items + (b.to - b.from)]]
      /\ wire' = [wire EXCEPT ![d] = Tail(@)]
      /\ UNCHANGED <<count, size, cur, client, start, closed, cancelled, handler,
                     server, recorded>>
  BY DEF Take, config, agentVars
<1>2. /\ wire[d] \in Seq(Slices) /\ Len(wire[d]) > 0 /\ b \in Slices /\ b = wire[d][1]
      /\ tally[d].items \in Nat /\ tally[d].batches \in Nat /\ count \in Nat
  BY <1>1 DEF Inv, TypeOK
<1>3. /\ b.from = tally[d].items /\ b.from <= b.to /\ b.to <= count
      /\ b.from \in Nat /\ b.to \in Nat
  <2>1. Chain(d) /\ 1 \in 1..Len(wire[d])
    BY <1>2 DEF Inv, Sound
  <2> QED BY <1>2, <2>1 DEF Chain, Slices
<1>4. /\ tally'[d].items = b.to /\ tally'[d].batches \in Nat
      /\ tally' \in [Calls -> [batches : Nat, items : Nat]]
      /\ \A c \in Calls : c # d => tally'[c] = tally[c]
  <2>1. PICK n \in Nat :
            tally' = [tally EXCEPT ![d] = [batches |-> tally[d].batches + n,
                                          items |-> tally[d].items + (b.to - b.from)]]
    <3>1. (IF b.from < b.to THEN 1 ELSE 0) \in Nat
      OBVIOUS
    <3> QED BY <1>1, <3>1
  <2>2. tally[d].items + (b.to - b.from) = b.to /\ tally[d].batches + n \in Nat
    BY <1>2, <1>3
  <2> QED BY <1>3, <2>1, <2>2 DEF Inv, TypeOK
<1>5. /\ wire'[d] = Tail(wire[d]) /\ wire'[d] \in Seq(Slices)
      /\ Len(wire'[d]) = Len(wire[d]) - 1
      /\ \A i \in 1..Len(wire'[d]) : wire'[d][i] = wire[d][i + 1]
      /\ wire' \in [Calls -> Seq(Slices)]
      /\ \A c \in Calls : c # d => wire'[c] = wire[c]
  BY <1>1, <1>2 DEF Inv, TypeOK
<1>6. store' \subseteq Items /\ store \subseteq store'
  <2>1. b.from..(b.to - 1) \subseteq 0..(count - 1)
    BY <1>2, <1>3
  <2> QED BY <1>1, <2>1 DEF Inv, TypeOK, Items
<1>7. TypeOK'
  BY <1>1, <1>4, <1>5, <1>6 DEF Inv, TypeOK, Items
<1>8. Reached(d)' = Reached(d)
  <2>1. CASE Len(wire[d]) = 1
    <3>1. wire'[d] = << >>
      BY <1>5, <2>1
    <3> QED BY <1>1, <1>2, <1>4, <2>1, <3>1 DEF Reached
  <2>2. CASE Len(wire[d]) # 1
    <3>1. Len(wire'[d]) \in 1..Len(wire'[d]) /\ wire'[d] # << >>
      <4>1. Len(wire'[d]) \in Nat \ {0}
        BY <1>2, <1>5, <2>2
      <4>2. Len(<< >>) = 0
        OBVIOUS
      <4> QED BY <4>1, <4>2
    <3>2. wire'[d][Len(wire'[d])] = wire[d][Len(wire[d])]
      BY <1>2, <1>5, <3>1
    <3> QED BY <1>1, <3>1, <3>2 DEF Reached
  <2> QED BY <2>1, <2>2
<1>9. Sound(d)'
  <2>1. Chain(d)'
    <3>1. Chain(d)
      BY DEF Inv, Sound
    <3> SUFFICES ASSUME NEW i \in 1..Len(wire'[d])
                 PROVE  /\ wire'[d][i].from <= wire'[d][i].to /\ wire'[d][i].to <= count
                        /\ wire'[d][i].from = IF i = 1 THEN b.to ELSE wire'[d][i - 1].to
      BY <1>1, <1>4 DEF Chain
    <3>2. i + 1 \in 1..Len(wire[d]) /\ i + 1 # 1 /\ (i + 1) - 1 = i
      BY <1>2, <1>5
    <3>3. i # 1 => i - 1 \in 1..Len(wire'[d]) /\ (i - 1) + 1 = i
      BY <1>5
    <3>4. /\ wire[d][i + 1].from <= wire[d][i + 1].to /\ wire[d][i + 1].to <= count
          /\ wire[d][i + 1].from = wire[d][i].to
      BY <3>1, <3>2 DEF Chain
    <3> QED BY <1>2, <1>5, <3>3, <3>4
  <2>2. 0..(b.to - 1) \subseteq store'
    BY <1>1, <1>2, <1>3 DEF Inv, Sound
  <2> QED BY <1>1, <1>3, <1>4, <1>8, <2>1, <2>2 DEF Inv, Sound
<1>10. ASSUME NEW c \in Calls, c # d PROVE Sound(c)' /\ Reached(c)' = Reached(c)
  BY <1>1, <1>4, <1>5, <1>6, <1>10 DEF Inv, Sound, Chain, Reached
<1>11. recorded' => store' = Items
  BY <1>1, <1>6 DEF Inv
<1> QED BY <1>1, <1>7, <1>8, <1>9, <1>10, <1>11 DEF Inv, TypeOK, Items

(* A handler that goes on has everything; what it has, the server holds *)
LEMMA HandlerStep ==
    ASSUME Inv, NEW d \in Calls, EndOfStream(d) \/ Abort(d) \/ Record(d) \/ Reply(d)
    PROVE  Inv'
<1>1. UNCHANGED <<count, size, cur, client, start, wire, closed, cancelled, tally,
                  server, store>>
  BY DEF EndOfStream, Abort, Record, Reply, To, config, agentVars, callVars
<1>2. TypeOK'
  BY <1>1 DEF EndOfStream, Abort, Record, Reply, To, Inv, TypeOK, HandlerStates, Items
<1>3. ASSUME NEW c \in Calls PROVE Sound(c)' /\ Reached(c)' = Reached(c)
  <2>1. Reached(c)' = Reached(c) /\ (Chain(c) => Chain(c)')
    BY <1>1 DEF Reached, Chain
  <2>2. \/ handler'[c] = handler[c]
        \/ handler'[c] = "record" /\ closed[c] /\ wire[c] = << >> /\ handler[c] = "recv"
        \/ handler'[c] = "gone"
        \/ handler[c] = "record" /\ handler'[c] = "reply"
        \/ handler[c] = "reply" /\ handler'[c] = "answered"
    BY DEF EndOfStream, Abort, Record, Reply, To, Inv, TypeOK
  <2> QED BY <1>1, <2>1, <2>2 DEF Inv, Sound
<1>4. recorded' => store' = Items
  <2>1. CASE Record(d)
    <3>1. Sound(d) /\ handler[d] = "record" /\ tally[d].items \in Nat /\ count \in Nat
      BY <2>1 DEF Inv, TypeOK, Record, To
    <3>2. tally[d].items = count /\ 0..(tally[d].items - 1) \subseteq store
      BY <3>1 DEF Sound, Reached
    <3> QED BY <1>1, <3>1, <3>2 DEF Inv, TypeOK, Items
  <2>2. CASE ~Record(d)
    BY <1>1, <2>2 DEF EndOfStream, Abort, Reply, Inv
  <2> QED BY <2>1, <2>2
<1> QED BY <1>1, <1>2, <1>3, <1>4 DEF Inv, TypeOK, Items

(* The memory of the server goes with its handlers *)
LEMMA CrashStep == ASSUME Inv, Crash PROVE Inv'
<1>1. /\ store' = {} /\ recorded' = FALSE /\ server' = "down"
      /\ UNCHANGED <<count, size, cur, client, start, wire, closed, cancelled, tally>>
  BY DEF Crash, config, agentVars, callVars
<1>2. PICK lost \in SUBSET Calls :
        handler' = [c \in Calls |->
            IF handler[c] = "none" \/ (handler[c] = "answered" /\ c \notin lost)
            THEN handler[c] ELSE "gone"]
  BY DEF Crash
<1>3. \A c \in Calls : \/ handler'[c] \in {"none", "gone"}
                       \/ handler[c] = "answered" /\ handler'[c] = "answered"
  BY <1>2
<1>4. handler' \in [Calls -> HandlerStates]
  BY <1>2 DEF HandlerStates
<1>5. TypeOK'
  BY <1>1, <1>4 DEF Inv, TypeOK, Items
<1>6. \A c \in Calls : Sound(c)' /\ Reached(c)' = Reached(c)
  BY <1>1, <1>3 DEF Inv, Sound, Chain, Reached
<1> QED BY <1>1, <1>5, <1>6 DEF Inv, TypeOK

LEMMA InvStep == Inv /\ [Next]_vars => Inv'
<1> SUFFICES ASSUME Inv, [Next]_vars PROVE Inv'
    OBVIOUS
<1>1. CASE Open
  BY <1>1, OpenStep
<1>2. CASE Send
  BY <1>2, SendStep
<1>3. CASE CloseSend
  BY <1>3, CloseStep
<1>4. CASE OpenFails \/ ReceiveSummary \/ StreamBroken \/ Deadline \/ UNCHANGED vars
  <2>1. /\ UNCHANGED <<count, size, cur, start, wire, closed, handler, tally, server,
                       store, recorded>>
        /\ client' = client \/ client' \in {"failed", "acked"}
        /\ cancelled' = cancelled \/ cancelled' = [cancelled EXCEPT ![cur] = TRUE]
    BY <1>4 DEF OpenFails, ReceiveSummary, StreamBroken, Deadline, Fail, vars, config,
                agentVars, callVars, serverVars
  <2>2. TypeOK'
    BY <2>1 DEF Inv, TypeOK, ClientStates, Items
  <2>3. \A c \in Calls : Sound(c)' /\ Reached(c)' = Reached(c)
    BY <2>1 DEF Inv, Sound, Chain, Reached
  <2> QED BY <2>1, <2>2, <2>3 DEF Inv, TypeOK, Items
<1>5. ASSUME NEW d \in Calls, Handle(d) PROVE Inv'
  BY <1>5, TakeStep, HandlerStep DEF Handle
<1>6. CASE Crash
  BY <1>6, CrashStep
<1>7. CASE Restart
  <2>1. /\ UNCHANGED <<count, size, cur, client, start, wire, closed, cancelled, handler,
                       tally, store, recorded>>
        /\ server' = "up"
    BY <1>7 DEF Restart, config, agentVars, callVars
  <2>2. TypeOK'
    BY <2>1 DEF Inv, TypeOK, Items
  <2>3. \A c \in Calls : Sound(c)' /\ Reached(c)' = Reached(c)
    BY <2>1 DEF Inv, Sound, Chain, Reached
  <2> QED BY <2>1, <2>2, <2>3 DEF Inv, TypeOK, Items
<1> QED BY <1>1, <1>2, <1>3, <1>4, <1>5, <1>6, <1>7 DEF Next, Report

-----------------------------------------------------------------------------
(* A report that the server records has arrived whole, whatever the sizes,
   deadlines and restarts (server.go:42-73). *)
THEOREM ReportsAreWhole == Spec => []RecordedIsWhole
<1>1. Inv => RecordedIsWhole
  BY DEF Inv, Sound, Reached, RecordedIsWhole
<1> QED BY <1>1, InvInit, InvStep, PTL DEF Spec

(* From the first report a server records until it ends, it holds every item. *)
THEOREM ReportsAreHeld == Spec => []RecordedIsHeld
<1>1. Inv => RecordedIsHeld
  BY DEF Inv, RecordedIsHeld
<1> QED BY <1>1, InvInit, InvStep, PTL DEF Spec

-----------------------------------------------------------------------------
(***************************************************************************)
(* Every batch but the last is full, so that the number of batches tells   *)
(* how far a handler has got, up to the last one.                          *)
(***************************************************************************)
FullOrLast(c) ==
    \A i \in 1..Len(wire[c]) :
        /\ wire[c][i].from < count
        /\ wire[c][i].to = Smaller(wire[c][i].from + size, count)

Counted(t) ==
    /\ t.items = count \/ t.items = t.batches * size
    /\ t.items <= t.batches * size
    /\ t.batches > 0 => (t.batches - 1) * size < t.items

Exact ==
    /\ \A c \in Calls : FullOrLast(c) /\ Counted(tally[c])
    /\ client = "acked" => handler[cur] \in {"answered", "gone"} /\ tally[cur].items = count

LEMMA ProductStep ==
    ASSUME NEW n \in Nat, NEW m \in Nat
    PROVE  n * m \in Nat /\ (n + 1) * m = n * m + m /\ ((n + 1) - 1) * m = n * m
OBVIOUS

LEMMA CountedZero == ASSUME count \in Nat, size \in Nat PROVE Counted(Zero)
BY DEF Counted, Zero

LEMMA ExactInit == Init => Exact
<1> SUFFICES ASSUME Init PROVE Exact
  OBVIOUS
<1>1. count \in Nat /\ size \in Nat
  BY CountAssumption DEF Init
<1>2. ASSUME NEW c \in Calls PROVE wire[c] = << >> /\ tally[c] = Zero
  BY <1>2 DEF Init
<1>3. client = "idle"
  BY DEF Init
<1> QED BY <1>1, <1>2, <1>3, CountedZero DEF Exact, FullOrLast

(* One more batch: it begins where the tally ends *)
LEMMA OneMore ==
    ASSUME count \in Nat, size \in Nat, NEW t \in [batches : Nat, items : Nat], Counted(t),
           NEW b \in Slices, b.from = t.items, b.from < count,
           b.to = Smaller(b.from + size, count)
    PROVE  Counted([batches |-> t.batches + (IF b.from < b.to THEN 1 ELSE 0),
                    items   |-> t.items + (b.to - b.from)])
<1>1. PICK n \in Nat : n = t.batches
  OBVIOUS
<1>2. PICK p \in Nat : p = n * size /\ (n + 1) * size = p + size /\ ((n + 1) - 1) * size = p
  BY ProductStep
<1>3. t.items = p /\ b.from = p /\ p < count
  BY <1>1, <1>2 DEF Counted
<1>4. b.to \in Nat /\ b.to <= count /\ b.to <= p + size
      /\ (b.to = count \/ b.to = p + size) /\ b.to >= p
  BY <1>2, <1>3 DEF Smaller
<1>5. CASE b.from < b.to
  <2>1. PICK u : u = [batches |-> n + 1, items |-> b.to]
    OBVIOUS
  <2>2. u.batches = n + 1 /\ u.items = b.to
    BY <2>1
  <2>3. Counted(u)
    BY <1>2, <1>3, <1>4, <1>5, <2>2 DEF Counted
  <2>4. t.batches + (IF b.from < b.to THEN 1 ELSE 0) = n + 1
        /\ t.items + (b.to - b.from) = b.to
    BY <1>1, <1>3, <1>4, <1>5
  <2> QED BY <2>1, <2>3, <2>4
<1>6. CASE ~(b.from < b.to)
  <2>1. t.batches + (IF b.from < b.to THEN 1 ELSE 0) = t.batches
        /\ t.items + (b.to - b.from) = t.items
    BY <1>1, <1>3, <1>4, <1>6
  <2>2. [batches |-> t.batches, items |-> t.items] = t
    OBVIOUS
  <2> QED BY <2>1, <2>2
<1> QED BY <1>5, <1>6

LEMMA ExactStep == Inv /\ Exact /\ [Next]_vars => Exact'
<1> SUFFICES ASSUME Inv, Exact, [Next]_vars PROVE Exact'
  OBVIOUS
<1>0. /\ count \in Nat /\ size \in Nat /\ cur \in Calls /\ start \in Nat
      /\ wire \in [Calls -> Seq(Slices)] /\ tally \in [Calls -> [batches : Nat, items : Nat]]
      /\ handler \in [Calls -> HandlerStates]
      /\ count' = count /\ size' = size
  <2>1. count' = count /\ size' = size
    BY DEF Next, Report, Open, OpenFails, Send, CloseSend, ReceiveSummary, StreamBroken,
           Deadline, Fail, Handle, Take, EndOfStream, Abort, Record, Reply, To, Crash,
           Restart, vars, config
  <2> QED BY <2>1 DEF Inv, TypeOK
<1>1. ASSUME UNCHANGED <<wire, tally>>,
             client' = "acked" => /\ cur' = cur
                                  /\ handler'[cur] \in {"answered", "gone"}
                                  /\ tally[cur].items = count
      PROVE  Exact'
  BY <1>0, <1>1 DEF Exact, FullOrLast, Counted
<1>2. CASE Open
  <2>1. PICK new \in Calls : /\ wire' = [wire EXCEPT ![new] = << >>]
                             /\ tally' = [tally EXCEPT ![new] = Zero]
                             /\ client' = "sending"
    <3>1. 1 - cur \in Calls
      BY <1>0 DEF Calls
    <3> QED BY <1>2, <3>1 DEF Open
  <2>2. /\ wire'[new] = << >> /\ tally'[new] = Zero
        /\ \A c \in Calls : c # new => wire'[c] = wire[c] /\ tally'[c] = tally[c]
    BY <1>0, <2>1
  <2>3. Counted(Zero)'
    BY <1>0, CountedZero DEF Counted, Zero
  <2>4. FullOrLast(new)' /\ Counted(tally[new])'
    BY <2>2, <2>3 DEF FullOrLast, Counted
  <2>5. ASSUME NEW c \in Calls, c # new PROVE FullOrLast(c)' /\ Counted(tally[c])'
    BY <1>0, <2>2, <2>5 DEF Exact, FullOrLast, Counted
  <2> QED BY <2>1, <2>4, <2>5 DEF Exact
<1>3. CASE Send
  <2> DEFINE b == [from |-> start, to |-> Smaller(start + size, count)]
  <2>1. /\ wire' = [wire EXCEPT ![cur] = Append(wire[cur], b)] /\ start < count
        /\ tally' = tally /\ client' = "sending"
    BY <1>3 DEF Send, CanSend, serverVars
  <2>2. b \in Slices /\ b.from = start /\ b.to = Smaller(start + size, count)
    <3>1. Smaller(start + size, count) \in Nat
      BY <1>0 DEF Smaller
    <3> QED BY <1>0, <3>1 DEF Slices
  <2>3. /\ wire'[cur] = Append(wire[cur], b) /\ wire[cur] \in Seq(Slices)
        /\ \A c \in Calls : c # cur => wire'[c] = wire[c]
    BY <1>0, <2>1
  <2> HIDE DEF b
  <2>4. FullOrLast(cur)'
    <3>1. \A i \in 1..Len(wire'[cur]) :
             \/ i \in 1..Len(wire[cur]) /\ wire'[cur][i] = wire[cur][i]
             \/ wire'[cur][i] = b
      BY <2>2, <2>3
    <3>2. cur' = cur
      BY <1>3 DEF Send
    <3> QED BY <1>0, <2>1, <2>2, <3>1, <3>2 DEF Exact, FullOrLast, Smaller
  <2>5. ASSUME NEW c \in Calls PROVE FullOrLast(c)' /\ Counted(tally[c])'
    <3>1. Counted(tally[c])'
      BY <1>0, <2>1 DEF Exact, Counted
    <3>2. CASE c # cur
      BY <1>0, <2>3, <3>1, <3>2 DEF Exact, FullOrLast, Smaller
    <3>3. CASE c = cur
      <4>1. cur' = cur
        BY <1>3 DEF Send
      <4> QED BY <2>4, <3>1, <3>3, <4>1 DEF FullOrLast
    <3> QED BY <3>2, <3>3
  <2> QED BY <2>1, <2>5 DEF Exact
<1>4. ASSUME NEW d \in Calls, Take(d) PROVE Exact'
  <2> DEFINE b == Head(wire[d])
  <2>1. /\ handler[d] = "recv" /\ wire[d] # << >>
        /\ tally' = [tally EXCEPT ![d] =
                [batches |-> tally[d].batches + (IF b.from < b.to THEN 1 ELSE 0),
                 items   |-> tally[d].items + (b.to - b.from)]]
        /\ wire' = [wire EXCEPT ![d] = Tail(wire[d])]
        /\ UNCHANGED <<client, cur, handler>>
    BY <1>4 DEF Take, agentVars
  <2>2. /\ wire[d] \in Seq(Slices) /\ Len(wire[d]) > 0 /\ b \in Slices /\ b = wire[d][1]
        /\ 1 \in 1..Len(wire[d])
    BY <1>0, <2>1
  <2>3. b.from = tally[d].items /\ b.from < count /\ b.to = Smaller(b.from + size, count)
    BY <2>2 DEF Inv, Sound, Chain, Exact, FullOrLast
  <2>4. tally[d] \in [batches : Nat, items : Nat] /\ Counted(tally[d])
    BY <1>0 DEF Exact
  <2>5. /\ tally'[d] = [batches |-> tally[d].batches + (IF b.from < b.to THEN 1 ELSE 0),
                        items   |-> tally[d].items + (b.to - b.from)]
        /\ \A c \in Calls : c # d => tally'[c] = tally[c]
    BY <1>0, <2>1
  <2>6. Counted(tally'[d])
    BY <1>0, <2>2, <2>3, <2>4, <2>5, OneMore
  <2>7. /\ wire'[d] = Tail(wire[d])
        /\ \A c \in Calls : c # d => wire'[c] = wire[c]
        /\ \A i \in 1..Len(wire'[d]) : i + 1 \in 1..Len(wire[d]) /\ wire'[d][i] = wire[d][i + 1]
    BY <1>0, <2>1, <2>2
  <2> HIDE DEF b
  <2>8. FullOrLast(d)'
    BY <1>0, <2>7 DEF Exact, FullOrLast, Smaller
  <2>9. ASSUME NEW c \in Calls PROVE FullOrLast(c)' /\ Counted(tally[c])'
    <3>1. CASE c = d
      BY <1>0, <2>6, <2>8, <3>1 DEF FullOrLast, Counted
    <3>2. CASE c # d
      <4>1. wire'[c] = wire[c] /\ tally'[c] = tally[c] /\ FullOrLast(c) /\ Counted(tally[c])
        BY <2>5, <2>7, <3>2 DEF Exact
      <4>2. FullOrLast(c)'
        BY <1>0, <4>1 DEF FullOrLast, Smaller
      <4>3. Counted(tally[c])'
        BY <1>0, <4>1 DEF Counted
      <4> QED BY <4>2, <4>3
    <3> QED BY <3>1, <3>2
  <2>10. client = "acked" => cur # d
    BY <2>1 DEF Exact
  <2> QED BY <1>0, <2>1, <2>5, <2>9, <2>10 DEF Exact
<1>5. ASSUME NEW d \in Calls, EndOfStream(d) \/ Abort(d) \/ Record(d) \/ Reply(d)
      PROVE  Exact'
  <2>1. UNCHANGED <<client, cur, wire, tally>>
    BY <1>5 DEF EndOfStream, Abort, Record, Reply, To, agentVars, callVars
  <2>2. \/ handler'[cur] = handler[cur]
        \/ handler[cur] \in {"recv", "record", "reply"}
    BY <1>0, <1>5 DEF EndOfStream, Abort, Record, Reply, To
  <2> QED BY <1>1, <2>1, <2>2 DEF Exact
<1>6. CASE Crash
  <2>1. UNCHANGED <<client, cur, wire, tally>>
    BY <1>6 DEF Crash, agentVars, callVars
  <2>2. handler[cur] \in {"answered", "gone"} => handler'[cur] \in {"answered", "gone"}
    BY <1>0, <1>6 DEF Crash
  <2> QED BY <1>1, <2>1, <2>2 DEF Exact
<1>7. CASE ReceiveSummary
  <2>1. /\ handler[cur] = "answered" /\ UNCHANGED <<cur, wire, tally, handler>>
    BY <1>7 DEF ReceiveSummary, callVars, serverVars
  <2>2. tally[cur].items = count
    BY <1>0, <2>1 DEF Inv, Sound, Reached
  <2> QED BY <1>1, <2>1, <2>2
<1>8. CASE OpenFails \/ CloseSend \/ StreamBroken \/ Deadline
  <2>1. client' \in {"failed", "closing"} /\ UNCHANGED <<wire, tally>>
    BY <1>8 DEF OpenFails, CloseSend, StreamBroken, Deadline, Fail, callVars, serverVars
  <2> QED BY <1>1, <2>1
<1>9. CASE Restart \/ UNCHANGED vars
  <2>1. UNCHANGED <<client, cur, wire, tally, handler>>
    BY <1>9 DEF Restart, vars, agentVars, callVars, serverVars
  <2> QED BY <1>1, <2>1 DEF Exact
<1> QED
  BY <1>2, <1>3, <1>4, <1>5, <1>6, <1>7, <1>8, <1>9 DEF Next, Report, Handle

(* What an acknowledged summary says is what the agent had, in as few
   batches as the size allows. *)
THEOREM SummariesAreExact == Spec => []AckedIsExact
<1>1. Inv /\ Exact => AckedIsExact
  <2> SUFFICES ASSUME Inv, Exact, client = "acked" PROVE AckedIsExact
    BY DEF AckedIsExact
  <2>1. /\ tally[cur].items = count /\ Counted(tally[cur])
        /\ count \in Nat /\ size \in Nat /\ tally[cur].batches \in Nat
    BY DEF Exact, Inv, TypeOK
  <2>2. tally[cur].batches = 0 => count = 0
    BY <2>1 DEF Counted
  <2> QED BY <2>1, <2>2 DEF Counted, AckedIsExact
<1> QED BY <1>1, InvInit, InvStep, ExactInit, ExactStep, PTL DEF Spec

(* Every variable holds a value its Go counterpart can hold. *)
THEOREM TypeCorrect == Spec => []TypeOK
<1>1. Inv => TypeOK
  BY DEF Inv
<1> QED BY <1>1, InvInit, InvStep, PTL DEF Spec

-----------------------------------------------------------------------------
(***************************************************************************)
(* The orderly end of the server.                                          *)
(***************************************************************************)

(* Of the calls, while the process is up: none is cut, and none is open once
   GracefulStop has returned.  Only a subscription is ever held. *)
Uncut ==
    /\ \A r \in Reports : /\ report[r] \in {"none", "open", "ended"}
                          /\ grpc = "stopped" => report[r] # "open"
    /\ \A a \in Agents : /\ sub[a] \in {"none", "held", "ended"}
                         /\ grpc = "stopped" => sub[a] # "held"

ProcessInv == ProcessTypeOK /\ (process = "up" => Uncut) /\ NoStreamCut

LEMMA ProcessInitInv == ProcessInit => ProcessInv
BY DEF ProcessInit, ProcessInv, ProcessTypeOK, CallStates, Uncut, NoStreamCut

(* A call that begins or ends *)
LEMMA CallStep ==
    ASSUME ProcessInv,
           \/ \E a \in Agents : Subscribe(a) \/ Leave(a)
           \/ \E r \in Reports : OpenReport(r) \/ EndReport(r)
           \/ \E q \in Requests : OpenRequest(q) \/ EndRequest(q)
    PROVE  ProcessInv'
<1> USE DEF ProcessInv, ProcessTypeOK, CallStates, Uncut, NoStreamCut, servers
<1>1. ASSUME NEW a \in Agents, Subscribe(a) PROVE ProcessInv'
  BY <1>1 DEF Subscribe
<1>2. ASSUME NEW a \in Agents, Leave(a) PROVE ProcessInv'
  BY <1>2 DEF Leave
<1>3. ASSUME NEW r \in Reports, OpenReport(r) PROVE ProcessInv'
  BY <1>3 DEF OpenReport
<1>4. ASSUME NEW r \in Reports, EndReport(r) PROVE ProcessInv'
  BY <1>4 DEF EndReport
<1>5. ASSUME NEW q \in Requests, OpenRequest(q) \/ EndRequest(q)
      PROVE  ProcessInv'
  BY <1>5 DEF OpenRequest, EndRequest
<1> QED BY <1>1, <1>2, <1>3, <1>4, <1>5

(* When main returns, GracefulStop has waited for what there was to cut; the
   other two ends are not of a shutdown's own making *)
LEMMA EndStep ==
    ASSUME ProcessInv, MainReturns \/ ServeFails \/ Kill
    PROVE  ProcessInv'
<1> USE DEF ProcessInv, ProcessTypeOK, CallStates, Uncut, NoStreamCut, servers,
            CutAll, Cut
<1>1. CASE MainReturns
  BY <1>1 DEF MainReturns
<1>2. CASE ServeFails
  BY <1>2 DEF ServeFails
<1>3. CASE Kill
  BY <1>3 DEF Kill
<1> QED BY <1>1, <1>2, <1>3

LEMMA StopperStep ==
    ASSUME ProcessInv, Signal \/ Stopper
    PROVE  ProcessInv'
<1> USE DEF ProcessInv, ProcessTypeOK, Uncut, NoStreamCut, servers, calls
<1>1. CASE Signal
  BY <1>1 DEF Signal
<1>2. CASE BeginStop
  BY <1>2 DEF BeginStop
<1>3. CASE EndStop
  BY <1>3 DEF EndStop
<1>4. CASE BeginShutdown
  BY <1>4 DEF BeginShutdown
<1>5. CASE EndShutdown
  BY <1>5 DEF EndShutdown
<1> QED BY <1>1, <1>2, <1>3, <1>4, <1>5 DEF Stopper

LEMMA ProcessStepInv == ProcessInv /\ [ProcessNext]_processVars => ProcessInv'
<1>1. ASSUME ProcessInv, UNCHANGED processVars PROVE ProcessInv'
  BY <1>1 DEF ProcessInv, ProcessTypeOK, Uncut, NoStreamCut, processVars, servers,
              calls
<1> QED BY <1>1, CallStep, EndStep, StopperStep DEF ProcessNext

(* A shutdown that comes to its own end has cut no report and no subscription
   short, for any number of agents, reports and HTTP requests: when Serve
   returns, GracefulStop has let each of them end. *)
THEOREM ShutdownCutsNoStream == ProcessSpec => []NoStreamCut
<1>1. ProcessInv => NoStreamCut
  BY DEF ProcessInv
<1> QED BY <1>1, ProcessInitInv, ProcessStepInv, PTL DEF ProcessSpec

(* The shutdown goroutine has always got as far as the two servers say. *)
THEOREM ProcessTypeCorrect == ProcessSpec => []ProcessTypeOK
<1>1. ProcessInv => ProcessTypeOK
  BY DEF ProcessInv
<1> QED BY <1>1, ProcessInitInv, ProcessStepInv, PTL DEF ProcessSpec
=============================================================================
