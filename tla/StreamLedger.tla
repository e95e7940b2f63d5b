----------------------------- MODULE StreamLedger -----------------------------
(***************************************************************************)
(* What the collector promises of a Report call, whichever of the three it *)
(* is: while the stream is open its tally of batches, items and rejected   *)
(* items only grows; when the client closes it, the tally goes into the    *)
(* server's statistics exactly once, and only then is the client answered; *)
(* a stream that is cut off is never counted.  ReportMeta, ReportMetric    *)
(* and ReportLog implement it.                                             *)
(***************************************************************************)
EXTENDS Integers

CONSTANT Streams

VARIABLES
    status,     \* open, closed, counted, answered or lost
    tally,      \* what a stream has brought so far
    ledger      \* the statistics: what the counted streams brought

vars == <<status, tally, ledger>>

Tallies == [batches : Nat, items : Nat, rejected : Nat]
Zero == [batches |-> 0, items |-> 0, rejected |-> 0]

Sum(a, b) == [batches  |-> a.batches + b.batches,
              items    |-> a.items + b.items,
              rejected |-> a.rejected + b.rejected]

Init == /\ status = [s \in Streams |-> "open"]
        /\ tally = [s \in Streams |-> Zero]
        /\ ledger = Zero

Take(s) ==
    /\ status[s] = "open"
    /\ tally'[s] \in Tallies
    /\ tally'[s].batches >= tally[s].batches
    /\ tally'[s].items >= tally[s].items
    /\ tally'[s].rejected >= tally[s].rejected
    /\ tally' = [tally EXCEPT ![s] = tally'[s]]
    /\ UNCHANGED <<status, ledger>>

Move(s, from, to) == status[s] = from /\ status' = [status EXCEPT ![s] = to]

Close(s) == Move(s, "open", "closed") /\ UNCHANGED <<tally, ledger>>
Lose(s) == Move(s, "open", "lost") /\ UNCHANGED <<tally, ledger>>
Count(s) == /\ Move(s, "closed", "counted")
            /\ ledger' = Sum(ledger, tally[s])
            /\ UNCHANGED tally
Answer(s) == Move(s, "counted", "answered") /\ UNCHANGED <<tally, ledger>>

Next == \E s \in Streams : Take(s) \/ Close(s) \/ Lose(s) \/ Count(s) \/ Answer(s)

Spec == /\ Init /\ [][Next]_vars
        /\ \A s \in Streams : WF_vars(Count(s)) /\ WF_vars(Answer(s))
=============================================================================
