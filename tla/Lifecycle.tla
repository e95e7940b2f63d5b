------------------------------- MODULE Lifecycle -------------------------------
(***************************************************************************)
(* The server process (src/cmd/server/main.go): main serves gRPC, one      *)
(* goroutine serves HTTP, and one waits for SIGTERM and then shuts both    *)
(* down, gRPC first.  GracefulStop closes the listener, lets the calls     *)
(* that are open run to their end, and makes Serve return; the process     *)
(* ends when main does, whatever the other goroutines are doing.  Serve    *)
(* may also fail by itself, and main then exits with an error.             *)
(***************************************************************************)
EXTENDS Naturals

CONSTANTS
    Agents,     \* Subscribe calls: open until the agent leaves
    Reports,    \* ReportMeta, ReportMetric and ReportLog calls
    Requests    \* HTTP requests

VARIABLES
    signalled,  \* SIGTERM or Interrupt has arrived
    process,    \* up, exited, failed or killed
    grpc,       \* serving, draining or stopped
    http,       \* serving, closing or closed
    stopper,    \* the shutdown goroutine: waiting, stopping, shutdown, done
    sub,        \* Agents -> none, held, ended or cut
    report,     \* Reports -> none, open, ended or cut
    request     \* Requests -> none, open, ended or cut

calls == <<sub, report, request>>
servers == <<grpc, http, stopper>>
processVars == <<signalled, process, servers, calls>>

-----------------------------------------------------------------------------
(***************************************************************************)
(* Calls.                                                                  *)
(***************************************************************************)

(* GracefulStop asks clients to open no more calls, and still accepts one that
   its client opened before it heard so *)
Subscribe(a) ==
    /\ process = "up" /\ grpc # "stopped" /\ sub[a] = "none"
    /\ sub' = [sub EXCEPT ![a] = "held"]
    /\ UNCHANGED <<signalled, process, servers, report, request>>

(* The handler waits for the stream's context: only the agent ends it *)
Leave(a) ==
    /\ process = "up" /\ sub[a] = "held"
    /\ sub' = [sub EXCEPT ![a] = "ended"]
    /\ UNCHANGED <<signalled, process, servers, report, request>>

OpenReport(r) ==
    /\ process = "up" /\ grpc # "stopped" /\ report[r] = "none"
    /\ report' = [report EXCEPT ![r] = "open"]
    /\ UNCHANGED <<signalled, process, servers, sub, request>>

EndReport(r) ==
    /\ process = "up" /\ report[r] = "open"
    /\ report' = [report EXCEPT ![r] = "ended"]
    /\ UNCHANGED <<signalled, process, servers, sub, request>>

OpenRequest(q) ==
    /\ process = "up" /\ http = "serving" /\ request[q] = "none"
    /\ request' = [request EXCEPT ![q] = "open"]
    /\ UNCHANGED <<signalled, process, servers, sub, report>>

EndRequest(q) ==
    /\ process = "up" /\ request[q] = "open"
    /\ request' = [request EXCEPT ![q] = "ended"]
    /\ UNCHANGED <<signalled, process, servers, sub, report>>

Cut(state) == IF state \in {"held", "open"} THEN "cut" ELSE state

CutAll == /\ sub' = [a \in Agents |-> Cut(sub[a])]
          /\ report' = [r \in Reports |-> Cut(report[r])]
          /\ request' = [q \in Requests |-> Cut(request[q])]

-----------------------------------------------------------------------------
(***************************************************************************)
(* Shutdown.                                                               *)
(***************************************************************************)

Signal ==
    /\ process = "up" /\ ~signalled /\ signalled' = TRUE
    /\ UNCHANGED <<process, servers, calls>>

BeginStop ==
    /\ process = "up" /\ stopper = "waiting" /\ signalled
    /\ stopper' = "stopping" /\ grpc' = "draining"
    /\ UNCHANGED <<signalled, process, http, calls>>

(* Mutant of EndStop: Stop instead of GracefulStop *)
StopNow ==
    /\ process = "up" /\ stopper = "stopping"
    /\ stopper' = "shutdown" /\ grpc' = "stopped"
    /\ sub' = [a \in Agents |-> Cut(sub[a])]
    /\ report' = [r \in Reports |-> Cut(report[r])]
    /\ UNCHANGED <<signalled, process, http, request>>

(* Mutant of EndStop: waits even for agents that never subscribed *)
StopAfterAll ==
    /\ process = "up" /\ stopper = "stopping"
    /\ \A a \in Agents : sub[a] = "ended"
    /\ \A r \in Reports : report[r] # "open"
    /\ stopper' = "shutdown" /\ grpc' = "stopped"
    /\ UNCHANGED <<signalled, process, http, calls>>

(* GracefulStop returns once no call is open *)
EndStop ==
    /\ process = "up" /\ stopper = "stopping"
    /\ \A a \in Agents : sub[a] # "held"
    /\ \A r \in Reports : report[r] # "open"
    /\ stopper' = "shutdown" /\ grpc' = "stopped"
    /\ UNCHANGED <<signalled, process, http, calls>>

(* Mutant of BeginShutdown: does not wait for GracefulStop *)
ShutdownEarly ==
    /\ process = "up" /\ stopper = "stopping" /\ http = "serving"
    /\ http' = "closing"
    /\ UNCHANGED <<signalled, process, grpc, stopper, calls>>

BeginShutdown ==
    /\ process = "up" /\ stopper = "shutdown" /\ http = "serving"
    /\ http' = "closing"
    /\ UNCHANGED <<signalled, process, grpc, stopper, calls>>

(* Shutdown returns when no request is open, or after five seconds *)
EndShutdown ==
    /\ process = "up" /\ stopper = "shutdown" /\ http = "closing"
    /\ http' = "closed" /\ stopper' = "done"
    /\ UNCHANGED <<signalled, process, grpc, calls>>

(* Serve has returned and so does main: it does not wait for Shutdown *)
MainReturns ==
    /\ process = "up" /\ grpc = "stopped"
    /\ process' = "exited" /\ CutAll
    /\ UNCHANGED <<signalled, servers>>

(* Serve returns an error, which it does only before GracefulStop: the
   listener is broken, and main calls os.Exit *)
ServeFails ==
    /\ process = "up" /\ grpc = "serving"
    /\ process' = "failed" /\ CutAll
    /\ UNCHANGED <<signalled, servers>>

(* The grace period of the pod is over *)
Kill ==
    /\ process = "up" /\ signalled
    /\ process' = "killed" /\ CutAll
    /\ UNCHANGED <<signalled, servers>>

-----------------------------------------------------------------------------
ProcessInit ==
    /\ signalled = FALSE /\ process = "up"
    /\ grpc = "serving" /\ http = "serving" /\ stopper = "waiting"
    /\ sub = [a \in Agents |-> "none"]
    /\ report = [r \in Reports |-> "none"]
    /\ request = [q \in Requests |-> "none"]

Stopper == BeginStop \/ EndStop \/ BeginShutdown \/ EndShutdown

ProcessNext ==
    \/ \E a \in Agents : Subscribe(a) \/ Leave(a)
    \/ \E r \in Reports : OpenReport(r) \/ EndReport(r)
    \/ \E q \in Requests : OpenRequest(q) \/ EndRequest(q)
    \/ Signal \/ Stopper \/ MainReturns \/ ServeFails \/ Kill

(* Goroutines run and a report ends, by its client's deadline at the latest;
   an agent need not leave, and neither a failure nor a kill need come. *)
ProcessSpec == /\ ProcessInit /\ [][ProcessNext]_processVars
        /\ WF_processVars(Stopper) /\ WF_processVars(MainReturns)
        /\ \A r \in Reports : WF_processVars(EndReport(r))

-----------------------------------------------------------------------------
(***************************************************************************)
(* Properties.                                                             *)
(***************************************************************************)

CallStates == {"none", "held", "open", "ended", "cut"}

(* Every variable has one of its states, and the shutdown goroutine has got
   as far as the two servers say. *)
ProcessTypeOK ==
    /\ signalled \in BOOLEAN /\ process \in {"up", "exited", "failed", "killed"}
    /\ sub \in [Agents -> CallStates] /\ report \in [Reports -> CallStates]
    /\ request \in [Requests -> CallStates]
    /\ <<stopper, grpc>> \in {<<"waiting", "serving">>, <<"stopping", "draining">>,
                              <<"shutdown", "stopped">>, <<"done", "stopped">>}
    /\ http = "serving" \/ grpc = "stopped"

(* A shutdown that comes to its own end has cut no report and no subscription
   short: each ended as its client meant it to, however late it was opened,
   while GracefulStop was waiting for others included. *)
NoStreamCut ==
    process \in {"up", "exited"} =>
        /\ \A r \in Reports : report[r] # "cut"
        /\ \A a \in Agents : sub[a] # "cut"

(* The process ends after a signal once every agent has left for good,
   whatever HTTP clients do. *)
StopsWhenAlone ==
    <>[](signalled /\ \A a \in Agents : sub[a] # "held") => <>(process # "up")

(***************************************************************************)
(* What the comments say and the code does not do.                         *)
(***************************************************************************)

(* server/main.go:72: GracefulStop brings the streams in progress to an end
   without cutting them.  Then the signal should lead to the end. *)
StopsOnSignal == signalled ~> process # "up"
=============================================================================
