----------------------------- MODULE Subscription -----------------------------
(***************************************************************************)
(* The list of collection targets, pushed by Subscribe on the server       *)
(* (src/internal/server/server.go) and received in the agent by the        *)
(* goroutine subscription.run, while main waits for it in waitInitial      *)
(* (src/cmd/agent/main.go).  The stream breaks when the server restarts.   *)
(***************************************************************************)
EXTENDS Integers, Sequences, FiniteSets, SequencesExt

CONSTANTS
    Capabilities,   \* what the agent offers, in order
    Defaults,       \* what waitInitial returns for want of a target
    MaxRestarts     \* bound: restarts of the server

(* Agent, which composes this module with the rest of the agent, states what
   is assumed of them. *)

VARIABLES
    server,     \* up or down
    restarts,   \* bound
    handler,    \* Subscribe: none, pushing, holding or ended
    pushed,     \* how many targets it has sent
    net,        \* targets on their way
    stream,     \* open or broken
    run,        \* subscription.run: subscribe, recv, mark or exited
    targets,    \* subscription.targets that are enabled
    ready,      \* the channel is closed
    main,       \* waitInitial: waiting, reading or done
    chosen      \* what waitInitial returned

serverVars == <<server, restarts>>
handlerVars == <<handler, pushed, net>>
mainVars == <<main, chosen>>
vars == <<serverVars, handlerVars, stream, run, targets, ready, mainVars>>

-----------------------------------------------------------------------------
(***************************************************************************)
(* The server.                                                             *)
(***************************************************************************)

(* Mutant of Push: targetsFor appends to a slice made with that length *)
PushBlank ==
    /\ handler = "pushing" /\ pushed < Len(Capabilities)
    /\ pushed' = pushed + 1
    /\ net' = Append(net, "")
    /\ UNCHANGED <<serverVars, handler, stream, run, targets, ready, mainVars>>

(* Everything the agent offers is sent back, enabled (targetsFor) *)
Push ==
    /\ handler = "pushing" /\ pushed < Len(Capabilities)
    /\ pushed' = pushed + 1
    /\ net' = Append(net, Capabilities[pushed + 1])
    /\ UNCHANGED <<serverVars, handler, stream, run, targets, ready, mainVars>>

(* The list is out: the handler waits for the stream's context *)
Hold ==
    /\ handler = "pushing" /\ pushed = Len(Capabilities)
    /\ handler' = "holding"
    /\ UNCHANGED <<serverVars, pushed, net, stream, run, targets, ready, mainVars>>

(* The process ends, and the handler and the stream with it *)
Crash ==
    /\ server = "up" /\ restarts < MaxRestarts
    /\ server' = "down" /\ restarts' = restarts + 1
    /\ handler' = IF handler = "none" THEN "none" ELSE "ended"
    /\ stream' = IF handler = "none" THEN stream ELSE "broken"
    /\ UNCHANGED <<pushed, net, run, targets, ready, mainVars>>

Restart ==
    /\ server = "down" /\ server' = "up"
    /\ UNCHANGED <<restarts, handlerVars, stream, run, targets, ready, mainVars>>

-----------------------------------------------------------------------------
(***************************************************************************)
(* subscription.run.                                                       *)
(***************************************************************************)

Subscribe ==
    /\ run = "subscribe" /\ server = "up"
    /\ run' = "recv" /\ handler' = "pushing"
    /\ UNCHANGED <<serverVars, pushed, net, stream, targets, ready, mainVars>>

SubscribeFails ==
    /\ run = "subscribe" /\ server = "down"
    /\ run' = "exited" /\ ready' = TRUE
    /\ UNCHANGED <<serverVars, handlerVars, stream, targets, mainVars>>

(* Mutant of Receive: a target replaces the ones before *)
ReceiveOnly ==
    /\ run = "recv" /\ net # << >>
    /\ targets' = {Head(net)} /\ net' = Tail(net)
    /\ run' = "mark"
    /\ UNCHANGED <<serverVars, handler, pushed, stream, ready, mainVars>>

(* Under s.mu; markReady comes after the unlock *)
Receive ==
    /\ run = "recv" /\ net # << >>
    /\ targets' = targets \cup {Head(net)} /\ net' = Tail(net)
    /\ run' = "mark"
    /\ UNCHANGED <<serverVars, handler, pushed, stream, ready, mainVars>>

MarkReady ==
    /\ run = "mark" /\ run' = "recv"
    /\ ready' = TRUE
    /\ UNCHANGED <<serverVars, handlerVars, stream, targets, mainVars>>

(* What was on its way when the stream broke may be lost *)
RecvError ==
    /\ run = "recv" /\ stream = "broken"
    /\ run' = "exited" /\ ready' = TRUE
    /\ UNCHANGED <<serverVars, handlerVars, stream, targets, mainVars>>

(* SIGTERM: the context of the call ends, and with it the handler's *)
RunCancelled ==
    /\ run \in {"subscribe", "recv"}
    /\ run' = "exited" /\ ready' = TRUE
    /\ handler' = IF handler = "none" THEN "none" ELSE "ended"
    /\ UNCHANGED <<serverVars, pushed, net, stream, targets, mainVars>>

-----------------------------------------------------------------------------
(***************************************************************************)
(* waitInitial.                                                            *)
(***************************************************************************)

WaitReady ==
    /\ main = "waiting" /\ ready /\ main' = "reading"
    /\ UNCHANGED <<serverVars, handlerVars, stream, run, targets, ready, chosen>>

WaitTimeout ==
    /\ main = "waiting" /\ main' = "reading"
    /\ UNCHANGED <<serverVars, handlerVars, stream, run, targets, ready, chosen>>

ReadTargets ==
    /\ main = "reading" /\ main' = "done"
    /\ chosen' = IF targets = {} THEN Defaults ELSE targets
    /\ UNCHANGED <<serverVars, handlerVars, stream, run, targets, ready>>

-----------------------------------------------------------------------------
Init ==
    /\ server = "up" /\ restarts = 0
    /\ handler = "none" /\ pushed = 0 /\ net = << >> /\ stream = "open"
    /\ run = "subscribe" /\ targets = {} /\ ready = FALSE
    /\ main = "waiting" /\ chosen = {}

Run == Subscribe \/ SubscribeFails \/ Receive \/ MarkReady \/ RecvError
WaitInitial == WaitReady \/ WaitTimeout \/ ReadTargets
Server == Push \/ Hold \/ Crash \/ Restart

-----------------------------------------------------------------------------
(***************************************************************************)
(* Properties.                                                             *)
(***************************************************************************)

Offered == ToSet(Capabilities)

(* Every variable holds a value its Go counterpart can hold. *)
TypeOK ==
    /\ server \in {"up", "down"} /\ restarts \in 0..MaxRestarts
    /\ handler \in {"none", "pushing", "holding", "ended"}
    /\ pushed \in 0..Len(Capabilities) /\ net \in Seq(Offered)
    /\ stream \in {"open", "broken"}
    /\ run \in {"subscribe", "recv", "mark", "exited"}
    /\ targets \subseteq Offered /\ ready \in BOOLEAN
    /\ main \in {"waiting", "reading", "done"} /\ chosen \subseteq Offered \cup Defaults

(* waitInitial returns either the defaults or the targets up to some point
   of the server's list: however it races with run, it never returns nothing
   and never returns a later target without the earlier ones. *)
ChosenIsPrefix ==
    main = "done" =>
        \/ chosen = Defaults
        \/ \E n \in 1..Len(Capabilities) : chosen = ToSet(SubSeq(Capabilities, 1, n))
=============================================================================
