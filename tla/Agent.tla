-------------------------------- MODULE Agent --------------------------------
(***************************************************************************)
(* The agent process (src/cmd/agent/main.go): main waits for the server    *)
(* (WaitForServer), starts subscription.run and waits for its first        *)
(* targets (Subscription), collects once, and then once per tick, until    *)
(* SIGTERM.  The node agent (src/cmd/node-agent/main.go) is the same loop  *)
(* with one kind instead of three and no subscription.                     *)
(*                                                                         *)
(* WaitForServer counts seconds.  The loop counts units of ten seconds:    *)
(* its ticker and all its deadlines are multiples.  A collection or a send *)
(* takes any time up to its deadline and succeeds or fails, whatever the   *)
(* server does.                                                            *)
(***************************************************************************)
EXTENDS WaitForServer, Sequences, SequencesExt

CONSTANTS
    Capabilities, Defaults, MaxRestarts,    \* of Subscription
    Period,         \* of the ticker
    Budget          \* stage of a cycle -> its deadline

Collecting == {"meta", "metric", "log"}
Stages == Collecting \cup {"sendMeta", "sendMetric", "sendLog"}

ASSUME TargetAssumption == Capabilities \in Seq(STRING) /\ MaxRestarts \in Nat
ASSUME TimeAssumption == Period \in Nat \ {0} /\ Budget \in [Stages -> Nat]

VARIABLES
    server, restarts, handler, pushed, net, stream, run, targets, ready,
    main, chosen,   \* of Subscription
    signalled,      \* SIGTERM has arrived: the context is done
    stage,          \* off (before the loop), a stage of collectOnce, idle or exited
    toTick,         \* time to the next tick; 0 while there is no ticker
    slot,           \* a tick waits in the ticker's channel, which has room for one
    since,          \* history: time since the last cycle began
    before          \* history: time between that and the one before, up to Period

S == INSTANCE Subscription

waitVars == vars
subVars == <<server, restarts, handler, pushed, net, stream, run, targets,
             ready, main, chosen>>
clock == <<toTick, slot, since>>
loopVars == <<stage, clock, before>>
agentVars == <<waitVars, subVars, signalled, loopVars>>

Ended == at \in {"gaveUp", "cancelled"} \/ stage = "exited"

-----------------------------------------------------------------------------
(***************************************************************************)
(* Start-up.                                                               *)
(***************************************************************************)

(* A signal ends the pause; a call of Health may have been answered by then *)
Wait ==
    /\ \/ Connect \/ Fail \/ GiveUp
       \/ ~signalled /\ Retry
       \/ signalled /\ Cancelled
    /\ UNCHANGED <<subVars, signalled, loopVars>>

(* waitForServer has returned; its locals are gone *)
StartSubscription ==
    /\ at = "connected" /\ at' = "left" /\ now' = 0 /\ backoff' = 1
    /\ UNCHANGED <<subVars, signalled, loopVars>>

Subscribing ==
    /\ at = "left" /\ ~Ended
    /\ \/ S!Run /\ (signalled => run # "subscribe")
       \/ S!RunCancelled /\ signalled
    /\ UNCHANGED <<waitVars, signalled, loopVars>>

(* waitInitial does not look at the context *)
WaitInitial ==
    /\ at = "left" /\ S!WaitInitial
    /\ stage' = IF main' = "done" THEN "meta" ELSE stage
    /\ UNCHANGED <<waitVars, signalled, clock, before>>

Serve ==
    /\ at = "left" /\ ~Ended /\ S!Server
    /\ UNCHANGED <<waitVars, signalled, loopVars>>

-----------------------------------------------------------------------------
(***************************************************************************)
(* The loop.                                                               *)
(***************************************************************************)

(* d passes, and n ticks with it; one that finds the channel full is dropped *)
Ticks(d, n) == /\ toTick' = toTick + n * Period - d
               /\ toTick' \in 1..Period
               /\ slot' = (slot \/ n > 0)

Elapse(d) ==
    /\ since' = since + d
    /\ \/ toTick = 0 /\ UNCHANGED <<toTick, slot>>
       \/ toTick > 0 /\ \E n \in 0..d : Ticks(d, n)

(* A call made when the context is done fails at once *)
Takes(s) == IF signalled THEN 0..0 ELSE 0..Budget[s]

(* The stage a kind's collection is followed by: meta is sent even if there
   is nothing to send *)
Send(k) == CASE k = "meta" -> "sendMeta"
             [] k = "metric" -> "sendMetric"
             [] k = "log" -> "sendLog"

After(s) == CASE s \in {"meta", "sendMeta"} -> "metric"
              [] s \in {"metric", "sendMetric"} -> "log"
              [] s \in {"log", "sendLog"} -> "idle"

(* At the end of the first collectOnce the ticker is created *)
GoTo(s, d) ==
    /\ stage' = s
    /\ IF s = "idle" /\ toTick = 0
       THEN toTick' = Period /\ since' = since + d /\ UNCHANGED slot
       ELSE Elapse(d)
    /\ UNCHANGED <<waitVars, subVars, signalled, before>>

(* Also when a signal has come: the lists may have been answered before it,
   and a read of a log that fails is passed over.  The send then fails *)
Collected(k) ==
    /\ stage = k
    /\ \E d \in Takes(k) : GoTo(Send(k), d)

(* There is nothing to send: no metrics, no lines *)
CollectedNothing(k) ==
    /\ stage = k /\ k # "meta"
    /\ \E d \in Takes(k) : GoTo(After(k), d)

(* Mutant of CollectFails: the whole cycle is given up *)
CollectFailsCycle(k) ==
    /\ stage = k
    /\ \E d \in Takes(k) : GoTo("idle", d)

CollectFails(k) ==
    /\ stage = k
    /\ \E d \in Takes(k) : GoTo(After(k), d)

(* Acknowledged or not: the error is logged, and what was not sent is
   collected again in the next cycle *)
Sent(k) ==
    /\ stage = Send(k)
    /\ \E d \in Takes(stage) : GoTo(After(stage), d)

Tick ==
    /\ stage = "idle" /\ ~slot /\ ~signalled
    /\ Elapse(toTick)
    /\ UNCHANGED <<waitVars, subVars, signalled, stage, before>>

(* Mutant of Cycle: the tick stays in the channel *)
CycleKeepsTick ==
    /\ stage = "idle" /\ slot
    /\ stage' = "meta"
    /\ before' = (IF since < Period THEN since ELSE Period) /\ since' = 0
    /\ UNCHANGED <<waitVars, subVars, signalled, toTick, slot>>

(* select: with a tick and a signal, either *)
Cycle ==
    /\ stage = "idle" /\ slot
    /\ stage' = "meta" /\ slot' = FALSE
    /\ before' = (IF since < Period THEN since ELSE Period) /\ since' = 0
    /\ UNCHANGED <<waitVars, subVars, signalled, toTick>>

(* Mutant of Stop: a break that leaves the select and not the loop *)
StopBreaks ==
    /\ stage = "idle" /\ signalled
    /\ UNCHANGED agentVars

Stop ==
    /\ stage = "idle" /\ signalled
    /\ stage' = "exited"
    /\ UNCHANGED <<waitVars, subVars, signalled, clock, before>>

(* With -once, main returns when the first collectOnce does *)
Once ==
    /\ stage \in {"log", "sendLog"} /\ toTick = 0
    /\ stage' = "exited"
    /\ UNCHANGED <<waitVars, subVars, signalled, clock, before>>

(* At any moment of any stage *)
Signal ==
    /\ ~signalled /\ ~Ended /\ signalled' = TRUE
    /\ \E d \in 0..(IF stage \in Stages THEN Budget[stage] ELSE 0) : Elapse(d)
    /\ UNCHANGED <<waitVars, subVars, stage, before>>

-----------------------------------------------------------------------------
AgentInit ==
    /\ Init /\ S!Init
    /\ signalled = FALSE
    /\ stage = "off" /\ toTick = 0 /\ slot = FALSE /\ since = 0 /\ before = Period

Loop == \/ \E k \in Collecting : \/ Collected(k) \/ CollectedNothing(k)
                                 \/ CollectFails(k) \/ Sent(k)
        \/ Tick \/ Cycle \/ Stop \/ Once

AgentNext == \/ Wait \/ StartSubscription \/ Subscribing \/ WaitInitial
             \/ Serve \/ Loop \/ Signal

(* The agent's goroutines run, its timers fire and its deadlines expire;
   Kubernetes starts the server again.  Nothing makes the server answer, and
   nobody need send a signal. *)
AgentSpec ==
    /\ AgentInit /\ [][AgentNext]_agentVars
    /\ WF_agentVars(Wait \/ StartSubscription \/ WaitInitial \/ Loop)
    /\ WF_agentVars(Subscribing) /\ WF_agentVars(Serve /\ S!Restart)

-----------------------------------------------------------------------------
(***************************************************************************)
(* Properties.                                                             *)
(***************************************************************************)

(* Every variable holds a value its Go counterpart can hold; the three parts
   of main follow one another, and the pause of waitForServer stops growing
   before it is twice Cap. *)
AgentTypeOK ==
    /\ now \in Nat /\ backoff \in 1..(2 * Cap - 1)
    /\ at \in {"call", "check", "connected", "gaveUp", "cancelled", "left"}
    /\ S!TypeOK
    /\ signalled \in BOOLEAN /\ slot \in BOOLEAN
    /\ stage \in Stages \cup {"off", "idle", "exited"}
    /\ toTick \in 0..Period /\ before \in 0..Period /\ since \in Nat
    /\ at # "left" => main = "waiting" /\ run = "subscribe"
    /\ stage = "off" <=> main # "done"
    /\ stage = "idle" => toTick > 0

(* waitInitial returns the defaults or a beginning of the server's list,
   also when a signal or a restart of the server comes in between. *)
ChosenIsPrefix == S!ChosenIsPrefix

(* A cycle that outlasts the ticker is followed at once by the next one, but
   not by a burst: three cycles never begin within less than one period,
   however long the first took and however many ticks it missed. *)
NoBurst ==
    [][stage = "idle" /\ stage' = "meta" => before + since >= Period]_agentVars

(* Each kind is collected again and again, for as long as the agent lives:
   whatever fails or hangs, in start-up, in the server, or in the collection
   and the sending of another kind. *)
KeepsCollecting == \A k \in Collecting : []<>(stage = k \/ Ended)

(* After a signal the process ends, wherever the signal found it: waiting
   for the server, for targets, for a deadline, or with a tick that select
   may prefer. *)
EndsOnSignal == signalled ~> Ended
=============================================================================
