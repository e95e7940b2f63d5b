----------------------------- MODULE Agent_proofs -----------------------------
(***************************************************************************)
(* The agent for any limits, any list of targets, any period and any       *)
(* deadlines: when it gives up, what it collects, and how close together.  *)
(*                                                                         *)
(* No burst of cycles: a tick waits in the channel only if a period is     *)
(* over, or will be by the next tick, since the last cycle began; and      *)
(* whatever the clock says now, the last two cycles and the time to the    *)
(* next tick make up a period.                                             *)
(***************************************************************************)
EXTENDS Agent, TLAPS

Clock ==
    /\ toTick \in 0..Period /\ slot \in BOOLEAN /\ since \in Nat /\ before \in 0..Period
    /\ toTick = 0 => ~slot
    /\ slot => since + toTick >= Period /\ before + since >= Period
    /\ toTick > 0 => before + since + toTick >= Period

Inv == Clock /\ (stage # "off" => main = "done") /\ (stage = "idle" => toTick > 0)

LEMMA InvInit == AgentInit => Inv
<1> SUFFICES ASSUME AgentInit PROVE Inv
    OBVIOUS
<1>1. stage = "off" /\ toTick = 0 /\ slot = FALSE /\ since = 0 /\ before = Period
  BY DEF AgentInit
<1>2. slot \in BOOLEAN /\ ~slot
  BY <1>1
<1>3. toTick \in 0..Period /\ since \in Nat /\ before \in 0..Period
  BY <1>1, TimeAssumption
<1> QED BY <1>1, <1>2, <1>3 DEF Inv, Clock

(* Time that passes keeps the clock right, however many ticks it brings *)
LEMMA ElapseStep ==
    ASSUME Clock, NEW d \in Nat, Elapse(d), before' = before
    PROVE  Clock' /\ (toTick > 0 => toTick' > 0)
<1>1. since' = since + d /\ Period \in Nat \ {0}
  BY TimeAssumption DEF Elapse
<1>2. CASE toTick = 0 /\ UNCHANGED <<toTick, slot>>
  BY <1>1, <1>2 DEF Clock
<1>3. ASSUME toTick > 0, NEW n \in 0..d, Ticks(d, n) PROVE Clock' /\ toTick' > 0
  <2>1. PICK p \in Nat : p = n * Period /\ (n = 0 => p = 0) /\ (n > 0 => p >= Period)
    BY <1>1
  <2>2. toTick' = toTick + p - d /\ toTick' \in 1..Period /\ slot' = (slot \/ n > 0)
    BY <1>3, <2>1 DEF Ticks
  <2>3. slot' \in BOOLEAN
    BY <2>2 DEF Clock
  <2>4. CASE n = 0
    <3>1. slot' <=> slot
      <4>1. ~(n > 0)
        BY <2>4
      <4>2. slot' = (slot \/ n > 0)
        BY <2>2
      <4> QED BY <4>1, <4>2, Zenon
    <3> QED BY <1>1, <1>3, <2>1, <2>2, <2>3, <2>4, <3>1 DEF Clock
  <2>5. CASE n > 0
    <3>1. d >= toTick + p - Period /\ p >= Period
      BY <1>1, <2>1, <2>2, <2>5 DEF Clock
    <3> QED BY <1>1, <1>3, <2>1, <2>2, <2>3, <2>5, <3>1 DEF Clock
  <2> QED BY <2>4, <2>5
<1> QED BY <1>2, <1>3 DEF Elapse

(* The same at the end of a stage, where the ticker may be created *)
LEMMA GoToStep ==
    ASSUME Inv, NEW s, NEW d \in Nat, GoTo(s, d), stage # "off", stage # "idle"
    PROVE  Inv'
<1>1. stage' = s /\ before' = before /\ main' = main
  BY DEF GoTo, subVars
<1>2. CASE s = "idle" /\ toTick = 0
  BY <1>1, <1>2, TimeAssumption DEF GoTo, Inv, Clock
<1>3. CASE ~(s = "idle" /\ toTick = 0)
  <2>1. Elapse(d)
    BY <1>3 DEF GoTo
  <2>2. Clock' /\ (toTick > 0 => toTick' > 0)
    BY <1>1, <2>1, ElapseStep DEF Inv
  <2>3. s = "idle" => toTick > 0
    BY <1>3 DEF Inv, Clock
  <2> QED BY <1>1, <2>2, <2>3 DEF Inv
<1> QED BY <1>2, <1>3

LEMMA TakesTime == \A s \in Stages : Takes(s) \subseteq Nat
BY TimeAssumption DEF Takes

(* Only Cycle takes the loop from idle to meta *)
LEMMA InvStep ==
    Inv /\ [AgentNext]_agentVars
        => Inv' /\ (stage = "idle" /\ stage' = "meta" => before + since >= Period)
<1> SUFFICES ASSUME Inv, [AgentNext]_agentVars
             PROVE  Inv' /\ (stage = "idle" /\ stage' = "meta" => before + since >= Period)
    OBVIOUS
<1>1. CASE UNCHANGED agentVars \/ Wait \/ StartSubscription
  BY <1>1 DEF Wait, StartSubscription, agentVars, loopVars, clock, subVars, Inv, Clock
<1>2. CASE Subscribing \/ Serve
  <2>1. UNCHANGED <<stage, clock, before>>
    BY <1>2 DEF Subscribing, Serve, loopVars
  <2>2. main' = main
    BY <1>2 DEF Subscribing, Serve, S!Run, S!Subscribe, S!SubscribeFails, S!Receive,
                S!MarkReady, S!RecvError, S!RunCancelled, S!Server, S!Push, S!Hold,
                S!Crash, S!Restart, S!mainVars
  <2> QED BY <2>1, <2>2 DEF clock, Inv, Clock
<1>3. CASE WaitInitial
  <2>1. /\ UNCHANGED <<clock, before>> /\ main # "done"
        /\ stage' = IF main' = "done" THEN "meta" ELSE stage
    BY <1>3 DEF WaitInitial, S!WaitInitial, S!WaitReady, S!WaitTimeout, S!ReadTargets
  <2> QED BY <2>1 DEF clock, Inv, Clock
<1>4. ASSUME NEW k \in Collecting,
             Collected(k) \/ CollectedNothing(k) \/ CollectFails(k) \/ Sent(k)
      PROVE  Inv' /\ stage # "idle"
  <2>1. stage \in Stages
    BY <1>4 DEF Collected, CollectedNothing, CollectFails, Sent, Send, Collecting, Stages
  <2>2. stage # "off" /\ stage # "idle"
    BY <2>1 DEF Stages, Collecting
  <2>3. \E s : \E d \in Takes(stage) : GoTo(s, d)
    BY <1>4 DEF Collected, CollectedNothing, CollectFails, Sent
  <2> QED BY <2>1, <2>2, <2>3, TakesTime, GoToStep
<1>5. CASE Tick
  <2>1. toTick \in Nat /\ toTick > 0 /\ stage = "idle"
    BY <1>5, TimeAssumption DEF Tick, Inv, Clock
  <2>2. Elapse(toTick) /\ before' = before /\ stage' = stage /\ main' = main
    BY <1>5 DEF Tick, subVars
  <2> QED BY <2>1, <2>2, ElapseStep DEF Inv
<1>6. CASE Cycle
  <2>1. /\ stage = "idle" /\ stage' = "meta" /\ slot /\ since' = 0
        /\ before' = (IF since < Period THEN since ELSE Period)
        /\ toTick' = toTick /\ main' = main
    BY <1>6 DEF Cycle, subVars
  <2>2. slot' = FALSE
    BY <1>6 DEF Cycle
  <2>3. slot' \in BOOLEAN /\ ~slot'
    BY <2>2
  <2>4. /\ Period \in Nat /\ since \in Nat /\ toTick \in 0..Period
        /\ since + toTick >= Period /\ before + since >= Period
    BY <2>1, TimeAssumption DEF Inv, Clock
  <2>5. before' \in 0..Period /\ before' + since' + toTick' >= Period
    BY <2>1, <2>4
  <2> QED BY <2>1, <2>3, <2>4, <2>5 DEF Inv, Clock
<1>7. CASE Stop \/ Once
  BY <1>7 DEF Stop, Once, subVars, clock, Inv, Clock
<1>8. CASE Signal
  <2>1. PICK d \in Nat : Elapse(d) /\ before' = before /\ stage' = stage /\ main' = main
    BY <1>8, TimeAssumption DEF Signal, subVars
  <2> QED BY <2>1, ElapseStep DEF Inv
<1> QED BY <1>1, <1>2, <1>3, <1>4, <1>5, <1>6, <1>7, <1>8 DEF AgentNext, Loop

(* Three cycles never begin within less than one period (agent/main.go:93-103). *)
THEOREM CyclesKeepTheirDistance == AgentSpec => NoBurst
<1>1. Inv /\ [AgentNext]_agentVars
        => [stage = "idle" /\ stage' = "meta" => before + since >= Period]_agentVars
  BY InvStep
<1> QED BY <1>1, InvInit, InvStep, PTL DEF AgentSpec, NoBurst

-----------------------------------------------------------------------------
(***************************************************************************)
(* waitForServer within the agent.  A call that may still lead to giving   *)
(* up began no later than one pause after the limit.                       *)
(***************************************************************************)
Waiting ==
    /\ now \in Nat /\ backoff \in 1..(2 * Cap - 1)
    /\ at \in {"call", "check", "connected", "gaveUp", "cancelled", "left"}
    /\ at = "call" => now < Limit + 2 * Cap
    /\ at = "check" => now < Limit + 2 * Cap + CallTimeout
    /\ GivesUpInTime

LEMMA WaitingInit == AgentInit => Waiting
BY WaitAssumption DEF AgentInit, Init, Waiting, GivesUpInTime

LEMMA WaitingStep == Waiting /\ [AgentNext]_agentVars => Waiting'
<1> SUFFICES ASSUME Waiting, [AgentNext]_agentVars PROVE Waiting'
  OBVIOUS
<1> USE WaitAssumption DEF Waiting, GivesUpInTime
<1>1. CASE Connect \/ Fail
  BY <1>1 DEF Connect, Fail
<1>2. CASE GiveUp \/ Cancelled
  BY <1>2 DEF GiveUp, Cancelled
<1>3. CASE Retry
  BY <1>3 DEF Retry
<1>4. CASE StartSubscription
  BY <1>4 DEF StartSubscription
<1>5. CASE UNCHANGED waitVars
  BY <1>5 DEF waitVars, vars
<1>6. CASE Loop
  BY <1>5, <1>6 DEF Loop, Collected, CollectedNothing, CollectFails, Sent, GoTo,
                    Tick, Cycle, Stop, Once
<1> QED
  BY <1>1, <1>2, <1>3, <1>4, <1>5, <1>6
     DEF AgentNext, Wait, Subscribing, WaitInitial, Serve, Signal, agentVars

(* Giving up happens after the limit and within one pause and one call of
   it, whatever the flags are set to. *)
THEOREM GivingUpIsTimely == AgentSpec => []GivesUpInTime
<1>1. Waiting => GivesUpInTime
  BY DEF Waiting
<1> QED
  BY <1>1, WaitingInit, WaitingStep, PTL DEF AgentSpec

-----------------------------------------------------------------------------
(***************************************************************************)
(* The subscription within the agent.  The first r targets of the list     *)
(* have been received, the next ones, up to pushed, are on their way.      *)
(***************************************************************************)
Received(r) ==
    /\ targets = {Capabilities[i] : i \in 1..r}
    /\ Len(net) + r = pushed
    /\ \A i \in 1..Len(net) : net[i] = Capabilities[i + r]

Subscribed ==
    /\ S!TypeOK
    /\ \E r \in 0..Len(Capabilities) : Received(r)
    /\ ChosenIsPrefix

LEMMA Offers ==
    /\ Len(Capabilities) \in Nat
    /\ \A i \in 1..Len(Capabilities) : Capabilities[i] \in S!Offered
    /\ \A n \in 0..Len(Capabilities) :
            S!ToSet(SubSeq(Capabilities, 1, n)) = {Capabilities[i] : i \in 1..n}
<1>1. Capabilities \in Seq(STRING)
  BY TargetAssumption
<1>2. Len(Capabilities) \in Nat /\ DOMAIN Capabilities = 1..Len(Capabilities)
  BY <1>1
<1>3. ASSUME NEW n \in 0..Len(Capabilities)
      PROVE  S!ToSet(SubSeq(Capabilities, 1, n)) = {Capabilities[i] : i \in 1..n}
  <2>1. /\ SubSeq(Capabilities, 1, n) \in Seq(STRING)
        /\ DOMAIN SubSeq(Capabilities, 1, n) = 1..n
        /\ \A i \in 1..n : SubSeq(Capabilities, 1, n)[i] = Capabilities[i]
    BY <1>1, <1>2
  <2> QED BY <2>1 DEF S!ToSet
<1> QED BY <1>2, <1>3 DEF S!Offered, S!ToSet

LEMMA SubscribedInit == AgentInit => Subscribed
<1> SUFFICES ASSUME AgentInit PROVE Subscribed
  OBVIOUS
<1> USE DEF AgentInit, S!Init
<1>1. S!TypeOK
  <2>1. ready \in BOOLEAN
    BY Zenon
  <2>2. restarts \in 0..MaxRestarts /\ pushed \in 0..Len(Capabilities)
    BY TargetAssumption, Offers
  <2> QED BY <2>1, <2>2 DEF S!TypeOK
<1>2. Received(0)
  BY DEF Received
<1>3. ChosenIsPrefix
  BY DEF ChosenIsPrefix, S!ChosenIsPrefix
<1> QED BY <1>1, <1>2, <1>3, Offers DEF Subscribed

LEMMA SubscribedStep == Subscribed /\ [AgentNext]_agentVars => Subscribed'
<1> SUFFICES ASSUME Subscribed, [AgentNext]_agentVars PROVE Subscribed'
  OBVIOUS
<1>0. PICK r \in 0..Len(Capabilities) : Received(r)
  BY DEF Subscribed
<1>a. S!TypeOK /\ ChosenIsPrefix /\ Len(Capabilities) \in Nat /\ Len(net) \in Nat
  BY Offers DEF Subscribed, S!TypeOK
<1>1. CASE S!Push
  <2>1. pushed' = pushed + 1 /\ net' = Append(net, Capabilities[pushed + 1])
        /\ pushed + 1 \in 1..Len(Capabilities) /\ targets' = targets
    BY <1>1, <1>a DEF S!Push, S!TypeOK
  <2>2. Capabilities[pushed + 1] \in S!Offered
    BY <2>1, Offers
  <2>3. /\ net' \in Seq(S!Offered) /\ Len(net') = Len(net) + 1
        /\ \A i \in 1..Len(net') :
              net'[i] = IF i = Len(net) + 1 THEN Capabilities[pushed + 1] ELSE net[i]
    BY <1>a, <2>1, <2>2 DEF S!TypeOK
  <2>4. Received(r)'
    <3>1. Len(net') + r = pushed' /\ Len(net) + 1 + r = pushed + 1
      <4>1. PICK n \in Nat : n = Len(net)
        BY <1>a
      <4>2. n + r = pushed /\ r \in Int
        BY <1>0, <1>a, <4>1 DEF Received
      <4>3. Len(net') = n + 1 /\ pushed' = pushed + 1
        BY <2>1, <2>3, <4>1
      <4> QED BY <4>1, <4>2, <4>3
    <3>2. ASSUME NEW i \in 1..Len(net') PROVE net'[i] = Capabilities[i + r]
      <4>1. CASE i = Len(net) + 1
        BY <2>3, <3>1, <3>2, <4>1
      <4>2. CASE i # Len(net) + 1
        <5>1. i \in 1..Len(net)
          BY <1>a, <2>3, <3>2, <4>2
        <5> QED BY <1>0, <2>3, <3>2, <4>2, <5>1 DEF Received
      <4> QED BY <4>1, <4>2
    <3> QED BY <1>0, <2>1, <3>1, <3>2 DEF Received
  <2>5. S!TypeOK'
    BY <1>1, <1>a, <2>1, <2>3 DEF S!Push, S!TypeOK, S!serverVars, S!mainVars
  <2>6. ChosenIsPrefix'
    BY <1>1, <1>a DEF S!Push, S!mainVars, ChosenIsPrefix, S!ChosenIsPrefix
  <2> QED BY <1>0, <2>4, <2>5, <2>6 DEF Subscribed
<1>2. CASE S!Receive
  <2>1. net # << >> /\ targets' = targets \cup {Head(net)} /\ net' = Tail(net)
        /\ pushed' = pushed
    BY <1>2 DEF S!Receive
  <2>2. /\ Len(net) > 0 /\ Head(net) = net[1] /\ Head(net) \in S!Offered
        /\ net' \in Seq(S!Offered) /\ Len(net') = Len(net) - 1
        /\ \A i \in 1..Len(net') : net'[i] = net[i + 1]
    BY <1>a, <2>1 DEF S!TypeOK
  <2>3. r + 1 \in 1..Len(Capabilities) /\ Head(net) = Capabilities[r + 1]
    BY <1>0, <1>a, <2>2 DEF Received, S!TypeOK
  <2>4. Received(r + 1)'
    <3>1. targets' = {Capabilities[i] : i \in 1..(r + 1)}
      <4>1. \A i \in 1..(r + 1) : i \in 1..r \/ i = r + 1
        OBVIOUS
      <4>2. 1..r \subseteq 1..(r + 1) /\ r + 1 \in 1..(r + 1)
        OBVIOUS
      <4> QED BY <1>0, <2>1, <2>3, <4>1, <4>2 DEF Received
    <3>2. Len(net') + (r + 1) = pushed'
      BY <1>0, <1>a, <2>1, <2>2 DEF Received
    <3>3. ASSUME NEW i \in 1..Len(net') PROVE net'[i] = Capabilities[i + (r + 1)]
      <4>1. PICK j \in 1..Len(net) : j = i + 1 /\ j + r = i + (r + 1)
        BY <1>0, <1>a, <2>2, <3>3
      <4>2. net[j] = Capabilities[j + r]
        BY <1>0 DEF Received
      <4> QED BY <2>2, <3>3, <4>1, <4>2
    <3> QED BY <3>1, <3>2, <3>3 DEF Received
  <2>5. S!TypeOK'
    BY <1>2, <1>a, <2>1, <2>2 DEF S!Receive, S!TypeOK, S!serverVars, S!mainVars
  <2>6. ChosenIsPrefix'
    BY <1>2, <1>a DEF S!Receive, S!mainVars, ChosenIsPrefix, S!ChosenIsPrefix
  <2> QED BY <2>3, <2>4, <2>5, <2>6 DEF Subscribed
<1>3. CASE S!ReadTargets
  <2>1. main' = "done" /\ chosen' = IF targets = {} THEN Defaults ELSE targets
    BY <1>3 DEF S!ReadTargets
  <2>2. Received(r)'
    BY <1>0, <1>3 DEF S!ReadTargets, S!handlerVars, Received
  <2>3. S!TypeOK'
    BY <1>3, <1>a, <2>1 DEF S!ReadTargets, S!handlerVars, S!serverVars, S!TypeOK
  <2>4. CASE targets = {}
    BY <1>0, <2>1, <2>2, <2>3, <2>4 DEF Subscribed, ChosenIsPrefix, S!ChosenIsPrefix
  <2>5. CASE targets # {}
    <3>1. r \in 1..Len(Capabilities)
      BY <1>0, <1>a, <2>5 DEF Received
    <3>2. chosen' = S!ToSet(SubSeq(Capabilities, 1, r))
      BY <1>0, <2>1, <2>5, Offers DEF Received
    <3> QED
      BY <1>0, <2>2, <2>3, <3>1, <3>2 DEF Subscribed, ChosenIsPrefix, S!ChosenIsPrefix
  <2> QED BY <2>4, <2>5
<1>4. CASE /\ UNCHANGED <<pushed, net, targets, chosen>>
           /\ (main' = "done" => main = "done")
           /\ S!TypeOK'
  BY <1>0, <1>4, <1>a DEF Subscribed, Received, ChosenIsPrefix, S!ChosenIsPrefix
<1>5. CASE S!Hold \/ S!Crash \/ S!Restart
  BY <1>4, <1>5, <1>a, TargetAssumption
     DEF S!Hold, S!Crash, S!Restart, S!TypeOK, S!serverVars, S!handlerVars, S!mainVars
<1>6. CASE S!Subscribe \/ S!SubscribeFails \/ S!MarkReady \/ S!RecvError \/ S!RunCancelled
  BY <1>4, <1>6, <1>a
     DEF S!Subscribe, S!SubscribeFails, S!MarkReady, S!RecvError, S!RunCancelled,
         S!TypeOK, S!serverVars, S!handlerVars, S!mainVars
<1>7. CASE S!WaitReady \/ S!WaitTimeout
  BY <1>4, <1>7, <1>a
     DEF S!WaitReady, S!WaitTimeout, S!TypeOK, S!serverVars, S!handlerVars
<1>8. CASE UNCHANGED subVars
  BY <1>4, <1>8, <1>a DEF subVars, S!TypeOK
<1>9. CASE Loop
  BY <1>8, <1>9 DEF Loop, Collected, CollectedNothing, CollectFails, Sent, GoTo,
                    Tick, Cycle, Stop, Once
<1> QED
  BY <1>1, <1>2, <1>3, <1>5, <1>6, <1>7, <1>8, <1>9
     DEF AgentNext, Wait, StartSubscription, Subscribing, WaitInitial, Serve, Signal,
         agentVars, S!Run, S!WaitInitial, S!Server

(* waitInitial returns the defaults or a beginning of the server's list, for
   any list, any defaults and any number of restarts of the server. *)
THEOREM ChosenIsABeginning == AgentSpec => []ChosenIsPrefix
<1>1. Subscribed => ChosenIsPrefix
  BY DEF Subscribed
<1> QED
  BY <1>1, SubscribedInit, SubscribedStep, PTL DEF AgentSpec

-----------------------------------------------------------------------------
(***************************************************************************)
(* The parts of main follow one another: nothing subscribes before the     *)
(* server has answered, and no cycle begins before there are targets.      *)
(***************************************************************************)
InOrder ==
    /\ signalled \in BOOLEAN
    /\ stage \in Stages \cup {"off", "idle", "exited"}
    /\ main \in {"waiting", "reading", "done"}
    /\ at # "left" => main = "waiting" /\ run = "subscribe"
    /\ (stage = "off" <=> main # "done")

LEMMA InOrderInit == AgentInit => InOrder
<1> SUFFICES ASSUME AgentInit PROVE InOrder
  OBVIOUS
<1>1. signalled \in BOOLEAN
  BY Zenon DEF AgentInit
<1> QED BY <1>1 DEF AgentInit, S!Init, InOrder

LEMMA InOrderStep == InOrder /\ [AgentNext]_agentVars => InOrder'
<1> SUFFICES ASSUME InOrder, [AgentNext]_agentVars PROVE InOrder'
  OBVIOUS
<1>0. signalled' \in BOOLEAN
  <2>1. signalled \in BOOLEAN
    BY DEF InOrder
  <2>2. CASE UNCHANGED signalled
    BY <2>1, <2>2
  <2>3. CASE signalled' = TRUE
    BY <2>3, Zenon
  <2> QED
    BY <2>2, <2>3
       DEF AgentNext, Wait, StartSubscription, Subscribing, WaitInitial, Serve, Signal,
           Loop, Collected, CollectedNothing, CollectFails, Sent, GoTo,
           Tick, Cycle, Stop, Once, agentVars
<1>1. CASE Wait \/ StartSubscription \/ UNCHANGED agentVars
  BY <1>0, <1>1 DEF Wait, Connect, Fail, GiveUp, Retry, Cancelled, StartSubscription,
                    subVars, loopVars, agentVars, waitVars, vars, InOrder
<1>2. CASE Subscribing \/ Serve
  <2>1. at = "left" /\ UNCHANGED <<at, stage>>
    BY <1>2 DEF Subscribing, Serve, waitVars, vars, loopVars
  <2>2. main' = main
    BY <1>2 DEF Subscribing, Serve, S!Run, S!Subscribe, S!SubscribeFails, S!Receive,
                S!MarkReady, S!RecvError, S!RunCancelled, S!Server, S!Push, S!Hold,
                S!Crash, S!Restart, S!mainVars
  <2> QED BY <1>0, <2>1, <2>2 DEF InOrder
<1>3. CASE WaitInitial
  <2>1. /\ at = "left" /\ at' = at /\ main # "done"
        /\ main' \in {"reading", "done"}
        /\ stage' = IF main' = "done" THEN "meta" ELSE stage
    BY <1>3 DEF WaitInitial, S!WaitInitial, S!WaitReady, S!WaitTimeout, S!ReadTargets,
                waitVars, vars
  <2> QED BY <1>0, <2>1 DEF InOrder, Stages, Collecting
<1>4. ASSUME NEW k \in Collecting,
             Collected(k) \/ CollectedNothing(k) \/ CollectFails(k) \/ Sent(k)
      PROVE  InOrder'
  <2>1. stage \in Stages /\ stage' \in Stages \cup {"idle"}
    BY <1>4 DEF Collected, CollectedNothing, CollectFails, Sent, GoTo, Send, After,
                Collecting, Stages
  <2>2. UNCHANGED <<at, main, run>>
    BY <1>4 DEF Collected, CollectedNothing, CollectFails, Sent, GoTo,
                waitVars, vars, subVars
  <2> QED BY <1>0, <2>1, <2>2 DEF InOrder, Stages, Collecting
<1>5. CASE Tick \/ Cycle \/ Stop \/ Once
  BY <1>0, <1>5 DEF Tick, Cycle, Stop, Once, waitVars, vars, subVars, InOrder,
                    Stages, Collecting
<1>6. CASE Signal
  BY <1>0, <1>6 DEF Signal, waitVars, vars, subVars, InOrder
<1> QED BY <1>1, <1>2, <1>3, <1>4, <1>5, <1>6 DEF AgentNext, Loop

(* Every variable of the agent holds a value its Go counterpart can hold,
   and its parts come in the order of main, whatever fails. *)
THEOREM TypeCorrect == AgentSpec => []AgentTypeOK
<1>1. Inv /\ Waiting /\ Subscribed /\ InOrder => AgentTypeOK
  BY DEF Inv, Clock, Waiting, Subscribed, InOrder, AgentTypeOK
<1>2. Inv /\ [AgentNext]_agentVars => Inv'
  BY InvStep
<1> QED
  BY <1>1, <1>2, InvInit, WaitingInit, WaitingStep, SubscribedInit, SubscribedStep,
     InOrderInit, InOrderStep, PTL DEF AgentSpec
=============================================================================
