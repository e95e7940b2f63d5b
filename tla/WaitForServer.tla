----------------------------- MODULE WaitForServer -----------------------------
(***************************************************************************)
(* waitForServer, the same in both agents (src/cmd/agent/main.go and       *)
(* src/cmd/node-agent/main.go): call Health until it answers, with a       *)
(* growing pause between calls, and give up after a limit.  Time is in     *)
(* seconds since the first call.  A call may fail at any moment up to its  *)
(* timeout, whatever the server does: the channel has a backoff of its own.*)
(***************************************************************************)
EXTENDS Integers

CONSTANTS
    Limit,          \* connect-timeout
    CallTimeout,    \* of one Health call
    Cap             \* below this the pause is doubled

ASSUME WaitAssumption ==
    Limit \in Nat /\ CallTimeout \in Nat /\ Cap \in Nat \ {0}

VARIABLES now, backoff, at

vars == <<now, backoff, at>>

Init == now = 0 /\ backoff = 1 /\ at = "call"

Connect ==
    /\ at = "call" /\ at' = "connected"
    /\ \E d \in 0..CallTimeout : now' = now + d
    /\ UNCHANGED backoff

Fail ==
    /\ at = "call" /\ at' = "check"
    /\ \E d \in 0..CallTimeout : now' = now + d
    /\ UNCHANGED backoff

GiveUp == at = "check" /\ now > Limit /\ at' = "gaveUp" /\ UNCHANGED <<now, backoff>>

(* Mutant of Retry: the pause is not limited *)
RetryUnlimited ==
    /\ at = "check" /\ ~(now > Limit) /\ at' = "call"
    /\ now' = now + backoff
    /\ backoff' = 2 * backoff

Retry ==
    /\ at = "check" /\ ~(now > Limit) /\ at' = "call"
    /\ now' = now + backoff
    /\ backoff' = IF backoff < Cap THEN 2 * backoff ELSE backoff

(* SIGTERM during the pause *)
Cancelled ==
    /\ at = "check" /\ ~(now > Limit) /\ at' = "cancelled"
    /\ \E d \in 0..backoff : now' = now + d
    /\ UNCHANGED backoff

Next == Connect \/ Fail \/ GiveUp \/ Retry \/ Cancelled

Spec == Init /\ [][Next]_vars

-----------------------------------------------------------------------------
(* It never gives up before the limit, and never later than one pause and
   one call after it: a container that waits for its server is restarted at a
   time one can tell. *)
GivesUpInTime ==
    at = "gaveUp" => Limit < now /\ now < Limit + 2 * Cap + CallTimeout
=============================================================================
