------------------------------ MODULE PodReports ------------------------------
(***************************************************************************)
(* The collectors of pod data, and the cluster they read.  They only read, *)
(* and share nothing, so one of them runs in a behaviour.                  *)
(***************************************************************************)
EXTENDS PodCollect, NodeAgent

vars == <<podVars, collectVars, nodeVars>>

Over == phase \in {"done", "failed"} \/ walk \in {"sent", "silent", "failed"}

Init == PodInit /\ CollectInit /\ NodeInit

Next == \/ Collect /\ UNCHANGED nodeVars
        \/ CollectOnce /\ UNCHANGED collectVars
        \/ ~Over /\ PodStep /\ UNCHANGED <<collectVars, nodeVars>>

Spec == Init /\ [][Next]_vars

(* Every variable holds a value its counterpart can hold; a collection that
   fails has nothing. *)
TypeOK ==
    /\ PodTypeOK /\ CollectTypeOK /\ NodeTypeOK
    /\ phase = "failed" => points = {} /\ lines = {}
=============================================================================
