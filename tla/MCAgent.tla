------------------------------- MODULE MCAgent -------------------------------
(* The capabilities, the ticker and the deadlines of the code. *)
EXTENDS Agent

MCCapabilities == <<"meta/all", "metric/pod", "log/pod">>
MCDefaults == {"meta/all", "metric/pod", "log/pod"}

MCBudget == [s \in Stages |-> IF s \in {"meta", "log"} THEN 6 ELSE 3]
=============================================================================
