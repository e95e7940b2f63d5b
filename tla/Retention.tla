------------------------------- MODULE Retention -------------------------------
(***************************************************************************)
(* The retention rule AppendMetrics and AppendLogs share                   *)
(* (src/internal/store/store.go): append, then drop from the front         *)
(* whatever exceeds the limit.                                             *)
(***************************************************************************)
EXTENDS Integers, Sequences

Retain(kept, new, limit) ==
    LET all == kept \o new
        over == Len(all) - limit
    IN IF over > 0 THEN SubSeq(all, over + 1, Len(all)) ELSE all

(* What retention promises: the last `limit` elements of everything ever
   appended, in the order they were appended. *)
Newest(history, limit) ==
    IF Len(history) > limit
    THEN SubSeq(history, Len(history) - limit + 1, Len(history))
    ELSE history
=============================================================================
