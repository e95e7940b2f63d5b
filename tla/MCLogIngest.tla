----------------------------- MODULE MCLogIngest -----------------------------
(* Lines of two levels and two namespaces, more of them than are retained. *)
EXTENDS LogIngest, TLC

CONSTANTS s1, s2

Line(ns, level) == [ns |-> ns, level |-> level]
first == Line("shop", "info")
second == Line("ops", "error")
third == Line("shop", "error")

MCLines == {first, second, third}

Batch(entries) == [agent |-> "a1", cluster |-> TRUE, entries |-> entries,
                   dated |-> TRUE, whole |-> TRUE]

MCBatches == {Batch(<<first>>), Batch(<<second, third>>), Batch(<<third>>),
              [Batch(<<first, second>>) EXCEPT !.whole = FALSE]}

Symmetry == Permutations({s1, s2})
=============================================================================
