---------------------------- MODULE MCMetricIngest ----------------------------
(* Two pods; the points of one batch share a time, batches of different
   clients overlap, and one client's clock is ahead of the server's. *)
EXTENDS MetricIngest, TLC

CONSTANTS s1, s2

Sample(uid, name, value) == [uid |-> uid, name |-> name, value |-> value]
web == Sample("web", "memory", 5)
sidecar == Sample("web", "memory", 1)   \* another container of the same pod
db == Sample("db", "cpu", 3)

MCSamples == {web, sidecar, db}

Batch(samples, at) == [agent |-> "a1", cluster |-> TRUE, samples |-> samples,
                       at |-> at, named |-> TRUE]

MCBatches == {Batch(<<web>>, 1), Batch(<<web, sidecar>>, 2), Batch(<<db>>, 1),
              Batch(<<db, web>>, 4)}

Symmetry == Permutations({s1, s2})
=============================================================================
