\* Two overlapping ReportMetric streams, a buffer of three points.
SPECIFICATION Spec
CONSTANTS
    s1 = s1
    s2 = s2
    Streams = {s1, s2}
    Samples <- MCSamples
    Batches <- MCBatches
    MaxBatches = 2
    MaxMetricPoints = 3
    Horizon = 3
    NoTime = NoTime
    NoAgent = ""
    NoFilter = "*"
INVARIANTS
    TypeOK
    KeepsTheNewest
    LatestIsLatest
PROPERTIES
    BackOnlyByEviction
    ImplementsLedger
