\* Two overlapping ReportLog streams of two batches, a buffer of three lines.
SPECIFICATION Spec
CONSTANTS
    s1 = s1
    s2 = s2
    Streams = {s1, s2}
    Lines <- MCLines
    Batches <- MCBatches
    MaxBatches = 2
    MaxLogLines = 3
    DefaultLimit = 2
    NoAgent = ""
    NoFilter = "*"
INVARIANTS
    TypeOK
    KeepsTheNewest
    QueriesAreExact
    RetainedLevelsShown
PROPERTIES
    ImplementsLedger
