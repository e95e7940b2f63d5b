\* Two overlapping ReportMeta streams of two batches each.
SPECIFICATION Spec
CONSTANTS
    s1 = s1
    s2 = s2
    r1 = r1
    Streams = {s1, s2}
    Readers = {}
    UIDs <- MCUIDs
    Keys <- MCKeys
    KeyOf <- MCKeyOf
    Observations <- MCObservations
    Batches <- MCBatches
    MaxBatches = 2
    NoUID = ""
    NoAgent = ""
INVARIANTS
    TypeOK
    ResolvedMeansFound
    UnresolvedIsOwed
    TrackedNeverOverstates
    CountersAgree
SYMMETRY Symmetry
