\* Two streams of one message, a summary and a listing; refinement and
\* liveness, so no symmetry.
SPECIFICATION ListingSpec
CONSTANTS
    s1 = s1
    s2 = s2
    r1 = r1
    l1 = l1
    Streams = {s1, s2}
    Readers = {r1}
    Listers = {l1}
    Filters <- MCFilters
    UIDs <- MCUIDs
    Keys <- MCKeys
    KeyOf <- MCKeyOf
    Observations <- MCObservations
    Batches <- MCBatches
    MaxBatches = 1
    NoUID = ""
    NoAgent = ""
INVARIANTS
    ListedIsTrue
    SummaryParts
PROPERTIES
    ImplementsLedger
    LinkedInTheEnd
