\* Up to three creations and deletions during one collection.
SPECIFICATION Spec
CONSTANTS
    UIDs <- MCUIDs
    Object <- MCObject
    SkippedNames = {"kube-system"}
    MaxChanges = 3
    NoUID = "none"
    NoName = ""
INVARIANTS
    TypeOK
    SteadyIsReported
    ChainIsClosed
\* The process goes on to send the report: CollectMeta itself stops.
CHECK_DEADLOCK FALSE
