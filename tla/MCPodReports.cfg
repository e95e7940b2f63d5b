\* One collection of metrics, of logs or of cgroups while pods come, go and are replaced.
SPECIFICATION Spec
CONSTANTS
    PodUIDs <- MCPodUIDs
    PodOf <- MCPodOf
    NoUID = "none"
    MaxChanges <- MCChanges
    MaxCPU = 2
    AllNamespaces <- MCNamespaces
    Skipped = {"kube-system"}
    Node = "n1"
    Runtimes <- MCRuntimes
INVARIANTS
    TypeOK
    SteadyUsageIsOwn
    SteadyLogsAreRead
    MeasuredIsReal
\* A collection ends.
CHECK_DEADLOCK FALSE
