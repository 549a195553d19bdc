SPECIFICATION FairSpec
CONSTANTS
    Key = {a, b}
    Key6 = {b}
    Iface = {eth0}
    Ipv6 = TRUE
    BatchMax = 1
    OpBudget = 2
    RetryLimit = 1
    IdMod = 1
    QueueMax = 1
    MaxChanges = 1
    Faults = {"flagged"}
    Overlap = TRUE
PROPERTIES
    StopTerminates
    PendingIsFlushed
    ResyncHeals
    RequestedResyncRuns
CHECK_DEADLOCK FALSE
