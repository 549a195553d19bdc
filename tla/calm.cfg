SPECIFICATION Spec
CONSTANTS
    Key = {a, b}
    Key6 = {b}
    Iface = {eth0}
    Ipv6 = TRUE
    BatchMax = 1
    OpBudget = 2
    RetryLimit = 1
    IdMod = 2
    QueueMax = 2
    MaxChanges = 4
    Faults = {"split_dump"}
    Overlap = FALSE
INVARIANTS
    SyncedWhenQuiescent
    StopLeavesNoRule
CHECK_DEADLOCK FALSE
