SPECIFICATION Spec
CONSTANTS
    Key = {a, b}
    Key6 = {b}
    Iface = {eth0}
    Ipv6 = TRUE
    BatchMax = 1
    OpBudget = 2
    RetryLimit = 1
    IdMod = 2
    QueueMax = 1
    MaxChanges = 1
    Faults = {}
    Overlap = TRUE
INVARIANT
    StopCleansTracked
CHECK_DEADLOCK FALSE
