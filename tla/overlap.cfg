SPECIFICATION Spec
CONSTANTS
    Key = {a, b}
    Key6 = {b}
    Iface = {eth0}
    Ipv6 = TRUE
    BatchMax = 1
    OpBudget = 2
    RetryLimit = 1
    IdMod = 2
    QueueMax = 2
    MaxChanges = 2
    Faults = {"dump_err", "bad_event", "burst", "flagged"}
    Overlap = TRUE
INVARIANTS
    NeverSleepsOnWork
    NoOrphanRules
    OwnedHaveRules
CHECK_DEADLOCK FALSE
