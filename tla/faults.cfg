SPECIFICATION Spec
CONSTANTS
    Key = {a, b}
    Key6 = {b}
    Iface = {eth0}
    Ipv6 = TRUE
    BatchMax = 1
    OpBudget = 2
    RetryLimit = 1
    IdMod = 2
    QueueMax = 1
    MaxChanges = 1
    Faults = {"late_ack", "kernel_err", "send_err", "recv_err", "dump_err", "split_dump", "bad_event"}
    Overlap = TRUE
INVARIANTS
    TypeOK
    BatchHandshake
    CompensationNotForgotten
    StartupRetriesBounded
PROPERTY
    KeepsLedger
CHECK_DEADLOCK FALSE
