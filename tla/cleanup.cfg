SPECIFICATION Spec
CONSTANTS
    Addr4 = {"a", "b", "c"}
    Addr6 = {"d"}
    Ipv6 = TRUE
    PacketRules = 1
    Slots = 2
    BatchSize = 2
    MaxChanges = 1
INVARIANTS
    SuccessIsComplete
PROPERTIES
    OthersAreKept
    CleanupEnds
CHECK_DEADLOCK FALSE
