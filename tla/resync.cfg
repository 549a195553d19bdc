SPECIFICATION ApplySpec
CONSTANTS
    Key = {1, 2, 3}
    MaxOps = 2
    Span = 3
    MaxBatch = 2
    MaxRequests = 5
INVARIANTS
    PlanIsDifference
    NoKeyTwice
    AcksFindTheirOps
    TrackedIsTrue
CHECK_DEADLOCK FALSE
