SPECIFICATION FairDrainSpec
CONSTANTS
    MinBudget = 8
    DefaultBudget = 16
    MaxBudget = 16
    MinSlots = 2
    MaxSlots = 8
    FullLimit = 2
    LowLimit = 2
    CalmLimit = 2
    StreakMax = 3
    QueueMax = 14
INVARIANT LossIsBounded
PROPERTIES FullRingIsKept DrainEnds
