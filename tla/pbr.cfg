SPECIFICATION PbrSpec
CONSTANTS
    Proc = {p, q}
    Limit = 2
    MaxRules = 5
INVARIANTS
    AppliesConverge
    CleanupIsComplete
PROPERTY
    RuleHasRoute
CHECK_DEADLOCK FALSE
