SPECIFICATION Spec
CONSTANTS
    W4 = 2
    W6 = 3
    MapTag = 1
    Local4 = {3}
    Local6 = {1}
    U = 3
    MaxChunks = 4
INVARIANTS
    ParsersAgree
    StartedDaemonIsFound
    ChildLoadsTheSameFile
    
    FiltersAreExact
    MessagesReadAsMeant
CHECK_DEADLOCK FALSE
