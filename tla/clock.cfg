SPECIFICATION DebounceSpec
CONSTANTS
    Key = {a, b, c}
    BatchMax = 2
    DebounceTime = 2
    DebounceMax = 5
    AckTimeout = 3

    
PROPERTY
    FlushIsNotEarly
