SPECIFICATION Spec
CONSTANTS
    Levels = 5
    LowPercent = 20
    HighPercent = 80
    Files <- MCFiles
    MaxDecisions = 2
    None = None
    Unreadable = Unreadable
INVARIANTS OtsuIsOptimal  
PROPERTIES ReadableIsRead
CHECK_DEADLOCK FALSE
