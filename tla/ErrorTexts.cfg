\* Errors whose texts exceed the arrays of a completion.
SPECIFICATION ComponentsSpec
CONSTANTS
    Sinks = {"socket", "file", "inprocess", "inprocess_file"}
    LogLevels = {10, 20, 30}
    Threshold = 20
    QueueCapacity = 2
    SocketCapacity = 2
    MaxRecords = 4
    ArenaBytes = 12
    Alignment = 2
    Requests = {1, 3, 6}
INVARIANT
    ErrorTextsArrive
CHECK_DEADLOCK FALSE
