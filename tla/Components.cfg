\* Startup, logging, arena and pool, each on its own, and the functions.
SPECIFICATION ComponentsSpec
CONSTANTS
    Sinks = {"socket", "file", "inprocess", "inprocess_file"}
    LogLevels = {10, 20, 30}
    Threshold = 20
    QueueCapacity = 2
    SocketCapacity = 2
    MaxRecords = 4
    ArenaBytes = 12
    Alignment = 2
    Requests = {1, 3, 6}
INVARIANTS
    NothingLeft
    HooksPaired
    LossesCounted
    Partitioned
    FitsIfItCould
    MemoryAccounted
    MessagesReadBack
    DescriptorsAccounted
    CallsAgree
    CatalogAgrees
PROPERTIES
    StartupsEnd
    QueueDrains
CHECK_DEADLOCK FALSE
