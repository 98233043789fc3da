\* The ring with native and Python ends, and the leases of three threads.
SPECIFICATION PrimitivesSpec
CONSTANTS
    Records = {r1, r2}
    NoRecord = NoRecord
    Capacity = 2
    ProducerEnds = {TRUE, FALSE}
    ConsumerEnds = {TRUE, FALSE}
    Deadlines = TRUE
    MaxCounter = 10
    MaxRecords = 4
    Threads = {t1, t2, t3}
    Watched = t1
    Keys = {k1, k2}
INVARIANTS
    NeverCorrupt
    Exclusive
    NobodyForgotten
PROPERTIES
    ImplementsFifo
    DataWakesConsumer
    CloseEndsWaits
    NoBypass
    EveryoneServed
CHECK_DEADLOCK FALSE
