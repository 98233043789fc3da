SPECIFICATION FairSpec
CONSTANTS
    Records = {r1, r2}
    NoRecord = NoRecord
    Capacity = 2
    ProducerEnds = {TRUE}
    ConsumerEnds = {TRUE}
    Deadlines = FALSE
    MaxCounter = 10
    MaxRecords = 4
PROPERTY SpaceWakesProducer
CHECK_DEADLOCK FALSE
