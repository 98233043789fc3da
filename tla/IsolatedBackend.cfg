\* Three threads and one plugin, whose session may be replaced twice.
SPECIFICATION FairSpec
CONSTANTS
    Threads = {t1, t2, t3}
    Plugins = {p1}
    Sessions = {s1, s2, s3}
    NoSession = NoSession
    Interrupts = TRUE
INVARIANT
    OneSessionPerPlugin
PROPERTIES
    BackendIsGate
    HealthyStays
    SleepersWake
    
CHECK_DEADLOCK FALSE
