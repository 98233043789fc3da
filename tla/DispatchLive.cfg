\* Every call ends, and with a healthy worker it is answered.
SPECIFICATION LiveSpec
CONSTANTS
    Callers = {c1, c2, c3}
    Watched = c1
    Spare = c3
    NoCaller = NoCaller
    Capacity = 1
    MaxCalls = 3
    FirstKinds = {"invoke"}
    PythonWorker = FALSE
    FaultModes = {TRUE, FALSE}
PROPERTIES
    CallsEnd
    EveryCallAnswered
CHECK_DEADLOCK FALSE
