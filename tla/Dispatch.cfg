\* Two callers against a worker that may be slow, break or die.
SPECIFICATION Spec
CONSTANTS
    Callers = {c1, c2}
    Watched = NoCaller
    Spare = NoCaller
    NoCaller = NoCaller
    Capacity = 1
    MaxCalls = 2
    FirstKinds = {"plan", "invoke"}
    PythonWorker = TRUE
    FaultModes = {TRUE}
SYMMETRY Symmetry
INVARIANTS
    NobodyForgotten
    NoFalseAlarm
    CleanCloseStopped
PROPERTIES
    OutcomeFinal
CHECK_DEADLOCK FALSE
