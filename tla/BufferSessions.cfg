SPECIFICATION SessionsSpec
CONSTANTS
    Regions = {r1}
    Sessions = {s1, s2}
    Lengths = {1}
    MaxGeneration = 2
    MaxCachedBuffers = 1
    MaxCachedBytes = 1
    NoRegion = NoRegion
    Invocations = {i1, i2, i3}
    NoInvocation = NoInvocation
    Overruns = TRUE
INVARIANTS
    MirrorCurrent
    TableWithinMirror
    OpenKeepsMemory
SYMMETRY Symmetry
CHECK_DEADLOCK FALSE
