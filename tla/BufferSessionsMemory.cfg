SPECIFICATION SessionsSpec
CONSTANTS
    Regions = {r1, r2}
    Sessions = {s1}
    Lengths = {1}
    MaxGeneration = 2
    MaxCachedBuffers = 1
    MaxCachedBytes = 1
    NoRegion = NoRegion
    Invocations = {i1, i2}
    NoInvocation = NoInvocation
    Overruns = TRUE
INVARIANTS
    MemoryOutlivesKernel
SYMMETRY Symmetry
CHECK_DEADLOCK FALSE
