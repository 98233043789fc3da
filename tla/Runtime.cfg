\* Two threads, two discoveries and three changes of the catalog.
SPECIFICATION FairSpec
CONSTANTS
    Threads = {t1, t2}
    Plugins = {1, 2}
    Catalogs <- MCCatalogs
    Configs = {"empty"}
    Empty = "empty"
    MaxChanges = 3
    MaxBackends = 2
INVARIANTS
    CloseExclusive
    BackendsOwned
    CurrentCallServed
    CurrentIsUnchanged
PROPERTIES
    BackendsAreGates
    ClosersReturn
CHECK_DEADLOCK FALSE
