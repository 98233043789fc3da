\* Loading the plugins again below the bundled backend.
SPECIFICATION Spec
CONSTANTS
    Threads = {t1, t2}
    Plugins = {1, 2}
    Catalogs <- MCCatalogs
    Configs = {"empty", "threads"}
    Empty = "empty"
    MaxChanges = 3
    MaxBackends = 2
INVARIANT ConfigurationImmutable
CHECK_DEADLOCK FALSE
