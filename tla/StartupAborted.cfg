SPECIFICATION Spec
INVARIANT WorkerReaped
CHECK_DEADLOCK FALSE
