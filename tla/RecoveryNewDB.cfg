\* The machine may crash while the database is being created.
SPECIFICATION Spec
CONSTANTS
    None = None
    CrashWhenNew = TRUE
    ReuseFrom = 2
    MaxFile = 12
    MaxWrites = 2
    MaxFaults = 2
CHECK_DEADLOCK FALSE
INVARIANTS Openable
