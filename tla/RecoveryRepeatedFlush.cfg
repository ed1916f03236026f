\* A flush whose record is in the MANIFEST though its call failed, a compaction that
\* goes on, and a crash of the machine.
SPECIFICATION Spec
CONSTANTS
    None = None
    CrashWhenNew = FALSE
    ReuseFrom = 3
    MaxFile = 12
    MaxWrites = 3
    MaxFaults = 2
CHECK_DEADLOCK FALSE
CONSTRAINT AfterABackgroundError
INVARIANTS NewestFirst
