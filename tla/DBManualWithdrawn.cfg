\* A background error while a manual compaction runs.
SPECIFICATION Spec
CONSTANTS
    Threads = {t1, t2}
    None = None
    Dtor = Dtor
    Requests <- PutsAndManual
    MaxCalls = 3
    MaxKeys = 1
    MaxParts = 1
    Failures = {"table"}
    WriteBufferSize = 0
    SmallBatch = 3
    LargeBatch = 6
    L0CompactionTrigger = 1
    L0SlowdownWritesTrigger = 1
    L0StopWritesTrigger = 2
INVARIANTS ManualRequestAlive
