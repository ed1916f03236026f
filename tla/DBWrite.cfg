\* Three writers, sync and plain batches; every I/O call but the log append may fail.
SPECIFICATION Spec
CONSTANTS
    Threads = {t1, t2, t3}
    None = None
    Dtor = Dtor
    Requests <- SyncAndPlainPuts
    MaxCalls = 4
    MaxKeys = 1
    MaxParts = 0
    Failures = {"sync", "newlog", "table", "manifest"}
    WriteBufferSize = 1
    SmallBatch = 3
    LargeBatch = 6
    L0CompactionTrigger = 1
    L0SlowdownWritesTrigger = 1
    L0StopWritesTrigger = 2
SYMMETRY ThreadSymmetry
INVARIANTS TypeOK OneLogger BatchAtomic AckedRecoverable SyncDurable
PROPERTIES SnapshotStable 
