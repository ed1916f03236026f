\* Two threads write and flush; every I/O call may fail, the log append too.
SPECIFICATION FairSpec
CONSTANTS
    Threads = {t1, t2}
    None = None
    Dtor = Dtor
    Requests <- PutsAndFlush
    MaxCalls = 3
    MaxKeys = 2
    MaxParts = 0
    Failures = {"append", "sync", "newlog", "table", "manifest"}
    WriteBufferSize = 0
    SmallBatch = 3
    LargeBatch = 6
    L0CompactionTrigger = 1
    L0SlowdownWritesTrigger = 1
    L0StopWritesTrigger = 2
INVARIANTS SequencesDisjoint
PROPERTIES FailStop CallsReturn
