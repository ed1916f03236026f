\* Two threads make every kind of call, next to the background thread.
SPECIFICATION FairSpec
CONSTANTS
    Threads = {t1, t2}
    None = None
    Dtor = Dtor
    Requests <- AllCalls
    MaxCalls = 3
    MaxKeys = 1
    MaxParts = 2
    Failures = {"newlog"}
    WriteBufferSize = 0
    SmallBatch = 3
    LargeBatch = 6
    L0CompactionTrigger = 1
    L0SlowdownWritesTrigger = 1
    L0StopWritesTrigger = 2
INVARIANTS EveryoneIsWoken ManualRequestAlive
PROPERTIES CallsReturn CloseReturns
