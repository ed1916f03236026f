\* A snapshot, deletions, every compaction, memtables that go to deeper levels.
SPECIFICATION Spec
CONSTANTS
    Keys = {1, 2}
    Snapshots = {s1}
    None = None
    NumLevels = 4
    MaxMemCompactLevel = 2
    MaxFileSize = 9
    GrandparentLimit = 1
    ExpandedLimit = 9
    MaxWrites = 3
    Deletions <- PutsAndDeletes
    ManualLevels <- EveryLevel
\* With all writes used up and every compaction done there is nothing left to do.
CHECK_DEADLOCK FALSE
INVARIANTS TypeOK ReadsRight  NewerAbove
PROPERTIES ReadsLikeAMap
