\* Outputs that end between two entries of one user key.
SPECIFICATION Spec
CONSTANTS
    Keys = {1, 2}
    Snapshots = {s1}
    None = None
    NumLevels = 4
    MaxMemCompactLevel = 2
    MaxFileSize = 1
    GrandparentLimit = 1
    ExpandedLimit = 9
    MaxWrites = 4
    Deletions <- PutsOnly
    ManualLevels = {}
\* With all writes used up and every compaction done there is nothing left to do.
CHECK_DEADLOCK FALSE
INVARIANTS NewerAbove
