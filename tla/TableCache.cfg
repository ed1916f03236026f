\* Three readers of three files or blocks.  Three entries that are held and three that
\* were released since the last Insert are the most that can be allocated.
SPECIFICATION Spec
CONSTANTS
    k1 = k1
    k2 = k2
    k3 = k3
    Keys = {k1, k2, k3}
    Readers = {r1, r2, r3}
    Handles = {1, 2, 3, 4, 5, 6}
    None = None
    Charges <- SmallAndLarge
    TableCapacities = {1}
    BlockCapacities = {0, 2}
SYMMETRY Symmetry
ACTION_CONSTRAINT LowestFree
\* Once every table file is deleted there is nothing left to read.
CHECK_DEADLOCK FALSE
INVARIANTS TypeOK ReferencesCounted HandlesAlive ListsAgree DeletedFilesAreClosed
PROPERTIES GrowsWithinCapacity
