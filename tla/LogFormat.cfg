\* Records that leave seven bytes or six of a block, and one that spans three blocks.
SPECIFICATION Spec
CONSTANTS
    BlockSize = 18
    Sizes = {0, 4, 5, 26}
    Offsets <- SomeOffsets
    MaxRecords = 2
    MaxEvents = 2
\* The reader stops at the end of the file.
CHECK_DEADLOCK FALSE
INVARIANTS TypeOK FitsInBlock ReturnsWholeRecords ReadsEverything DamageIsLocal LossIsReported
