\* Two faults at any steps.  A behaviour stops when its writes and faults are used up.
SPECIFICATION Spec
CONSTANTS
    None = None
    CrashWhenNew = FALSE
    ReuseFrom = 2
    MaxFile = 12
    MaxWrites = 2
    MaxFaults = 2
CHECK_DEADLOCK FALSE
INVARIANTS TypeOK Openable TablesOnDisk TablesInOrder
 
