\* Three entries of two user keys in a list of two levels.
SPECIFICATION FairSpec
CONSTANTS
    UserKeys = {1, 2}
    MaxWrites = 3
    MaxHeight = 2
    Keys <- InternalKeys
    None = None
INVARIANTS TypeOK ReachesInitialised
PROPERTIES  OperationsEnd
