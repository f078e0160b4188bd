SPECIFICATION FairSpec
CONSTANTS
    READER_COUNT = 3
    MAX_OPERATIONS = 2
INVARIANT
    LockInv
PROPERTIES
    BoardSpec
    Terminates
