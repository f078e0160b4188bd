SPECIFICATION FairSpec
CONSTANTS
    NUM_READERS = 2
    MaxWrites = 3
INVARIANTS
    MutexInv
    TotalIsFinal
PROPERTIES
    BoardSpec
    Terminates
