SPECIFICATION FairSpec
CONSTANTS
    READER_COUNT = 3
    MAX_OPERATIONS = 2
INVARIANTS
    TypeOK
    ReadWriteExclusion
    CountIsExact
    WaitersHaveWakers
    ObjectsOutliveThreads
PROPERTIES
    NoOvertaking
    BoardSpec
    WriterFinishes
    ReadersGetIn
    Terminates
