SPECIFICATION Spec
CONSTANTS
    READER_COUNT = 2
    MAX_OPERATIONS = 1
INVARIANT TidsKnown
