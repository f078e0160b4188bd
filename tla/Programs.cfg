SPECIFICATION Spec
CONSTANTS
    BUFFER = 4
    Characters <- MCCharacters
    Inputs <- MCInputs
    Patterns <- MCPatterns
    Names <- MCNames
    Hidden = {"."}
    CaseRank <- MCRank
    Directories <- MCDirectories
    CAPACITY = 1
    Runs = {1, 2}
    Specs <- MCSpecs
    Modes <- MCModes
    MaxMessages = 3
    Procs = {1, 2, 3}
    Inodes = {1, 2}
    ExitSignals = {"SIGINT"}
    MAX_OPERATIONS = 1
    Producers = {p1, p2}
    Consumers = {c1, c2}
INVARIANTS
    CatFaithful
    GrepFaithful
    FreedOnce
    NothingLeft
    Listing
    ReportIsTrue
    PrintedOnce
    MessageShown
    OneUnlessStray
    AllGone
    FifoInv
    NoLeftover
PROPERTIES
    AsAsked
    PairEnds
    NewestMessage
    SomeoneServed
CHECK_DEADLOCK FALSE
