SPECIFICATION ToolsSpec
CONSTANTS
    BUFFER = 4
    Characters <- MCCharacters
    Inputs <- MCInputs
    Patterns <- MCPatterns
    Names <- MCNames
    Hidden = {"."}
    CaseRank <- MCRank
    Directories <- MCDirectories
    CAPACITY = 1
    Runs = {1, 2}
    Specs <- MCSpecs
    Modes <- MCModes
INVARIANT LikeCat
CHECK_DEADLOCK FALSE
