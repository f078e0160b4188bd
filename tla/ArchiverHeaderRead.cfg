SPECIFICATION Spec
CONSTANTS
    Names = {"a", "b"}
    MaxVersion = 1
    MaxCommands = 3
    Faults = {"readHeader"}
INVARIANT OthersKept
