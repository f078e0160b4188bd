SPECIFICATION Spec
CONSTANTS
    Names = {"a", "b"}
    MaxVersion = 1
    MaxCommands = 2
    Faults = {"openFile"}
INVARIANT ArchiveFormat
