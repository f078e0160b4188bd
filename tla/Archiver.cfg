SPECIFICATION Spec
CONSTANTS
    Names = {"a", "b"}
    MaxVersion = 2
    MaxCommands = 4
    Faults = {"openArchive", "writeHeader", "openTemp", "createOutput", "copyOut", "keep", "rename", "killExtract", "readHeader"}
INVARIANTS
    ArchiveFormat
    CommandInv
PROPERTY
    ShelfSpec
