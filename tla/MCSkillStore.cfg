SPECIFICATION Spec
CHECK_DEADLOCK FALSE
SYMMETRY Conversations
CONSTANTS
    None = None
    old = old
    new = new
    bad = bad
    garbled = garbled
    other = other
    Chats = {c1, c2}
    Packs = {1, 2}
    Archives <- MCArchives
    DirOf <- MCDirOf
    FilesOf <- MCFilesOf
    Valid = {old, new, other}
    Malformed = {garbled}
    Libs = {"yaml", "requests", "yaml>=6"}
    Plain = {"yaml", "requests"}
    PyCap = 2
    NeedsOf <- MCNeedsOf
    Batches <- MCBatches
    MaxOps = 2
    MaxFaults = 1
INVARIANTS
    TypeOK
    PacksWhole
PROPERTIES
    ReportedIsThere
    RemovedAsShown
    DownloadIsOneMoment
    DependenciesServed
