SPECIFICATION FairSpec
CONSTANTS
    Sigs = {ask, shell, export, ghost}
    Digests = {d1}
    UnknownSigs = {ghost}
    AskSigs = {ask}
    ShellSigs = {shell}
    ExportSigs = {export}
    LoudSigs = {shell}
    Window = 4
    WarnAfter = 2
    StopAfter = 3
    NoProgress = 4
    MaxKept = 6
    TrimTo = 4
    Budget = 8
    KeepRecent = 5
    NoteSize = 1
    SummarySize = 1
    MaxTurns = 3
    Batches <- MCBatches
    ask = ask
    shell = shell
    export = export
    ghost = ghost
    TextKinds <- MCTextKinds
    TextSizes = {1}
    ResultSizes = {5}
    Openings <- MCOpenings
INVARIANTS
    TypeOK
    ModelSeesAnsweredCalls
    EvidenceSurvives
    SavedAsTold
PROPERTIES
    ImplementsTurn
    NothingAfterClosing
