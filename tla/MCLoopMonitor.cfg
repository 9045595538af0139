SPECIFICATION Spec
CONSTANTS
    Sigs = {s1, s2}
    Digests = {d1, d2}
    Window = 4
    WarnAfter = 2
    StopAfter = 3
    NoProgress = 4
    MaxKept = 6
    TrimTo = 4
    MaxCalls = 9
INVARIANTS
    TypeOK
    TrimInvisible
    NoProgressSubsumed
PROPERTY
    ImplementsBreaker
CHECK_DEADLOCK FALSE
