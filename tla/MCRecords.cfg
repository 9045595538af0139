SPECIFICATION Spec
CHECK_DEADLOCK FALSE
SYMMETRY Processes
CONSTANTS
    None = None
    Old = Old
    chat = chat
    flow = flow
    alice = alice
    bob = bob
    Workers = {w1, w2}
    Convs = {chat, flow}
    Nameless = {flow}
    UserOf <- MCUserOf
    Recall = 2
    HistoryTurns = 2
    DayCap = 3
    PromptCap = 2
    KeepDays = 2
    Horizon = 4
    FirstDay = 3
    LastDay = 4
    MaxTurns = 2
    MaxFaults = 1
INVARIANTS
    TypeOK
    HistoryIsTold
    DigestIsLogged
    CollectorServed
PROPERTIES
    TodayRecalled
