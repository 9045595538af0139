SPECIFICATION Spec
CHECK_DEADLOCK FALSE
CONSTANTS
    None = None
    Old = Old
    chat = chat
    flow = flow
    alice = alice
    bob = bob
    Workers = {w1}
    Convs = {chat, flow}
    Nameless = {flow}
    UserOf <- MCUserOf
    Recall = 2
    HistoryTurns = 3
    DayCap = 3
    PromptCap = 2
    KeepDays = 2
    Horizon = 3
    FirstDay = 2
    LastDay = 2
    MaxTurns = 3
    MaxFaults = 0
INVARIANTS
    RepliesFollowQuestions
