SPECIFICATION Spec
CHECK_DEADLOCK FALSE
CONSTANTS
    usd = usd
    cny = cny
    Mixed = Mixed
    None = None
    Currencies = {usd, cny}
    MaxTokens = 7
    MaxCalls = 3
INVARIANTS
    TypeOK
    AnswerShown
    EveryWordOnce
    UsageTold
