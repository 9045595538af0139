SPECIFICATION Spec
CHECK_DEADLOCK FALSE
CONSTANTS
    c1 = c1
    c2 = c2
    c3 = c3
    u1 = u1
    u2 = u2
    anon = anon
    own = own
    curl = curl
    git = git
    None = None
    t1 = t1
    t2 = t2
    Chats = {c1, c2}
    Users = {u1, u2}
    UserOf <- OwnUsers
    Keys = {anon, own}
    KeyOf <- OwnKeys
    NewUsers = {u1, u2}
    Exes = {curl, git}
    Commands <- NoCommands
    Replies <- ClarifyReplies
    Counts = {2, 3}
    Topics = {t1, t2}
    Similar <- MCSimilar
    HistoryLimit = 2
    ApprovalOn = FALSE
    ExpiryOn = FALSE
    MaxTurns <- ThreeTurns
    MaxMessages = 6
    MaxFaults = 0
INVARIANTS
    ReplyGoesToAsker
