SPECIFICATION Spec
CHECK_DEADLOCK FALSE
CONSTANTS
    c1 = c1
    c2 = c2
    c3 = c3
    u1 = u1
    u2 = u2
    anon = anon
    own = own
    curl = curl
    git = git
    None = None
    t1 = t1
    t2 = t2
    Chats = {c1, c2, c3}
    Users = {u1, u2}
    UserOf <- TwoUsers
    Keys = {anon, own}
    KeyOf <- SharedKey
    NewUsers = {}
    Exes = {curl, git}
    Commands <- MCCommands
    Replies <- ApprovalReplies
    Counts = {}
    Topics = {t1, t2}
    Similar <- MCSimilar
    HistoryLimit = 2
    ApprovalOn = TRUE
    ExpiryOn = FALSE
    MaxTurns <- FewTurns
    MaxMessages = 5
    MaxFaults = 1
INVARIANTS
    TypeOK
    GrantsWereGiven
PROPERTIES
    ImplementsApproval
    AcceptedAsShown
