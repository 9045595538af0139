SPECIFICATION Spec
CHECK_DEADLOCK FALSE
SYMMETRY Conversations
CONSTANTS
    None = None
    Chats = {c1, c2}
    TopFiles = {"note"}
    Keep = 1
    MaxTurns = 3
    MaxFaults = 1
INVARIANTS
    TypeOK
PROPERTIES
    FreshExportsDelivered
