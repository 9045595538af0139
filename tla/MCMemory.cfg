SPECIFICATION Spec
CHECK_DEADLOCK FALSE
CONSTANTS
    facts = facts
    episodic = episodic
    userFacts = userFacts
    likes = likes
    works = works
    trip = trip
    wedding = wedding
    c1 = c1
    Unseen = Unseen
    Chats = {c1}
    Sections = {facts, episodic, userFacts}
    Misc = userFacts
    Items = {likes, works, trip, wedding}
    Stale = {trip, wedding}
    Rewordings = {likes}
    Extracts <- MCExtracts
    MaxItems = 2
    Cap = 3
    Threshold = 2
    MaxDays = 2
    MaxCommands = 2
    MaxMined = 1
    MaxFaults = 1
INVARIANTS
    TypeOK
    ExtractedOnce
    ArchivedKept
PROPERTIES
    StableOrder
    DroppedIsBackedUp
