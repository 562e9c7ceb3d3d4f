CONSTANTS
    h1 = h1
    h2 = h2
    h3 = h3
    i1 = i1
    p1 = p1
    Self = Self
    None = None
    Hives = {h1, h2, h3}
    IdBroadcasts = {i1}
    PageBroadcasts = {p1}
    Value <- Distinct
    Connected <- Side
    MayConnect <- Star
    Askers = {h1, h2}
    WORKERS = 2
    OBJECTS_PER_PAGE = 1
CHECK_DEADLOCK FALSE
SPECIFICATION FairSpec
INVARIANTS TypeOK AskedOnce AcceptanceIsEarned
PROPERTY FloodEnds
