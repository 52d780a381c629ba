SPECIFICATION ServersSpec
CONSTANTS
    LIMIT = 3
    LOCALS = 2
    ENTRIES = 6
    Clients = {c1, c2}
    Listeners = {p1, p2, p3}
    SELF = SELF
    NONE = NONE
INVARIANTS
    AnnouncedFirst
    OneAnswer
    
    NothingMissed
    
    TruthfulReply
    RowsInside
    
SYMMETRY ClientSymmetry
CHECK_DEADLOCK FALSE
