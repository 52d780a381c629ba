SPECIFICATION CoreSpec
CONSTANTS
    Heads = {h1, h2}
    Entries = {e1, e2, e3}
    NULL = NULL
    Services = {s1, s2}
    HOUR = 4
    TIMEOUT = 3
    Delays = {1, 2}
    Forward = {2, 4}
    Backward = {2}
    START = 10
    END = 18
    MAX_SETS = 2
    NONE = NONE
INVARIANTS
    Ring
    NoAlarmMissed
    NoOtherDangling
    
    SignalKept
    
    OwnReply
    OptionsSound
CHECK_DEADLOCK FALSE
