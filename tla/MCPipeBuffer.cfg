SPECIFICATION Spec
CONSTANTS
    CHUNK = 2
    LIMIT = 6
    KEEP = 4
    SHRUNK = 5
    STREAM = 13
INVARIANTS
    NoOverrun
    DeliveredInOrder
    IdleBounded
PROPERTY
    AllOutputDelivered
CHECK_DEADLOCK FALSE
