SPECIFICATION ClientSpec
CONSTANTS
    pending = pending
    resps = resps
    Heads = {pending, resps}
    Entries = {r1, r2}
    NULL = NULL
    CALLS = 3
    MSGS = 2
INVARIANT
    HandledOnce
CHECK_DEADLOCK FALSE
