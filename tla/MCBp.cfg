\* The lines of a service file and what bp.c makes of them.
SPECIFICATION Spec
CONSTANTS
    SFILE = SFILE
    NULL = NULL
    Paths = {}
INVARIANT UsageKept
CHECK_DEADLOCK FALSE
