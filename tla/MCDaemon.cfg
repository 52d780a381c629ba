CONSTANTS
    Pids = {1, 2, 3}
    NoPid = 0
    FORKS = FALSE
    PIDFILE = TRUE
    PIDOF = FALSE
    RESPAWN = TRUE
    FAIL_OK = FALSE
    STOPS_BADLY = TRUE
    MaxProcs = 2
SPECIFICATION FairSpec
INVARIANTS NeverTwo NeverForgotten
PROPERTIES RespawnEnds Supervised
CHECK_DEADLOCK FALSE
