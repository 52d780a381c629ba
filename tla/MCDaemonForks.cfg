CONSTANTS
    Pids = {1, 2, 3}
    NoPid = 0
    FORKS = TRUE
    PIDFILE = TRUE
    PIDOF = TRUE
    RESPAWN = TRUE
    FAIL_OK = FALSE
    STOPS_BADLY = FALSE
    MaxProcs = 2
SPECIFICATION FairSpec
PROPERTIES KillEnds
CHECK_DEADLOCK FALSE
