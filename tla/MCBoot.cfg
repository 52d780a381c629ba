CONSTANTS
    Names <- MCNames
    Type <- MCType
    Deps <- MCDeps
    Available <- MCNames
    Boot = "rl"
    StartTargets = {}
    StopTargets = {}
    RestartTargets = {}
    ZapTargets = {}
    CanHalt = FALSE
    Endings = {"exit0", "exit1", "segv"}
    Founds = {TRUE, FALSE}
    Timeouts = TRUE
    Scripts = {"good", "failing"}
    Linger = TRUE
    Clean = FALSE
    Options <- MCOptions
    IsChangeHooks <- NoHooks
    StartDepMetHooks <- NoHooks
    Files = {}
    MaxCommands = 0
SPECIFICATION FairSpec
PROPERTIES StartOrder FailureSticks BootEnds
CHECK_DEADLOCK FALSE
