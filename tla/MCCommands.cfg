CONSTANTS
    Names <- MCNames
    Type <- MCType
    Deps <- MCDeps
    Available <- MCNames
    Boot = "rl"
    StartTargets = {"net", "rl"}
    StopTargets = {"net", "fs"}
    RestartTargets = {"fs", "net"}
    ZapTargets = {}
    CanHalt = TRUE
    Endings = {"exit0", "exit1"}
    Founds = {TRUE, FALSE}
    Timeouts = TRUE
    Scripts = {"good", "failing"}
    Linger = FALSE
    Clean = FALSE
    Options <- MCOptions
    IsChangeHooks <- NoHooks
    StartDepMetHooks <- NoHooks
    Files = {}
    MaxCommands = 3
SPECIFICATION FairSpec
INVARIANTS RunHasProcess
PROPERTIES StopOrder StopsEnd NoStartWhileStopping ShutdownEnds
CHECK_DEADLOCK FALSE
