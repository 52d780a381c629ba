CONSTANTS
    Names <- MCNames
    Type <- MCType
    Deps <- MCDeps
    Available <- MCNames
    Boot = "rl"
    StartTargets = {"net", "rl"}
    StopTargets = {"net", "fs"}
    RestartTargets = {"fs", "net"}
    ZapTargets = {}
    CanHalt = FALSE
    Endings = {"exit0", "exit1"}
    Founds = {TRUE}
    Timeouts = TRUE
    Scripts = {"good"}
    Linger = FALSE
    Clean = TRUE
    Options <- MCOptions
    IsChangeHooks <- NoHooks
    StartDepMetHooks <- NoHooks
    Files = {}
    MaxCommands = 3
SPECIFICATION Spec
PROPERTIES StopOrder
CHECK_DEADLOCK FALSE
