CONSTANTS
    Names <- MCNames
    Type <- MCType
    Deps <- MCDeps
    Available <- MCAvailable
    Boot = "rl"
    StartTargets = {"static"}
    StopTargets = {"dhcp"}
    RestartTargets = {}
    ZapTargets = {"static"}
    CanHalt = FALSE
    Endings = {"exit0", "exit1"}
    Founds = {TRUE}
    Timeouts = FALSE
    Scripts = {"good"}
    Linger = FALSE
    Clean = TRUE
    Options <- MCOptions
    IsChangeHooks <- MCIsChangeHooks
    StartDepMetHooks <- MCStartDepMetHooks
    Files = {"ifcfg"}
    MaxCommands = 2
SPECIFICATION FairSpec
INVARIANTS ProvidedHasProvider ConflictExcluded
PROPERTIES StartsEnd
CHECK_DEADLOCK FALSE
