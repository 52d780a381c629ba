CONSTANTS
    s1 = s1
    s2 = s2
    startMarked = startMarked
    startRun = startRun
    stopped = stopped
    freeing = freeing
    None = None
    Services = {s1, s2}
    States <- MCStates
    Is <- MCIs
    FREEING = freeing
SPECIFICATION Spec
INVARIANTS NoLostChange ListWellFormed
PROPERTIES SteadyUnderHooks EveryChangeHandled
