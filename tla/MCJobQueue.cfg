CONSTANTS
    Events = {e1}
    Params = {p1}
    Workers = {w1, w2}
    Clients = {c1, c2}
    MaxTime = 2
    TicksPerSecond = 2
    MaxCrashes = 1
    None = None
SPECIFICATION Spec
INVARIANTS ClaimedAtMostOnce ResultsMatchJobs RequestHonoured OrphansComeFromDeaths QueueInv
PROPERTIES TerminalStatesKept OrphansStay ImplementsLifecycle
CHECK_DEADLOCK FALSE
