CONSTANTS
    Events = {e1}
    Params = {p1}
    Workers = {w1, w2}
    Clients = {c1}
    MaxTime = 2
    TicksPerSecond = 2
    MaxCrashes = 1
    None = None
SPECIFICATION FairSpec
PROPERTIES QueuedIsClaimed RunningSettles
CHECK_DEADLOCK FALSE
