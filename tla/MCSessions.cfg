SPECIFICATION Spec
CONSTANTS
    None = None
    Users = {ann}
    SessionIds = {s1}
    Calls = {c1, c2}
    Sources = {hall}
    Allowed = {hall}
    LockThreshold = 2
    LockDuration = 1
    SessionTtl = 2
    WindowLength = 2
    LoginLimit = 2
    GeneralLimit = 1
    MaxTime = 2
    MaxFailures = 3
INVARIANTS
    LockMatchesCounter
    CountsEveryFailureAlone
    AdmittedSessionsAreLive
    
    SessionsInv
PROPERTIES
    LockOutlastsReaders
SYMMETRY MCSymmetry
CHECK_DEADLOCK FALSE
