SPECIFICATION FairSpec
CONSTANTS
    storm = storm
    None = None
    Events = {storm}
    Jobs = {1, 2}
    EventOf <- MCEventOf
    Outcomes = {"SUCCEEDED", "FAILED"}
    MaxLogins = 1
    MaxVisits = 4
    MaxRoster = 1
    MaxLosses = 1
    MaxRequests = 1
PROPERTIES
    RefusedEditIsExplained
CHECK_DEADLOCK FALSE
