SPECIFICATION MCSpec
CONSTANTS
    Main = main
    None = none
    d1 = d1
    MaxSlots = 2
    MaxWakes = 1
    SlowRetries = TRUE
    Devices = {d1, d2}
    Callers = {c1}
    MaxFid = 2
    MaxCalls = 3
    MaxFaults = 1
    MaxCrashes = 1
    MaxRelayRestarts = 1
INVARIANTS RevokedIsUngranted
INVARIANTS  AckedSurvives
PROPERTIES RevocationReachesService
CHECK_DEADLOCK FALSE
