SPECIFICATION MCSpec
CONSTANTS
    c1 = c1
    c2 = c2
    c3 = c3
    s1 = s1
    s2 = s2
    Conns = {c1, c2, c3}
    Sources = {s1, s2}
    Secrets = {p1}
    Devices = {d1, d2}
    MaxGlobal = 3
    MaxPreAuth = 2
    MaxPerSource = 2
    MaxPerDevice = 1
    FailureLimit = 2
    GlobalFailureLimit = 4
    StageTimeout = 2
    SessionLifetime = 3
    IdlePing = 1
    IdleClose = 2
    FailureWindow = 2
    MaxNow = 5
    MaxAccepts = 4
    MaxRestarts = 1
    MaxRevokes = 2
    Faults = {"clean", "landed"}
INVARIANTS RevokedIsNeverServed
 
PROPERTIES RevokedSessionsAreEnded
CHECK_DEADLOCK FALSE
