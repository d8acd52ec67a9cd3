SPECIFICATION MCSpec
CONSTANTS
    Scenarios = {"scopes", "turns", "activity", "queues", "controls", "boards"}
    Keys = {"inbox", "queue"}
    KeyOrder <- TwoKeys
    Retention = 2
    MailboxCap = 1
    WireCap = 2
    MaxVersion = 3
    MaxSid = 3
    MaxFaults = 2
    Faults = {"drop", "crash", "timeout", "journal", "restart", "cache", "unpublished"}
    AppOps = {"unsubscribe", "reconnect"}
INVARIANTS ViewsCurrent
CHECK_DEADLOCK FALSE
