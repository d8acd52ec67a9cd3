SPECIFICATION MCSpec
CONSTANTS
    Scenarios = {"lag", "crash", "faults", "catchup"}
    Keys = {"inbox", "queue"}
    KeyOrder <- TwoKeys
    Retention = 2
    MailboxCap = 1
    WireCap = 2
    MaxVersion = 3
    MaxSid = 3
    MaxFaults = 2
    Faults = {"drop", "crash", "timeout", "journal", "restart", "cache", "unpublished"}
    AppOps = {"unsubscribe", "reconnect"}
 
PROPERTIES ImplementsFeed 
CHECK_DEADLOCK FALSE
