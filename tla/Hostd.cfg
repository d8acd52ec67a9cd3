SPECIFICATION MCSpec
CONSTANTS
    p1 = p1
    p2 = p2
    Entries <- TwoEntries
    Pumps = {p1, p2}
    MaxFaults = 2
INVARIANTS DeliveredOnce RecoveryAgrees
PROPERTIES ImplementsLifecycle QueueAdvances NewsIsHeard
CHECK_DEADLOCK FALSE
