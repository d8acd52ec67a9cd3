SPECIFICATION MCSpec
CONSTANTS
    Scenarios = {"faulty", "rotating", "repeated", "moved", "lost", "refused", "dialog", "others"}
    Fids = {"f1", "f2", "f3"}
    MaxTombstones = 2
    MaxChanges = 2
    MaxWakes = 1
    MaxSlots = 1
    FaultKinds = {}
    MaxFaults = 0
INVARIANTS UnfinishedIsKept
 
INVARIANTS PhoneAgreesWithHost
CHECK_DEADLOCK FALSE
