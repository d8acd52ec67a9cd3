SPECIFICATION MCSpec
CONSTANTS
    Scenarios = {"network", "panels", "taken", "left"}
    BaseKeys = {"index"}
    PickedKeys = {"session"}
    Tiers = {"Lan"}
    Taps = {}
    MaxTaps = 0
    MaxHead = 1
    MaxNetwork = 2
    MaxWakes = 0
    FaultKinds = {}
    MaxFaults = 0
INVARIANTS LiveIsCurrent
PROPERTIES ViewsNeverGoBack EveryCallReturns
CHECK_DEADLOCK FALSE
