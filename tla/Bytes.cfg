SPECIFICATION MCSpec
CONSTANTS
    Scenarios = {"log", "crashing", "shared", "reading", "host_frames", "device_frames", "slow_frames", "client", "worker", "hasty"}
    Streams <- TwoStreams
    FileOrder <- ByName
    MaxEffects = 3
    MaxClock = 3
    MaxLoads = 2
    Faults = {"clean", "landed", "torn"}
INVARIANTS ReplayKeepsCommitOrder
 
INVARIANTS SegmentationFree
INVARIANTS BooksAgree
CHECK_DEADLOCK FALSE
