SPECIFICATION MCSpec
CONSTANTS
    Phones = {"p1", "p2"}
    Hosts = {"h1", "h2"}
    Addresses = {"a1"}
    Codes = {"b1", "b2"}
    RemoteCodes = {"r1"}
    MaxConns = 4
    FaultKinds = {}
    MaxFaults = 2
INVARIANTS PairedIsRegistered  EndsAgree
INVARIANTS SameHost
CHECK_DEADLOCK FALSE
