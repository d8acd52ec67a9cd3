SPECIFICATION MCSpec
CONSTANTS
    c1 = c1
    c2 = c2
    Commands = {c1, c2}
    s1 = s1
    nowhere = nowhere
    a1 = a1
    Sessions = {s1}
    Attentions = {a1}
    NoCommand = NoCommand
    MaxFaults = 3
    Bodies <- AllBodies
INVARIANTS AtMostOnce TerminalAcksAreTrue
INVARIANTS OneAnswerSent RepliesAreDurable
PROPERTIES  ImplementsLifecycle MCReadySettles
CHECK_DEADLOCK FALSE
