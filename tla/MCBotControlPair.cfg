SPECIFICATION Spec
CONSTANTS
    b1 = b1
    b2 = b2
    r1 = r1
    r2 = r2
    Bots <- TwoBots
    Requests <- OneRequest
    MaxCommands = 2
    MaxEvents = 1
    MaxFaults = 1
SYMMETRY Symmetry
INVARIANT NoDeadlock
PROPERTIES HeartbeatAgreesWithEngine ImplementsLifecycle
