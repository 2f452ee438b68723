SPECIFICATION Spec
CONSTANTS
    b1 = b1
    b2 = b2
    r1 = r1
    r2 = r2
    Bots <- OneBot
    Requests <- TwoRequests
    MaxCommands = 2
    MaxEvents = 2
    MaxFaults = 1
SYMMETRY Symmetry
INVARIANTS TypeOK StatusWasRequested
PROPERTY ImplementsSubscription
