SPECIFICATION FairSpec
CONSTANTS
    b1 = b1
    b2 = b2
    r1 = r1
    r2 = r2
    Bots <- OneBot
    Requests <- OneRequest
    MaxCommands = 2
    MaxEvents = 1
    MaxFaults = 1
PROPERTIES StartingResolves StatusConverges
