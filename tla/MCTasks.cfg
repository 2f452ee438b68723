SPECIFICATION MCSpec
CONSTANTS
    j1 = j1
    j2 = j2
    j3 = j3
    u1 = u1
    u2 = u2
    s1 = s1
    s2 = s2
    Focuses <- BothFocuses
    Jobs <- ThreeJobs
    MaxFaults = 2
    Users <- TwoUsers
    Sockets <- TwoSockets
    Owner <- OneOwner
    MaxEvents = 2
INVARIANTS
    JobsTypeOK
    ScheduledOnce
    RunningIsExecuted
    QueuedIsScheduled
    TypeOK
    RegisteredMissNothing
    RegistryIsTidy
PROPERTIES
    JobLife
    JobsEnd
    ImplementsFeed
    BroadcastEnds
    GoneClientsLeave
CHECK_DEADLOCK FALSE
