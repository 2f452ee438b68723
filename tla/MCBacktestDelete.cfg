SPECIFICATION MCSpec
CONSTANTS
    j1 = j1
    j2 = j2
    j3 = j3
    u1 = u1
    u2 = u2
    s1 = s1
    s2 = s2
    Focuses <- JobsOnly
    Jobs <- TwoJobs
    MaxFaults = 0
    Users <- TwoUsers
    Sockets <- TwoSockets
    Owner <- OneOwner
    MaxEvents = 2
PROPERTY RunningIsNotDeleted
CHECK_DEADLOCK FALSE
