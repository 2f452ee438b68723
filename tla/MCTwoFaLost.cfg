SPECIFICATION MCSpec
CONSTANTS
    upper = upper
    lower = lower
    key = key
    subject = subject
    r1 = r1
    r2 = r2
    p1 = p1
    p2 = p2
    s1 = s1
    s2 = s2
    s3 = s3
    none = none
    Focuses <- CabinetOnly
    Addresses <- TwoSpellings
    Keys <- OneKey
    KeyOf <- SameKey
    Subjects <- OneSubject
    Requests <- TwoRequests
    MaxAttempts = 2
    MaxCodes = 2
    MaxSignIns = 3
    MaxFaults = 1
    Handlers <- TwoRequests
    ApiSecrets <- Secrets
    PrefixOf <- Beginnings
    NoSecret = none
    MaxSetups = 2
    MaxErrors = 1
    Clients <- TwoRequests
    Providers <- TwoProviders
    Browsers <- TwoRequests
    Nowhere = none
    RateLimit = 3
    MaxTries = 6
    MaxStates = 2
    MaxBreaks = 1
PROPERTY VerifiedIsEnabled
CHECK_DEADLOCK FALSE
