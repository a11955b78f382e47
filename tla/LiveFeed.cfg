SPECIFICATION FSpec
CONSTANTS
    Users = {"admin", "eve"}
    EnvUsers <- MCEnvUsers
    InitialFiles <- MCFiles
    Probe <- MCProbe
    UsersTTL = 1
    Lifetime = 2
    MaxSession = 4
    MaxTime = 5
    MaxTokens = 3
    MaxEdits = 1
    MaxFaults = 2
    Sockets = {w1, w2, w3}
    MaxGlobal = 2
    MaxPerUser = 1
    Redis = TRUE
    MaxCasts = 1
    MaxWork = 4
    MaxFeedWork = 2
    MaxFeedTime = 2
SYMMETRY Symmetry
INVARIANTS
    SessionIntegrity
    OffboardedInTime
    RegistryExact
    FeedReachesAll
CHECK_DEADLOCK FALSE
