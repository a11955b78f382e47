SPECIFICATION CSpec
CONSTANTS
    CNs = {h1, h2}
    Tokens = {t1}
    Enrollers = {e1, e2}
    Admins = {a1, a2}
    Streams = {s1, s2}
    KeyHolders = {h1}
    NoAgent = NoAgent
    TokenTTL = 1
    MaxTime = 2
    MaxAdmin = 2
    MaxOpens = 2
    MaxFaults = 2
    Profiles = {p1}
    Handlers = {k1, k2}
    PingTimeout = 1
    ReadBatch = 2
    MaxRequests = 3
SYMMETRY Symmetry
INVARIANTS
    TokenSpentOnce
    NoGhostAgents
    PingHonest
    DeliveredOnce
PROPERTIES
    BlockedStaysOut
CHECK_DEADLOCK FALSE
