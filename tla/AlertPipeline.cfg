SPECIFICATION Spec
CONSTANTS
    MaxAlerts = 2
    Key = {k1}
    Severity = {0, 1, 3}
    Status = {"acknowledged"}
    Request = {r1}
    None = None
    Cooldown = 1
    TemporalWindow = 0
    Window = 1
    AutoClose = 3
    MaxTime = 4
    MaxFaults = 1
INVARIANT LinksAgree
INVARIANT StampIsTrue
INVARIANT NoDuplicateAnnouncement
PROPERTY NeverReopened
INVARIANT EveryIncidentAnnounced
CHECK_DEADLOCK FALSE
