SPECIFICATION SSpec
CONSTANTS
    Names = {"a"}
    Requests = {r1, r2}
    RequireSignature = TRUE
    Keys = "some"
    SigBeside <- SigBesideBad
    MaxProcs = 2
    MaxRequests = 3
    MaxStarts = 2
    MaxModel = 2
    MaxSaves = 1
    MaxLoad = 3
INVARIANTS
    EveryProcessManaged
    CheckpointKept
PROPERTIES
    RequestsAnswered
CHECK_DEADLOCK FALSE
