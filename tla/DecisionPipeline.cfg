SPECIFICATION Spec
CONSTANTS
    NoServer = NoServer
    OldServer = OldServer
    Server = {s1}
    Incident = {i1, i2, i3}
    Score = {30, 50, 90}
    HistoryLen = 1
    Distributed = TRUE
    MaxFaults = 2
INVARIANT ChainIntact
INVARIANT JournalMatchesDatabase
INVARIANT RollbackAccepted
INVARIANT DispatchedIsRecorded
CHECK_DEADLOCK FALSE
