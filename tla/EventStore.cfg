SPECIFICATION Spec
CONSTANTS
    Agents = {a1, a2}
    Batches <- MCBatches
    Incomplete = {1002}
    Unstorable = {1003}
    Malformed = {1004}
    Health = {1005}
    KeyDirs = {{}, {a1}}
    MaxBatch = 2
    ReadBatch = 2
    BatchMax = 2
    MaxFailures = 2
    MaxPublished = 3
    MaxDbErrors = 1
    MaxFaults = 1
INVARIANTS
    NoEventLost
PROPERTIES
    EventuallyStored
CHECK_DEADLOCK FALSE
