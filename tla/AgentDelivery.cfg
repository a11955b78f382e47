SPECIFICATION FairSpec
CONSTANTS
    MaxEvents = 4
    BatchSize = 2
    MaxRows = 3
    Page = 2
    MaxRetries = 2
    MaxSends = 3
    MaxStarts = 2
    MaxFaults = 2
    Unmappable = {2}
INVARIANT ExactlyOnceUndisturbed
PROPERTY DrainDeletesOnlyDelivered
PROPERTY ShutdownCompletes
CHECK_DEADLOCK FALSE
