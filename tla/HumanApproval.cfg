SPECIFICATION FairSpec
CONSTANTS
    Decision = {d1, d2, d3}
    NeedsHuman = {d1, d2}
    HasPid = {d1, d3}
    Operator = {o1, o2}
    System = {w1}
    NoDecision = NoDecision
    Triggers = FALSE
    MaxFaults = 1
INVARIANT AnswerIsTruth
INVARIANT KillOnlyApproved
PROPERTY ImplementsVerdict
PROPERTY Expires
CHECK_DEADLOCK FALSE
