SPECIFICATION RSpec
CONSTANTS
    RuleFiles <- MCRuleFiles
    InitialRules <- MCInitial
    Events <- MCEvents
    MaxTTL = 2
    MaxWindow = 3
    PurgeEvery = 2
    Admins = {a1, a2}
    RowIds = {row1}
    Contents = {c1, c2}
    MaxNow = 3
    MaxOps = 5
SYMMETRY Symmetry
INVARIANTS
    TemporalExact
    
CHECK_DEADLOCK FALSE
