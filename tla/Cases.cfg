SPECIFICATION Spec
CONSTANTS
    CaseIds = {c1}
    Writers = {w1, w2}
    Readers = {r1}
    EventTimes = {1}
    MaxOps = 3
    MaxTime = 1
    MaxFaults = 1
INVARIANTS
    CustodyChain
    ChangesKeptAndLogged
    BundleConsistent
CHECK_DEADLOCK FALSE
