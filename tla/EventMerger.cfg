SPECIFICATION FairSpec
CONSTANTS
    c1 = c1
    c2 = c2
    p = p
    x = x
    net = net
    proc = proc
    None = None
    Activity = {c1, c2, p, x}
    Key = {net, proc}
    KeyOf <- MCKeyOf
    SeenBy <- MCSeenBy
    InCap = 1
    OutCap = 1
    BatcherCap = 1
INVARIANT OneEventPerGroup
INVARIANT AddressSurvives
PROPERTY PathDrains
CHECK_DEADLOCK FALSE
