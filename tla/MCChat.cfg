SPECIFICATION FairSpec
CONSTANTS
    None = None
    a = a
    b = b
    f = f
    u = u
    Message = {a, f, u}
    Attached = {f}
    Utility = {u}
    Budget <- Bounds
    acts = 1
    takings = 1
    faults = 1
    replaces = 1
    slips = 0
INVARIANTS TypeOK SaidTruly OrderKept StopTells
PROPERTY ComesToRest
CHECK_DEADLOCK FALSE
