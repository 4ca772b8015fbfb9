SPECIFICATION Spec
CONSTANTS
    Machine = {m1, m2}
    Writer = {"user"}
    Attachments <- Names
    CasAttempts = 2
    Budget <- Bounds
    MaxWrites = 2
    files = 2
    edits = 2
    comments = 2
    attaches = 1
    deletes = 2
    moves = 2
    firsts = 0
SYMMETRY Machines
INVARIANTS TypeOK NumbersUnique
PROPERTIES NothingLost DeletionWins MergedByField ReferencesFollow OrderKept
CHECK_DEADLOCK FALSE
