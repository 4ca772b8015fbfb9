SPECIFICATION Spec
CONSTANTS
    None = None
    Work <- Works
    Budget <- Bounds
    works = 3
    opens = 3
    moves = 1
    clears = 2
    faults = 1
    slips = 0
INVARIANTS NothingLost ConfirmedIsTrue
PROPERTY NotUnderAWindow
CHECK_DEADLOCK FALSE
