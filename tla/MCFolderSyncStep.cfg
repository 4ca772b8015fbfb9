SPECIFICATION Spec
CONSTANTS
    Budget <- Bounds
    edits = 2
    early = 0
    made = 1
    errs = 0
    fails = 0
    ops = 0
    deaths = 0
    answers = 1
    publishes = 1
    calls = 1
    stales = 0
    lates = 0
INVARIANTS InStepHonest PublishAlone
CHECK_DEADLOCK FALSE
