SPECIFICATION FairSpec
CONSTANTS
    Budget <- Bounds
    edits = 2
    early = 0
    made = 0
    errs = 1
    fails = 1
    ops = 1
    deaths = 1
    answers = 1
    publishes = 0
    calls = 0
    stales = 0
    lates = 0
PROPERTIES CarriedOrTold Rests ComesInStep
CHECK_DEADLOCK FALSE
