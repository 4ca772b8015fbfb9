SPECIFICATION FairSpec
CONSTANTS
    Branch = {main, topic}
    Published = {}
    None = None
    Id <- Ids
    Budget <- Bounds
    ids = 4
    acts = 3
    faults = 1
INVARIANTS NoCommitLost AgreedWasShared
PROPERTIES Meets StandsStill
