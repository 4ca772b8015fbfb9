SPECIFICATION FairSpec
CONSTANTS
    a = a
    b = b
    Path = {a, b}
    Entry = {x, y}
    None = None
    NoSnapshot = NoSnapshot
    Tag = {1, 2}
    Above <- PathAbove
    Budget <- Bounds
    edits = 2
    rules = 0
    fails = 1
    unsaid = 0
    stops = 1
    turns = 0
    answers = 1
INVARIANTS NoEcho CalmMeansAgreed
PROPERTIES Converges Quiesces
