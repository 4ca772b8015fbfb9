SPECIFICATION Spec
CONSTANTS
    a = a
    b = b
    Path = {a}
    Entry = {x, y}
    None = None
    NoSnapshot = NoSnapshot
    Tag = {1, 2}
    Above <- PathAbove
    Budget <- Bounds
    edits = 3
    rules = 0
    fails = 0
    unsaid = 0
    stops = 1
    turns = 1
    answers = 0
SYMMETRY Entries
PROPERTY HeldSomewhere
