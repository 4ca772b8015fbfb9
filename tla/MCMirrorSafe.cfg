SPECIFICATION Spec
CONSTANTS
    a = a
    b = b
    Path = {a, b}
    Entry = {x, y}
    None = None
    NoSnapshot = NoSnapshot
    Tag = {1, 2}
    Above <- PathAbove
    Budget <- Bounds
    edits = 2
    rules = 1
    fails = 1
    unsaid = 1
    stops = 1
    turns = 0
    answers = 1
SYMMETRY Entries
INVARIANTS TypeOK ArchiveBacked
PROPERTIES NoVersionLost OnlyOverAgreed UnseenKept Reconciles
