SPECIFICATION PassSpec
CONSTANTS
    a = a
    b = b
    Path = {a, b, c}
    Entry = {x, y}
    None = None
    Above <- PathAbove
    Scopes <- AllScopes
    Answers <- AllAnswers
SYMMETRY Entries
INVARIANTS PassTypeOK NoClashLeft NarrowedIsExact Settles AnswerSettles
