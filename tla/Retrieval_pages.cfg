SPECIFICATION StoredSpec
CONSTANTS
    h1 = h1
    h2 = h2
    Handlers = {h1, h2}
    Texts = {"a", "c"}
    Lex <- MCLex
    Sem <- MCSem
    Linked <- MCLinked
    Limit = 1
    MaxRows = 4
    MaxCommits = 2
SYMMETRY Symmetry
VIEW View
INVARIANTS
    ListedOnce
    PagesAreTheRanking
    IndexCurrent
    FoundWhileLive
CHECK_DEADLOCK FALSE
