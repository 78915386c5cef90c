SPECIFICATION Spec
CONSTANTS
    h1 = h1
    topic = topic
    v1 = v1
    v2 = v2
    Handlers = {h1}
    Columns = {topic}
    Values = {v1, v2}
    NULL = NULL
    MaxClock = 6
    MaxUndo = 3
    Width = 3
    Base = 2
    Times = {1, 2}
    MaxIds = 3
SYMMETRY Symmetry
INVARIANTS
    UndoExact
    LastInFirstOut
    StampsInOrder
PROPERTIES
    ImplementsJournal
CHECK_DEADLOCK FALSE
