SPECIFICATION Spec
CONSTANTS
    h1 = h1
    h2 = h2
    topic = topic
    content = content
    v1 = v1
    v2 = v2
    Handlers = {h1, h2}
    Columns = {topic, content}
    Values = {v1, v2}
    NULL = NULL
    MaxClock = 4
    MaxUndo = 2
SYMMETRY Symmetry
INVARIANTS
    TypeOK
    DeletionLogged
    ImageLogged
    RevertRecorded
PROPERTIES
    LogOnlyGrows
CHECK_DEADLOCK FALSE
